---------------------------- MODULE ScriptProofs ----------------------------
(***************************************************************************)
(* Proofs about Script, for every set of messages and of foreign documents  *)
(* and every number of scripts and of saves and loads.                      *)
(***************************************************************************)
EXTENDS Script, TLAPS

\* What may stand in a file: what GetJsonObject makes of the actions, and what
\* other programs write.
OwnObjects == {GetJsonObject(a) : a \in Actions}
Objects    == OwnObjects \cup UNION {{doc.actions[i] : i \in DOMAIN doc.actions} : doc \in Foreign}

Histories ==
  [known: BOOLEAN, input: Seq(MouseMessage \cup KeyMessage), actions: Seq(Actions),
   start: [time: Nat, url: {"", "recorded"}]]

Sent == [action: Actions, event: UNION {Execute(a, live) : a \in Actions, live \in Live}]

\* The types of TypeOK, of the file and of the histories.
MemoryTyped ==
  /\ recording \in BOOLEAN /\ is_hooked \in BOOLEAN /\ warned \in BOOLEAN /\ loading \in BOOLEAN
  /\ actions \in Seq(Actions) /\ events \in Seq(Int)
  /\ scripts \in 0..MaxScripts /\ inputs \in 0..MaxInput
FileTyped    == unread \in Seq(Objects) /\ file.actions \in Seq(Objects)
HistoryTyped == origin \in Histories /\ fileOrigin \in Histories

\* The hooks record only for a recorder that is on and not loading, and nothing
\* plays then.
ModeInv ==
  /\ loading => recording
  /\ is_hooked => recording /\ ~loading
  /\ playing # 0 => ~recording

\* A replay has sent one event for each action before the next one.
SentInv ==
  /\ playing \in 0..Len(actions)
  /\ sent \in Seq(Sent)
  /\ IF playing = 0 THEN Len(sent) <= Len(actions) ELSE Len(sent) = playing - 1

\* A file this program wrote has the members GenerateJsonDocument gives it, and
\* one object for each action.
OwnFile ==
  fileOrigin.known =>
    /\ DOMAIN file = SchemaRequired
    /\ file.start_time = fileOrigin.start.time
    /\ file.start_url = fileOrigin.start.url
    /\ Len(file.actions) = Len(fileOrigin.actions)
    /\ \A i \in 1..Len(file.actions) : file.actions[i] = GetJsonObject(fileOrigin.actions[i])

\* In the middle of loading one, the list is a beginning of what was recorded, and
\* the objects still to come are those of the rest.
Resumes ==
  origin.known /\ loading =>
    /\ start = origin.start
    /\ Len(actions) + Len(unread) = Len(origin.actions)
    /\ \A i \in 1..Len(actions) : actions[i] = origin.actions[i]
    /\ \A i \in 1..Len(unread) :
         unread[i] = GetJsonObject(origin.actions[Len(actions) + i])

IInv ==
  /\ MemoryTyped /\ FileTyped /\ HistoryTyped /\ ModeInv /\ SentInv
  /\ OwnFile /\ Resumes /\ RoundTrip

-----------------------------------------------------------------------------
(***************************************************************************)
(* Sequences.                                                              *)
(***************************************************************************)
LEMMA LenIsNat == ASSUME NEW S, NEW s \in Seq(S) PROVE Len(s) \in Nat
  OBVIOUS

\* Appending to a sequence adds one element and leaves the others in place.
LEMMA AppendFacts ==
  ASSUME NEW S, NEW s \in Seq(S), NEW e \in S
  PROVE  /\ Append(s, e) \in Seq(S)
         /\ Len(Append(s, e)) = Len(s) + 1
         /\ \A i \in 1..Len(s) : Append(s, e)[i] = s[i]
         /\ Append(s, e)[Len(s) + 1] = e
  OBVIOUS

\* The rest of a sequence is the sequence one place on.
LEMMA TailFacts ==
  ASSUME NEW S, NEW s \in Seq(S), s # <<>>
  PROVE  /\ Head(s) \in S /\ Head(s) = s[1]
         /\ Tail(s) \in Seq(S)
         /\ Len(s) > 0 /\ Len(Tail(s)) = Len(s) - 1
         /\ \A i \in 1..Len(Tail(s)) : Tail(s)[i] = s[i + 1]
  OBVIOUS

LEMMA ConcatFacts ==
  ASSUME NEW S, NEW s \in Seq(S), NEW t \in Seq(S)
  PROVE  s \o t \in Seq(S) /\ Len(s \o t) >= Len(s)
  OBVIOUS

\* Every place of a concatenation is one of its first or of its second part.
LEMMA ConcatElements ==
  ASSUME NEW S, NEW s \in Seq(S), NEW t \in Seq(S)
  PROVE  /\ Len(s \o t) = Len(s) + Len(t)
         /\ \A i \in 1..Len(s) : (s \o t)[i] = s[i]
         /\ \A i \in 1..Len(t) : (s \o t)[Len(s) + i] = t[i]
         /\ \A i \in 1..Len(s \o t) :
              i \in 1..Len(s) \/ \E j \in 1..Len(t) : i = Len(s) + j
  <1>1. /\ Len(s \o t) = Len(s) + Len(t) /\ Len(s) \in Nat /\ Len(t) \in Nat
        /\ \A i \in 1..Len(s) : (s \o t)[i] = s[i]
        /\ \A i \in 1..Len(t) : (s \o t)[Len(s) + i] = t[i]
    OBVIOUS
  <1>2. ASSUME NEW i \in 1..Len(s \o t), i \notin 1..Len(s)
        PROVE  \E j \in 1..Len(t) : i = Len(s) + j
    <2>1. i - Len(s) \in 1..Len(t) /\ i = Len(s) + (i - Len(s))
      BY <1>1, <1>2
    <2> QED
      BY <2>1
  <1> QED
    BY <1>1, <1>2

\* Sequences of the same length and elements are the same.
LEMMA SameSeq ==
  ASSUME NEW S, NEW s \in Seq(S), NEW t \in Seq(S), Len(s) = Len(t),
         \A i \in 1..Len(s) : s[i] = t[i]
  PROVE  s = t
  OBVIOUS

\* A sequence of elements of a set is one of elements of a larger set.
LEMMA WiderSeq ==
  ASSUME NEW S, NEW T, S \subseteq T, NEW s \in Seq(S)
  PROVE  s \in Seq(T)
  OBVIOUS

\* A function on the places of a sequence is a sequence as long.
LEMMA MappedFacts ==
  ASSUME NEW S, NEW n \in Nat, NEW f, DOMAIN f = 1..n, f = [i \in DOMAIN f |-> f[i]],
         \A i \in 1..n : f[i] \in S
  PROVE  f \in Seq(S) /\ Len(f) = n
  OBVIOUS

LEMMA ElementTyped ==
  ASSUME NEW S, NEW s \in Seq(S), NEW i \in 1..Len(s)
  PROVE  s[i] \in S
  OBVIOUS

-----------------------------------------------------------------------------
(***************************************************************************)
(* Actions and objects.                                                    *)
(***************************************************************************)
\* The loader makes the action again that GetJsonObject wrote.
LEMMA ObjectRoundTrip ==
  ASSUME NEW a \in Actions
  PROVE  /\ IsAction(GetJsonObject(a)) /\ ~IsScreenshot(GetJsonObject(a))
         /\ ActionOf(GetJsonObject(a)) = a
         /\ {"type", "time"} \subseteq DOMAIN GetJsonObject(a)
  <1> DEFINE Pointers == [class: {"ClickAction", "MouseMoveAction"}, x: Int, y: Int, wp: Nat,
                          timestamp: Int]
             Wheels   == [class: {"MouseWheelAction"}, x: Int, y: Int, wp: Nat, delta: Int,
                          timestamp: Int]
             Types    == [class: {"TypeAction"}, wp: Nat, up: BOOLEAN, ch: -128..127,
                          timestamp: Int]
             Sizes    == [class: {"ResizeAction"}, width: Int, height: Int, timestamp: Int]
  <1>1. CASE a \in Pointers
    <2>1. CASE a.class = "ClickAction"
      <3>1. GetJsonObject(a) = ClickObject(a)
        BY <2>1 DEF GetJsonObject
      <3> QED
        BY <1>1, <2>1, <3>1 DEF ClickObject, IsAction, IsScreenshot, ActionOf
    <2>2. CASE a.class = "MouseMoveAction"
      <3>1. GetJsonObject(a) = MoveObject(a)
        BY <2>2 DEF GetJsonObject
      <3> QED
        BY <1>1, <2>2, <3>1 DEF MoveObject, IsAction, IsScreenshot, ActionOf
    <2> QED
      BY <1>1, <2>1, <2>2
  <1>2. CASE a \in Wheels
    <2>1. GetJsonObject(a) = WheelObject(a)
      BY <1>2 DEF GetJsonObject
    <2> QED
      BY <1>2, <2>1 DEF WheelObject, IsAction, IsScreenshot, ActionOf
  <1>3. CASE a \in Types
    <2>1. GetJsonObject(a) = TypeObject(a)
      BY <1>3 DEF GetJsonObject
    <2> QED
      BY <1>3, <2>1 DEF TypeObject, IsAction, IsScreenshot, ActionOf
  <1>4. CASE a \in Sizes
    <2>1. GetJsonObject(a) = ResizeObject(a)
      BY <1>4 DEF GetJsonObject
    <2> QED
      BY <1>4, <2>1 DEF ResizeObject, IsAction, IsScreenshot, ActionOf
  <1> QED
    BY <1>1, <1>2, <1>3, <1>4 DEF Actions

\* Whatever program wrote it, an object is turned into an action of the right
\* types, or a screenshot with a time.
LEMMA ObjectsFit ==
  ASSUME NEW o \in Objects
  PROVE  /\ IsAction(o) => ActionOf(o) \in Actions
         /\ IsScreenshot(o) => o.time \in Int
  <1>1. CASE o \in OwnObjects
    BY <1>1, ObjectRoundTrip DEF OwnObjects
  <1>2. CASE o \notin OwnObjects
    <2>1. PICK doc \in Foreign : o \in {doc.actions[i] : i \in DOMAIN doc.actions}
      BY <1>2 DEF Objects
    <2>2. PICK i \in DOMAIN doc.actions : o = doc.actions[i]
      BY <2>1
    <2> QED
      BY <2>2, DocumentsOK
  <1> QED
    BY <1>1, <1>2

\* The hooks make actions of what the user does.
LEMMA HookMakesActions ==
  ASSUME NEW m \in Messages, NEW ts \in Int
  PROVE  Hook(m, ts) \in Seq(Actions)
  <1>1. CASE m \in MouseMessage
    <2>1. m.dev = "mouse" /\ m.x \in Int /\ m.y \in Int /\ m.wp \in Nat /\ m.delta \in Int
      BY <1>1 DEF MouseMessage
    <2>2. Click(m, ts) \in Actions
      BY <2>1 DEF Click, Actions
    <2>3. Move(m, ts) \in Actions
      BY <2>1 DEF Click, Move, Actions
    <2>4. Wheel(m, ts) \in Actions
      BY <2>1 DEF Wheel, Actions
    <2>5. MyMouseHook(m, ts) \in Seq(Actions)
      BY <2>2, <2>3, <2>4 DEF MyMouseHook, WM_LBUTTONDOWN, WM_LBUTTONUP, WM_MOUSEMOVE,
           WM_MOUSEWHEEL
    <2> QED
      BY <2>1, <2>5 DEF Hook
  <1>2. CASE m \in KeyMessage
    <2>1. m.dev = "key" /\ m.wp \in Nat /\ m.up \in BOOLEAN /\ m.text \in Seq(0..255)
      BY <1>2 DEF KeyMessage
    <2>2. \A c \in -128..127 : Type(m, c, ts) \in Actions
      BY <2>1 DEF Type, Actions
    <2>3. Len(m.text) = 1 => SignedChar(m.text[1]) \in -128..127
      <3>1. Len(m.text) = 1 => m.text[1] \in 0..255
        <4> SUFFICES ASSUME Len(m.text) = 1 PROVE m.text[1] \in 0..255
          OBVIOUS
        <4>1. 1 \in 1..Len(m.text)
          OBVIOUS
        <4> QED
          BY <2>1, <4>1, ElementTyped
      <3> QED
        BY <3>1 DEF SignedChar
    <2>4. MyKeyboardHook(m, ts) \in Seq(Actions)
      <3>1. <<Type(m, 0, ts)>> \in Seq(Actions)
        BY <2>2
      <3>2. Len(m.text) = 1 => <<Type(m, SignedChar(m.text[1]), ts)>> \in Seq(Actions)
        BY <2>2, <2>3
      <3>3. (IF ~m.up /\ Len(m.text) = 1 THEN <<Type(m, SignedChar(m.text[1]), ts)>> ELSE <<>>)
              \in Seq(Actions)
        BY <3>2
      <3> QED
        BY <3>1, <3>3, ConcatFacts DEF MyKeyboardHook
    <2> QED
      BY <2>1, <2>4 DEF Hook
  <1> QED
    BY <1>1, <1>2, MessagesOK

-----------------------------------------------------------------------------
(***************************************************************************)
(* The invariant.                                                          *)
(***************************************************************************)
\* A size the frame may have makes an action.
LEMMA ResizedTyped == ASSUME NEW w \in Int, NEW ts \in Int PROVE <<Resized(w, ts)>> \in Seq(Actions)
  <1>1. Resized(w, ts) \in Actions
    BY DEF Resized, Actions
  <1> QED
    BY <1>1

LEMMA NoScriptTyped == NoScript \in Histories /\ ~NoScript.known
  BY DEF NoScript, Histories

LEMMA InitInv == Init => IInv
  <1> SUFFICES ASSUME Init PROVE IInv
    OBVIOUS
  <1>1. actions = <<>> /\ events = <<>> /\ unread = <<>> /\ file.actions = <<>> /\ sent = <<>>
    BY DEF Init, NoFile
  <1>2. ~recording /\ ~is_hooked /\ ~loading /\ playing = 0
    BY DEF Init
  <1>3. origin = NoScript /\ fileOrigin = NoScript
    BY DEF Init
  <1>4. MemoryTyped
    <2>1. actions \in Seq(Actions) /\ events \in Seq(Int)
      BY <1>1
    <2>2. scripts \in 0..MaxScripts /\ inputs \in 0..MaxInput
      BY MessagesOK DEF Init
    <2>3. recording \in BOOLEAN /\ is_hooked \in BOOLEAN /\ warned \in BOOLEAN /\ loading \in BOOLEAN
      BY DEF Init
    <2> QED
      BY <2>1, <2>2, <2>3 DEF MemoryTyped
  <1>5. FileTyped
    BY <1>1 DEF FileTyped
  <1>6. HistoryTyped
    BY <1>3, NoScriptTyped DEF HistoryTyped
  <1>7. ModeInv
    BY <1>2 DEF ModeInv
  <1>8. SentInv
    BY <1>1, <1>2 DEF SentInv
  <1>9. OwnFile /\ Resumes /\ RoundTrip
    BY <1>3, NoScriptTyped DEF OwnFile, Resumes, RoundTrip
  <1> QED
    BY <1>4, <1>5, <1>6, <1>7, <1>8, <1>9 DEF IInv

LEMMA StartRecordInv == IInv /\ StartRecord => IInv'
  <1> SUFFICES ASSUME IInv, StartRecord PROVE IInv'
    OBVIOUS
  <1> USE DEF IInv
  <1>1. ~loading /\ ~loading' /\ playing' = 0 /\ recording' /\ is_hooked'
    BY DEF StartRecord, ModeInv
  <1>2. actions' \in Seq(Actions)
    BY ResizedTyped DEF StartRecord
  <1>3. Len(events) + 1 \in Nat
    BY LenIsNat DEF MemoryTyped
  <1>4. start' \in [time: Nat, url: {"", "recorded"}]
    BY <1>3 DEF StartRecord
  <1>5. origin' = [known |-> TRUE, input |-> <<>>, actions |-> actions', start |-> start']
    BY DEF StartRecord
  <1>6. events' \in Seq(Int)
    BY <1>3, AppendFacts DEF StartRecord, MemoryTyped
  <1>7. MemoryTyped'
    BY <1>1, <1>2, <1>6, MessagesOK DEF StartRecord, MemoryTyped
  <1>8. FileTyped'
    BY DEF StartRecord, FileTyped
  <1>9. HistoryTyped'
    <2>1. <<>> \in Seq(MouseMessage \cup KeyMessage)
      OBVIOUS
    <2>2. origin' \in Histories
      BY <1>2, <1>4, <1>5, <2>1 DEF Histories
    <2>3. fileOrigin' \in Histories
      BY DEF StartRecord, HistoryTyped
    <2> QED
      BY <2>2, <2>3 DEF HistoryTyped
  <1>10. ModeInv'
    BY <1>1 DEF ModeInv
  <1>11. SentInv'
    BY <1>1, <1>2, LenIsNat DEF StartRecord, SentInv
  <1>12. OwnFile'
    BY DEF StartRecord, OwnFile
  <1>13. Resumes' /\ RoundTrip'
    BY <1>1, <1>5 DEF Resumes, RoundTrip
  <1> QED
    BY <1>7, <1>8, <1>9, <1>10, <1>11, <1>12, <1>13

\* What a message or the frame adds to the list is added to the history as well.
LEMMA RecordedInv ==
  ASSUME IInv, NEW new \in Seq(Actions), recording, ~loading, inputs < MaxInput,
         inputs' = inputs + 1,
         actions' = actions \o new,
         origin' \in Histories, origin'.known = origin.known, origin'.start = origin.start,
         origin'.actions = origin.actions \o new,
         UNCHANGED <<recording, is_hooked, events, start, loading, unread, scripts, file, warned,
                     playing, sent, fileOrigin>>
  PROVE  IInv'
  <1> USE DEF IInv
  <1>1. actions' \in Seq(Actions) /\ Len(actions') >= Len(actions)
    BY ConcatFacts DEF MemoryTyped
  <1>6. MemoryTyped'
    BY <1>1, MessagesOK DEF MemoryTyped
  <1>7. FileTyped' /\ HistoryTyped'
    BY DEF FileTyped, HistoryTyped
  <1>8. ModeInv' /\ playing = 0
    BY DEF ModeInv, SentInv
  <1>9. SentInv'
    <2>1. Len(actions) \in Nat /\ Len(actions') \in Nat /\ Len(sent) \in Nat
      BY <1>1, LenIsNat DEF MemoryTyped, SentInv
    <2> QED
      BY <1>1, <1>8, <2>1 DEF SentInv
  <1>10. OwnFile' /\ Resumes'
    BY DEF OwnFile, Resumes
  <1>11. RoundTrip'
    BY DEF RoundTrip
  <1> QED
    BY <1>6, <1>7, <1>8, <1>9, <1>10, <1>11

LEMMA RecordMessageInv == ASSUME NEW m \in Messages PROVE IInv /\ RecordMessage(m) => IInv'
  <1> SUFFICES ASSUME IInv, RecordMessage(m) PROVE IInv'
    OBVIOUS
  <1>1. origin.input \in Seq(MouseMessage \cup KeyMessage)
    BY DEF IInv, HistoryTyped, Histories
  <1>2. Len(origin.input) + 1 \in Int
    BY <1>1, LenIsNat
  <1>3. Append(origin.input, m) \in Seq(MouseMessage \cup KeyMessage)
    BY <1>1, AppendFacts, MessagesOK
  <1>4. PICK new : new = Hook(m, Len(origin.input) + 1)
    OBVIOUS
  <1>5. new \in Seq(Actions)
    BY <1>2, <1>4, HookMakesActions
  <1>6. recording /\ ~loading
    BY DEF RecordMessage, IInv, ModeInv
  <1>7. origin' = [origin EXCEPT !.input = Append(@, m), !.actions = @ \o new]
    BY <1>4 DEF RecordMessage
  <1>8. origin' \in Histories /\ origin'.actions = origin.actions \o new
    BY <1>3, <1>5, <1>7, ConcatFacts DEF IInv, HistoryTyped, Histories
  <1>9. origin'.known = origin.known /\ origin'.start = origin.start
    BY <1>7 DEF IInv, HistoryTyped, Histories
  <1> QED
    BY <1>4, <1>5, <1>6, <1>8, <1>9, RecordedInv DEF RecordMessage

LEMMA OnSizeInv == IInv /\ OnSize => IInv'
  <1> SUFFICES ASSUME IInv, OnSize PROVE IInv'
    OBVIOUS
  <1>1. origin.input \in Seq(MouseMessage \cup KeyMessage)
    BY DEF IInv, HistoryTyped, Histories
  <1>2. Len(origin.input) \in Int
    BY <1>1, LenIsNat
  <1>3. PICK new : new = <<Resized(640, Len(origin.input))>>
    OBVIOUS
  <1>4. new \in Seq(Actions)
    BY <1>2, <1>3, ResizedTyped
  <1>5. origin' = [origin EXCEPT !.actions = @ \o new]
    BY <1>3 DEF OnSize
  <1>6. origin' \in Histories /\ origin'.actions = origin.actions \o new
    BY <1>4, <1>5, ConcatFacts DEF IInv, HistoryTyped, Histories
  <1>7. origin'.known = origin.known /\ origin'.start = origin.start
    BY <1>5 DEF IInv, HistoryTyped, Histories
  <1> QED
    BY <1>3, <1>4, <1>6, <1>7, RecordedInv DEF OnSize

LEMMA StopRecordInv == IInv /\ StopRecord => IInv'
  <1> SUFFICES ASSUME IInv, StopRecord PROVE IInv'
    OBVIOUS
  <1> USE DEF IInv
  <1>1. events' \in Seq(Int)
    BY LenIsNat, AppendFacts DEF StopRecord, MemoryTyped
  <1>2. MemoryTyped' /\ ModeInv' /\ HistoryTyped' /\ FileTyped'
    BY <1>1 DEF StopRecord, counts, MemoryTyped, ModeInv, HistoryTyped, FileTyped
  <1>3. SentInv'
    BY DEF StopRecord, SentInv
  <1>4. OwnFile' /\ Resumes' /\ RoundTrip'
    BY DEF StopRecord, OwnFile, Resumes, RoundTrip
  <1> QED
    BY <1>2, <1>3, <1>4

\* The file is one object for each action, as long as the list.
LEMMA OnSaveToFileInv == IInv /\ OnSaveToFile => IInv'
  <1> SUFFICES ASSUME IInv, OnSaveToFile PROVE IInv'
    OBVIOUS
  <1> USE DEF IInv
  <1>1. file'.actions = [i \in DOMAIN actions |-> GetJsonObject(actions[i])]
    BY DEF OnSaveToFile, GenerateJsonDocument
  <1>2. DOMAIN file' = SchemaRequired
    BY DEF OnSaveToFile, GenerateJsonDocument, SchemaRequired
  <1>3. file'.start_time = start.time /\ file'.start_url = start.url
    BY DEF OnSaveToFile, GenerateJsonDocument
  <1>4. \A i \in 1..Len(actions) : GetJsonObject(actions[i]) \in Objects
    <2> SUFFICES ASSUME NEW i \in 1..Len(actions) PROVE GetJsonObject(actions[i]) \in Objects
      OBVIOUS
    <2>1. actions[i] \in Actions
      BY ElementTyped DEF MemoryTyped
    <2> QED
      BY <2>1 DEF OwnObjects, Objects
  <1>5. DOMAIN actions = 1..Len(actions) /\ Len(actions) \in Nat
    BY DEF MemoryTyped
  <1>6. file'.actions \in Seq(Objects) /\ Len(file'.actions) = Len(actions)
    <2>1. PICK f : f = file'.actions
      OBVIOUS
    <2>2. DOMAIN f = 1..Len(actions) /\ f = [i \in DOMAIN f |-> f[i]]
      BY <1>1, <1>5, <2>1
    <2>3. \A i \in 1..Len(actions) : f[i] \in Objects
      BY <1>1, <1>4, <1>5, <2>1
    <2> QED
      BY <1>5, <2>1, <2>2, <2>3, MappedFacts
  <1>7. ~loading /\ ~loading'
    BY DEF OnSaveToFile, ModeInv, memory
  <1>8. origin.known => actions = origin.actions /\ start = origin.start
    BY <1>7 DEF RoundTrip
  <1>9. OwnFile'
    <2>1. fileOrigin' = origin
      BY DEF OnSaveToFile
    <2>2. \A i \in 1..Len(file'.actions) : file'.actions[i] = GetJsonObject(actions[i])
      BY <1>1, <1>5, <1>6
    <2> QED
      BY <1>2, <1>3, <1>6, <1>8, <2>1, <2>2 DEF OwnFile
  <1>10. MemoryTyped' /\ ModeInv'
    BY DEF OnSaveToFile, memory, counts, MemoryTyped, ModeInv
  <1>11. FileTyped' /\ HistoryTyped'
    BY <1>6 DEF OnSaveToFile, memory, FileTyped, HistoryTyped
  <1>12. SentInv' /\ Resumes' /\ RoundTrip'
    BY DEF OnSaveToFile, memory, SentInv, Resumes, RoundTrip
  <1> QED
    BY <1>9, <1>10, <1>11, <1>12

LEMMA ForeignFileInv == ASSUME NEW doc \in Foreign PROVE IInv /\ ForeignFile(doc) => IInv'
  <1> SUFFICES ASSUME IInv, ForeignFile(doc) PROVE IInv'
    OBVIOUS
  <1> USE DEF IInv
  <1>1. doc.actions \in Seq({doc.actions[i] : i \in DOMAIN doc.actions})
    BY DocumentsOK
  <1>2. {doc.actions[i] : i \in DOMAIN doc.actions} \subseteq Objects
    BY DEF Objects
  <1>3. doc.actions \in Seq(Objects)
    BY <1>1, <1>2, WiderSeq
  <1>4. MemoryTyped' /\ ModeInv'
    BY DEF ForeignFile, memory, counts, MemoryTyped, ModeInv
  <1>5. FileTyped' /\ HistoryTyped'
    BY <1>3, NoScriptTyped DEF ForeignFile, memory, FileTyped, HistoryTyped
  <1>6. SentInv' /\ Resumes' /\ RoundTrip'
    BY DEF ForeignFile, memory, SentInv, Resumes, RoundTrip
  <1>7. OwnFile'
    BY NoScriptTyped DEF ForeignFile, OwnFile
  <1> QED
    BY <1>4, <1>5, <1>6, <1>7

LEMMA LoadJsonFileInv == IInv /\ LoadJsonFile => IInv'
  <1> SUFFICES ASSUME IInv, LoadJsonFile PROVE IInv'
    OBVIOUS
  <1> USE DEF IInv
  <1>1. actions' = <<>> /\ unread' = file.actions /\ origin' = fileOrigin /\ sent' = <<>>
    BY DEF LoadJsonFile
  <1>2. loading' /\ recording' /\ ~is_hooked' /\ playing' = 0
    BY DEF LoadJsonFile, ModeInv, MemoryTyped
  <1>3. MemoryTyped'
    <2>1. warned' \in BOOLEAN
      BY DEF LoadJsonFile
    <2>2. actions' \in Seq(Actions)
      BY <1>1
    <2>3. loading' \in BOOLEAN /\ recording' \in BOOLEAN /\ is_hooked' \in BOOLEAN
      BY DEF LoadJsonFile, MemoryTyped
    <2> QED
      BY <2>1, <2>2, <2>3 DEF LoadJsonFile, MemoryTyped, counts
  <1>4. FileTyped' /\ HistoryTyped'
    BY <1>1 DEF LoadJsonFile, FileTyped, HistoryTyped
  <1>5. ModeInv'
    BY <1>2 DEF ModeInv
  <1>6. SentInv'
    BY <1>1, <1>2 DEF SentInv
  <1>7. OwnFile'
    BY DEF LoadJsonFile, OwnFile
  <1>8. Resumes'
    <2> SUFFICES ASSUME fileOrigin.known PROVE Resumes'
      BY <1>1 DEF Resumes
    <2>1. start' = fileOrigin.start
      <3>1. start' = [time |-> fileOrigin.start.time, url |-> fileOrigin.start.url]
        BY DEF LoadJsonFile, OwnFile
      <3>2. fileOrigin.start \in [time: Nat, url: {"", "recorded"}]
        BY DEF HistoryTyped, Histories
      <3> QED
        BY <3>1, <3>2
    <2>2. Len(actions') = 0 /\ Len(unread') \in Nat
      BY <1>1, LenIsNat DEF FileTyped
    <2>3. Len(unread') = Len(origin'.actions)
      BY <1>1 DEF OwnFile
    <2>4. \A i \in 1..Len(unread') : unread'[i] = GetJsonObject(origin'.actions[0 + i])
      BY <1>1, <2>2 DEF OwnFile
    <2> QED
      BY <1>1, <2>1, <2>2, <2>3, <2>4 DEF Resumes
  <1>9. RoundTrip'
    BY <1>2 DEF RoundTrip
  <1> QED
    BY <1>3, <1>4, <1>5, <1>6, <1>7, <1>8, <1>9

\* The end of the document: all of the script is there again.
LEMMA LoadDoneInv == IInv /\ LoadDone => IInv'
  <1> SUFFICES ASSUME IInv, LoadDone PROVE IInv'
    OBVIOUS
  <1> USE DEF IInv
  <1>1. loading /\ ~loading' /\ ~recording' /\ unread = <<>>
    BY DEF LoadDone
  <1>2. MemoryTyped'
    <2>1. loading' \in BOOLEAN /\ recording' \in BOOLEAN
      BY DEF LoadDone
    <2> QED
      BY <2>1 DEF LoadDone, MemoryTyped, counts
  <1>3. FileTyped' /\ HistoryTyped'
    BY DEF LoadDone, FileTyped, HistoryTyped
  <1>4. ModeInv' /\ SentInv'
    BY <1>1 DEF LoadDone, ModeInv, SentInv
  <1>5. OwnFile' /\ Resumes'
    BY <1>1 DEF LoadDone, OwnFile, Resumes
  <1>6. RoundTrip'
    <2> SUFFICES ASSUME origin.known PROVE actions = origin.actions /\ start = origin.start
      BY DEF LoadDone, RoundTrip
    <2>1. Len(unread) = 0 /\ Len(actions) \in Nat
      BY <1>1, LenIsNat DEF MemoryTyped
    <2>2. Len(actions) = Len(origin.actions)
      <3>1. Len(origin.actions) \in Nat
        BY LenIsNat DEF HistoryTyped, Histories
      <3> QED
        BY <1>1, <2>1, <3>1 DEF Resumes
    <2>3. actions \in Seq(Actions) /\ origin.actions \in Seq(Actions)
      BY DEF MemoryTyped, HistoryTyped, Histories
    <2>4. actions = origin.actions
      BY <1>1, <2>2, <2>3, SameSeq DEF Resumes
    <2> QED
      BY <1>1, <2>4 DEF Resumes
  <1> QED
    BY <1>2, <1>3, <1>4, <1>5, <1>6

\* One object more read is one less to come; of an own file every object is an
\* action's.
LEMMA LoadObjectInv == IInv /\ LoadObject => IInv'
  <1> SUFFICES ASSUME IInv, LoadObject PROVE IInv'
    OBVIOUS
  <1> USE DEF IInv
  <1>1. PICK o : o = Head(unread)
    OBVIOUS
  <1>2. o \in Objects /\ o = unread[1] /\ Tail(unread) \in Seq(Objects) /\ Len(unread) > 0
    BY <1>1, TailFacts DEF LoadObject, FileTyped
  <1>3. loading /\ recording /\ ~is_hooked /\ playing = 0
    BY DEF LoadObject, ModeInv, SentInv
  <1>4. /\ UNCHANGED <<recording, is_hooked, start, scripts, inputs, file, warned, playing, sent,
                       origin, fileOrigin>>
    BY DEF LoadObject, counts
  <1>5. HistoryTyped' /\ OwnFile'
    BY <1>4 DEF HistoryTyped, OwnFile
  <1>6. Len(actions) \in Nat /\ Len(unread) \in Nat /\ Len(sent) \in Nat
    BY LenIsNat DEF MemoryTyped, FileTyped, SentInv
  <1>7. CASE /\ IsAction(o) /\ actions' = Append(actions, ActionOf(o)) /\ unread' = Tail(unread)
             /\ UNCHANGED <<events, loading>>
    <2>1. actions' \in Seq(Actions) /\ Len(actions') = Len(actions) + 1
      BY <1>2, <1>7, ObjectsFit, AppendFacts DEF MemoryTyped
    <2>2. MemoryTyped' /\ FileTyped'
      BY <1>2, <1>4, <1>7, <2>1 DEF MemoryTyped, FileTyped
    <2>3. ModeInv' /\ SentInv'
      BY <1>3, <1>4, <1>6, <1>7, <2>1 DEF ModeInv, SentInv
    <2>4. RoundTrip'
      BY <1>3, <1>7 DEF RoundTrip
    <2>5. Resumes'
      <3> SUFFICES ASSUME origin.known PROVE Resumes'
        BY <1>4 DEF Resumes
      <3>1. /\ start = origin.start
            /\ Len(actions) + Len(unread) = Len(origin.actions)
            /\ \A i \in 1..Len(actions) : actions[i] = origin.actions[i]
            /\ \A i \in 1..Len(unread) : unread[i] = GetJsonObject(origin.actions[Len(actions) + i])
        BY <1>3 DEF Resumes
      <3>2. /\ Len(unread') = Len(unread) - 1
            /\ \A i \in 1..Len(unread') : unread'[i] = unread[i + 1]
        BY <1>7, TailFacts DEF LoadObject, FileTyped
      <3>3. Len(actions') + Len(unread') = Len(origin.actions)
        <4>1. Len(actions') = Len(actions) + 1
          BY <2>1
        <4>2. Len(unread') = Len(unread) - 1
          BY <3>2
        <4>3. Len(actions) + Len(unread) = Len(origin.actions)
          BY <3>1
        <4> QED
          BY <1>6, <4>1, <4>2, <4>3
      <3>4. o = GetJsonObject(origin.actions[Len(actions) + 1])
        BY <1>2, <1>6, <3>1
      <3>5. origin.actions[Len(actions) + 1] \in Actions
        <4>1. origin.actions \in Seq(Actions)
          BY DEF HistoryTyped, Histories
        <4>2. Len(actions) + 1 \in 1..Len(origin.actions)
          BY <1>2, <1>6, <3>1
        <4> QED
          BY <4>1, <4>2, ElementTyped
      <3>6. ActionOf(o) = origin.actions[Len(actions) + 1]
        BY <3>4, <3>5, ObjectRoundTrip
      <3>7. ActionOf(o) \in Actions
        BY <3>5, <3>6
      <3>8. /\ \A i \in 1..Len(actions) : actions'[i] = actions[i]
            /\ actions'[Len(actions) + 1] = ActionOf(o)
        BY <1>7, <3>7, AppendFacts DEF MemoryTyped
      <3>9. \A i \in 1..Len(actions') : actions'[i] = origin.actions[i]
        <4> SUFFICES ASSUME NEW i \in 1..Len(actions') PROVE actions'[i] = origin.actions[i]
          OBVIOUS
        <4>1. CASE i = Len(actions) + 1
          BY <3>6, <3>8, <4>1
        <4>2. CASE i \in 1..Len(actions)
          BY <3>1, <3>8, <4>2
        <4> QED
          BY <1>6, <2>1, <4>1, <4>2
      <3>10. \A i \in 1..Len(unread') :
               unread'[i] = GetJsonObject(origin.actions[Len(actions') + i])
        <4> SUFFICES ASSUME NEW i \in 1..Len(unread')
                     PROVE  unread'[i] = GetJsonObject(origin.actions[Len(actions') + i])
          OBVIOUS
        <4>1. i + 1 \in 1..Len(unread) /\ Len(actions) + (i + 1) = Len(actions') + i
          BY <1>2, <1>6, <2>1, <3>2
        <4>2. unread[i + 1] = GetJsonObject(origin.actions[Len(actions) + (i + 1)])
          BY <3>1, <4>1
        <4> QED
          BY <3>2, <4>1, <4>2
      <3> QED
        BY <1>4, <3>1, <3>3, <3>9, <3>10 DEF Resumes
    <2> QED
      BY <1>5, <2>2, <2>3, <2>4, <2>5
  <1>8. CASE ~IsAction(o)
    <2>1. ~origin.known
      <3> SUFFICES ASSUME origin.known PROVE FALSE
        OBVIOUS
      <3>1. o = GetJsonObject(origin.actions[Len(actions) + 1])
        BY <1>2, <1>3, <1>6 DEF Resumes
      <3>2. origin.actions \in Seq(Actions) /\ Len(actions) + Len(unread) = Len(origin.actions)
        BY <1>3 DEF Resumes, HistoryTyped, Histories
      <3>3. Len(actions) + 1 \in 1..Len(origin.actions)
        BY <1>2, <1>6, <3>2
      <3>4. origin.actions[Len(actions) + 1] \in Actions
        BY <3>2, <3>3, ElementTyped
      <3> QED
        BY <1>8, <3>1, <3>4, ObjectRoundTrip
    <2>2. Resumes' /\ RoundTrip'
      BY <1>4, <2>1 DEF Resumes, RoundTrip
    <2>3. actions' = actions
      BY <1>1, <1>8 DEF LoadObject
    <2>4. unread' \in Seq(Objects)
      <3>1. unread' = Tail(unread) \/ unread' = <<>>
        BY <1>1, <1>8 DEF LoadObject
      <3>2. <<>> \in Seq(Objects)
        OBVIOUS
      <3> QED
        BY <1>2, <3>1, <3>2
    <2>5. loading' \in BOOLEAN /\ (loading' => loading)
      BY <1>3, <1>1, <1>8 DEF LoadObject, MemoryTyped
    <2>6. events' \in Seq(Int)
      <3>1. CASE events' = events
        BY <3>1 DEF MemoryTyped
      <3>2. CASE IsScreenshot(o) /\ events' = Append(events, o.time)
        BY <1>2, <3>2, ObjectsFit, AppendFacts DEF MemoryTyped
      <3> QED
        BY <1>1, <1>8, <3>1, <3>2 DEF LoadObject
    <2>7. MemoryTyped' /\ FileTyped'
      BY <1>4, <2>3, <2>4, <2>5, <2>6 DEF MemoryTyped, FileTyped
    <2>8. ModeInv' /\ SentInv'
      BY <1>3, <1>4, <2>3, <2>5 DEF ModeInv, SentInv
    <2> QED
      BY <1>5, <2>2, <2>7, <2>8
  <1> QED
    <2>1. \/ IsAction(o) /\ actions' = Append(actions, ActionOf(o)) /\ unread' = Tail(unread)
             /\ UNCHANGED <<events, loading>>
          \/ ~IsAction(o)
      <3>1. IsScreenshot(o) => ~IsAction(o)
        BY DEF IsScreenshot, IsAction
      <3> QED
        BY <1>1, <3>1 DEF LoadObject
    <2> QED
      BY <1>7, <1>8, <2>1

LEMMA RestartInv == IInv /\ Restart => IInv'
  <1> SUFFICES ASSUME IInv, Restart PROVE IInv'
    OBVIOUS
  <1> USE DEF IInv
  <1>1. actions' = <<>> /\ events' = <<>> /\ unread' = <<>> /\ sent' = <<>>
    BY DEF Restart
  <1>2. ~recording' /\ ~is_hooked' /\ ~loading' /\ playing' = 0
    BY DEF Restart
  <1>3. origin' = NoScript
    BY DEF Restart
  <1>4. MemoryTyped'
    <2>1. actions' \in Seq(Actions) /\ events' \in Seq(Int)
      BY <1>1
    <2>2. recording' \in BOOLEAN /\ is_hooked' \in BOOLEAN /\ loading' \in BOOLEAN
      BY DEF Restart
    <2>3. UNCHANGED <<warned, scripts, inputs>>
      BY DEF Restart, counts
    <2> QED
      BY <2>1, <2>2, <2>3 DEF MemoryTyped
  <1>5. FileTyped'
    BY <1>1 DEF Restart, FileTyped
  <1>6. HistoryTyped'
    BY <1>3, NoScriptTyped DEF Restart, HistoryTyped
  <1>7. ModeInv' /\ SentInv'
    BY <1>1, <1>2 DEF ModeInv, SentInv
  <1>8. OwnFile'
    BY DEF Restart, OwnFile
  <1>9. Resumes' /\ RoundTrip'
    BY <1>3, NoScriptTyped DEF Resumes, RoundTrip
  <1> QED
    BY <1>4, <1>5, <1>6, <1>7, <1>8, <1>9

LEMMA PlayInv == IInv /\ Play => IInv'
  <1> SUFFICES ASSUME IInv, Play PROVE IInv'
    OBVIOUS
  <1> USE DEF IInv
  <1>1. Len(actions) \in Nat /\ Len(actions) # 0
    BY DEF Play, MemoryTyped
  <1>2. MemoryTyped' /\ ModeInv'
    BY DEF Play, memory, counts, MemoryTyped, ModeInv
  <1>3. SentInv'
    BY <1>1 DEF Play, memory, SentInv
  <1>4. FileTyped' /\ HistoryTyped' /\ OwnFile' /\ Resumes' /\ RoundTrip'
    BY DEF Play, memory, FileTyped, HistoryTyped, OwnFile, Resumes, RoundTrip
  <1> QED
    BY <1>2, <1>3, <1>4

LEMMA PlayActionInv == ASSUME NEW live \in Live PROVE IInv /\ PlayAction(live) => IInv'
  <1> SUFFICES ASSUME IInv, PlayAction(live) PROVE IInv'
    OBVIOUS
  <1> USE DEF IInv
  <1>1. Len(actions) \in Nat /\ playing \in 1..Len(actions) /\ playing # 0
    BY DEF PlayAction, MemoryTyped
  <1>2. PICK e \in Execute(actions[playing], live) :
          sent' = Append(sent, [action |-> actions[playing], event |-> e])
    BY DEF PlayAction
  <1>3. actions[playing] \in Actions
    BY <1>1, ElementTyped DEF MemoryTyped
  <1>4. [action |-> actions[playing], event |-> e] \in Sent
    BY <1>3, <1>2 DEF Sent
  <1>5. sent' \in Seq(Sent) /\ Len(sent') = Len(sent) + 1
    BY <1>2, <1>4, AppendFacts DEF SentInv
  <1>6. Len(sent') = playing
    BY <1>1, <1>5 DEF SentInv
  <1>7. playing' = IF playing = Len(actions) THEN 0 ELSE playing + 1
    BY DEF PlayAction
  <1>8. UNCHANGED memory
    BY DEF PlayAction
  <1>9. SentInv'
    <2>1. actions' = actions
      BY <1>8 DEF memory
    <2>2. CASE playing = Len(actions)
      BY <1>1, <1>5, <1>6, <1>7, <2>1, <2>2 DEF SentInv
    <2>3. CASE playing # Len(actions)
      BY <1>1, <1>5, <1>6, <1>7, <2>1, <2>3 DEF SentInv
    <2> QED
      BY <2>2, <2>3
  <1>10. MemoryTyped' /\ ModeInv'
    BY <1>1 DEF PlayAction, memory, counts, MemoryTyped, ModeInv
  <1>11. FileTyped' /\ HistoryTyped' /\ OwnFile' /\ Resumes' /\ RoundTrip'
    BY DEF PlayAction, memory, FileTyped, HistoryTyped, OwnFile, Resumes, RoundTrip
  <1> QED
    BY <1>9, <1>10, <1>11

LEMMA StutterInv == IInv /\ UNCHANGED vars => IInv'
  <1> SUFFICES ASSUME IInv, UNCHANGED vars PROVE IInv'
    OBVIOUS
  <1>1. MemoryTyped' /\ FileTyped' /\ HistoryTyped'
    BY DEF IInv, vars, memory, counts, MemoryTyped, FileTyped, HistoryTyped
  <1>2. ModeInv' /\ SentInv'
    BY DEF IInv, vars, memory, counts, ModeInv, SentInv
  <1>3. OwnFile' /\ Resumes' /\ RoundTrip'
    BY DEF IInv, vars, memory, counts, OwnFile, Resumes, RoundTrip
  <1> QED
    BY <1>1, <1>2, <1>3 DEF IInv

THEOREM Invariant == Spec => []IInv
  <1>1. IInv /\ [Next]_vars => IInv'
    BY StartRecordInv, OnSizeInv, StopRecordInv, OnSaveToFileInv, RestartInv, PlayInv,
       LoadJsonFileInv, LoadObjectInv, LoadDoneInv, RecordMessageInv, ForeignFileInv,
       PlayActionInv, StutterInv DEF Next
  <1> QED
    BY <1>1, InitInv, PTL DEF Spec

-----------------------------------------------------------------------------
(***************************************************************************)
(* The theorems.                                                           *)
(***************************************************************************)
\* Types, the place of a replay in the list, and that it sends no more than it
\* holds.
THEOREM TypeCorrect == Spec => []TypeOK
  <1>1. IInv => TypeOK
    <2> SUFFICES ASSUME IInv PROVE TypeOK
      OBVIOUS
    <2>1. Len(actions) \in Nat /\ Len(sent) \in Nat
      BY LenIsNat DEF IInv, MemoryTyped, SentInv
    <2>2. Len(sent) <= Len(actions)
      BY <2>1 DEF IInv, SentInv
    <2> QED
      BY <2>2 DEF IInv, MemoryTyped, ModeInv, SentInv, TypeOK
  <1> QED
    BY <1>1, Invariant, PTL

\* The list in memory is what the hooks made of the messages, however often it was
\* written to a file and read back.
THEOREM RoundTripCorrect == Spec => []RoundTrip
  <1>1. IInv => RoundTrip
    BY DEF IInv
  <1> QED
    BY <1>1, Invariant, PTL

\* The schema's verdict is never shown for a file this program wrote.
THEOREM OwnFilesAcceptedCorrect == Spec => OwnFilesAccepted
  <1>1. IInv /\ [Next]_vars => [LoadJsonFile /\ fileOrigin.known => ~warned']_vars
    <2> SUFFICES ASSUME IInv, LoadJsonFile, fileOrigin.known PROVE ~warned'
      OBVIOUS
    <2>1. DOMAIN file = SchemaRequired
      BY DEF IInv, OwnFile
    <2>2. SchemaRequired \subseteq SchemaMembers
      BY DEF SchemaRequired, SchemaMembers
    <2>3. file.start_time >= 0
      <3>1. fileOrigin.start \in [time: Nat, url: {"", "recorded"}]
        BY DEF IInv, HistoryTyped, Histories
      <3>2. fileOrigin.start.time >= 0
        <4>1. fileOrigin.start.time \in Nat
          BY <3>1
        <4> QED
          BY <4>1
      <3> QED
        BY <3>2 DEF IInv, OwnFile
    <2>4. \A i \in DOMAIN file.actions : {"type", "time"} \subseteq DOMAIN file.actions[i]
      <3> SUFFICES ASSUME NEW i \in DOMAIN file.actions
                   PROVE  {"type", "time"} \subseteq DOMAIN file.actions[i]
        OBVIOUS
      <3>1. i \in 1..Len(file.actions)
        BY DEF IInv, FileTyped
      <3>2. fileOrigin.actions \in Seq(Actions) /\ i \in 1..Len(fileOrigin.actions)
        BY <3>1 DEF IInv, OwnFile, HistoryTyped, Histories
      <3>3. fileOrigin.actions[i] \in Actions
        BY <3>2, ElementTyped
      <3>4. file.actions[i] = GetJsonObject(fileOrigin.actions[i])
        BY <3>1 DEF IInv, OwnFile
      <3> QED
        BY <3>3, <3>4, ObjectRoundTrip
    <2>5. Accept(file)
      BY <2>1, <2>2, <2>3, <2>4 DEF Accept
    <2> QED
      BY <2>5 DEF LoadJsonFile
  <1> QED
    BY <1>1, Invariant, PTL DEF Spec, OwnFilesAccepted

-----------------------------------------------------------------------------
(***************************************************************************)
(* What the hooks have made of the messages, and what of it is sent.       *)
(***************************************************************************)
\* What a hook makes of a message.
LEMMA HookShape ==
  ASSUME NEW m \in Messages, NEW ts \in Int
  PROVE  \/ m.dev = "mouse" /\ IsClick(m) /\ Hook(m, ts) = <<Click(m, ts)>>
         \/ m.dev = "mouse" /\ m.wp = WM_MOUSEMOVE /\ Hook(m, ts) = <<Move(m, ts)>>
         \/ m.dev = "mouse" /\ m.wp = WM_MOUSEWHEEL /\ Hook(m, ts) = <<Wheel(m, ts)>>
         \/ ~IsClick(m) /\ ~IsText(m) /\ Hook(m, ts) = <<>>
         \/ m.dev = "key" /\ ~IsText(m) /\ Hook(m, ts) = <<Type(m, 0, ts)>>
         \/ /\ m.dev = "key" /\ IsText(m)
            /\ Hook(m, ts) = <<Type(m, 0, ts), Type(m, SignedChar(m.text[1]), ts)>>
  <1>1. CASE m \in MouseMessage
    <2>1. m.dev = "mouse" /\ ~IsText(m) /\ Hook(m, ts) = MyMouseHook(m, ts)
      BY <1>1 DEF MouseMessage, Hook, IsText
    <2> QED
      BY <2>1 DEF MyMouseHook, IsClick, WM_LBUTTONDOWN, WM_LBUTTONUP, WM_MOUSEMOVE, WM_MOUSEWHEEL
  <1>2. CASE m \in KeyMessage
    <2>1. m.dev = "key" /\ m.up \in BOOLEAN /\ ~IsClick(m) /\ Hook(m, ts) = MyKeyboardHook(m, ts)
      BY <1>2 DEF KeyMessage, Hook, IsClick
    <2>2. <<Type(m, 0, ts)>> \o <<>> = <<Type(m, 0, ts)>>
      OBVIOUS
    <2>3. ASSUME NEW a, NEW b PROVE <<a>> \o <<b>> = <<a, b>>
      <3>1. <<a>> \in Seq({a, b}) /\ <<b>> \in Seq({a, b}) /\ <<a, b>> \in Seq({a, b})
        OBVIOUS
      <3>2. <<a>> \o <<b>> \in Seq({a, b})
        BY <3>1, ConcatFacts
      <3>3. Len(<<a>> \o <<b>>) = 2 /\ (<<a>> \o <<b>>)[1] = a /\ (<<a>> \o <<b>>)[2] = b
        BY <3>1
      <3>4. Len(<<a, b>>) = 2 /\ \A i \in 1..2 : (<<a>> \o <<b>>)[i] = <<a, b>>[i]
        BY <3>3
      <3> QED
        BY <3>1, <3>2, <3>3, <3>4, SameSeq
    <2>4. CASE IsText(m)
      BY <2>1, <2>3, <2>4 DEF MyKeyboardHook, IsText
    <2>5. CASE ~IsText(m)
      BY <2>1, <2>2, <2>5 DEF MyKeyboardHook, IsText
    <2> QED
      BY <2>1, <2>4, <2>5
  <1> QED
    BY <1>1, <1>2, MessagesOK

\* Its actions have the time of the message; only a key's own action is followed by
\* another one.
LEMMA HookFacts ==
  ASSUME NEW m \in Messages, NEW ts \in Int
  PROVE  /\ \A j \in 1..Len(Hook(m, ts)) :
              Hook(m, ts)[j].timestamp = ts /\ Hook(m, ts)[j].class # "ResizeAction"
         /\ \A j, l \in 1..Len(Hook(m, ts)) : j < l =>
              Hook(m, ts)[j].class = "TypeAction" /\ Hook(m, ts)[j].ch = 0
  <1>1. \A a : /\ Len(<<a>>) = 1 /\ <<a>>[1] = a
               /\ \A b : Len(<<a, b>>) = 2 /\ <<a, b>>[1] = a /\ <<a, b>>[2] = b
    OBVIOUS
  <1>2. \A a \in {Click(m, ts), Move(m, ts), Wheel(m, ts)} :
          a.timestamp = ts /\ a.class # "ResizeAction"
    BY DEF Click, Move, Wheel
  <1>3. \A c : LET a == Type(m, c, ts)
               IN a.timestamp = ts /\ a.class = "TypeAction" /\ a.ch = c
    BY DEF Type
  <1>4. CASE \E a \in {Click(m, ts), Move(m, ts), Wheel(m, ts)} : Hook(m, ts) = <<a>>
    BY <1>1, <1>2, <1>4
  <1>5. CASE Hook(m, ts) = <<>>
    BY <1>5
  <1>6. CASE Hook(m, ts) = <<Type(m, 0, ts)>>
    BY <1>1, <1>3, <1>6
  <1>7. CASE Hook(m, ts) = <<Type(m, 0, ts), Type(m, SignedChar(m.text[1]), ts)>>
    BY <1>1, <1>3, <1>7
  <1> QED
    BY <1>4, <1>5, <1>6, <1>7, HookShape

-----------------------------------------------------------------------------
\* A recorded action comes from a message, the one that is its time, or from the frame.
FromMessages(o) ==
  \A k \in 1..Len(o.actions) : o.actions[k].class # "ResizeAction" =>
    /\ o.actions[k].timestamp \in 1..Len(o.input)
    /\ \E j \in 1..Len(Hook(o.input[o.actions[k].timestamp], o.actions[k].timestamp)) :
         o.actions[k] = Hook(o.input[o.actions[k].timestamp], o.actions[k].timestamp)[j]

\* Every action a hook made of a message is there ...
AllRecorded(o) ==
  \A n \in 1..Len(o.input) : \A j \in 1..Len(Hook(o.input[n], n)) :
    \E k \in 1..Len(o.actions) : o.actions[k] = Hook(o.input[n], n)[j]

\* ... once, and in the order of the messages; only the two actions of a key have
\* the same time.
InOrder(o) ==
  \A k, l \in 1..Len(o.actions) : k < l =>
    \/ o.actions[k].class = "ResizeAction" \/ o.actions[l].class = "ResizeAction"
    \/ o.actions[k].timestamp < o.actions[l].timestamp
    \/ /\ o.actions[k].class = "TypeAction" /\ o.actions[k].ch = 0
       /\ o.actions[k].timestamp = o.actions[l].timestamp

\* The script holds what was made of the messages, and no more.
Made(o) ==
  /\ \A n \in 1..Len(o.input) : o.input[n] \in Messages
  /\ FromMessages(o) /\ AllRecorded(o) /\ InOrder(o)

\* A replay sends for each action in turn what the action may send, a recorder
\* sends nothing.
SentMatches ==
  /\ recording => sent = <<>>
  /\ playing = 0 => sent = <<>> \/ Len(sent) = Len(actions)
  /\ \A i \in 1..Len(sent) :
       /\ sent[i].action = actions[i]
       /\ \E live \in Live : sent[i].event \in Execute(actions[i], live)

\* So does the file; this is what the theorems on replays need of the past.
MadeInv == Made(origin) /\ Made(fileOrigin) /\ SentMatches

\* Where there is no script, nothing was to be made.
LEMMA NoScriptMade == Made(NoScript)
  BY DEF Made, FromMessages, AllRecorded, InOrder, NoScript

\* A hook adds what it makes of the next message.
LEMMA MadeMessage ==
  ASSUME NEW o \in Histories, Made(o), NEW m \in Messages, NEW p,
         p.input = Append(o.input, m),
         p.actions = o.actions \o Hook(m, Len(o.input) + 1)
  PROVE  Made(p)
  <1> DEFINE n   == Len(o.input) + 1
             new == Hook(m, n)
  <1>1. o.input \in Seq(MouseMessage \cup KeyMessage) /\ o.actions \in Seq(Actions)
    BY DEF Histories
  <1>2. m \in MouseMessage \cup KeyMessage
    BY MessagesOK
  <1>3. Len(o.input) \in Nat /\ n \in Int /\ Len(o.actions) \in Nat
    BY <1>1
  <1>4. /\ Len(p.input) = n /\ p.input[n] = m
        /\ \A i \in 1..Len(o.input) : p.input[i] = o.input[i]
    BY <1>1, <1>2, AppendFacts
  <1>5. new \in Seq(Actions) /\ Len(new) \in Nat
    BY <1>3, HookMakesActions
  <1>6. /\ \A j \in 1..Len(new) : new[j].timestamp = n /\ new[j].class # "ResizeAction"
        /\ \A j, l \in 1..Len(new) : j < l => new[j].class = "TypeAction" /\ new[j].ch = 0
    BY <1>3, HookFacts
  <1> HIDE DEF new
  <1>7. p.actions = o.actions \o new
    BY DEF new
  <1>8. /\ Len(p.actions) = Len(o.actions) + Len(new)
        /\ \A i \in 1..Len(o.actions) : p.actions[i] = o.actions[i]
        /\ \A i \in 1..Len(new) : p.actions[Len(o.actions) + i] = new[i]
        /\ \A i \in 1..Len(p.actions) :
             i \in 1..Len(o.actions) \/ \E j \in 1..Len(new) : i = Len(o.actions) + j
    <2>1. o.actions \in Seq(Actions) /\ new \in Seq(Actions)
      BY <1>1, <1>5
    <2>2. PICK s, t : s = o.actions /\ t = new
      OBVIOUS
    <2>3. s \in Seq(Actions) /\ t \in Seq(Actions)
      BY <2>1, <2>2
    <2>4. /\ Len(s \o t) = Len(s) + Len(t)
          /\ \A i \in 1..Len(s) : (s \o t)[i] = s[i]
          /\ \A i \in 1..Len(t) : (s \o t)[Len(s) + i] = t[i]
          /\ \A i \in 1..Len(s \o t) :
               i \in 1..Len(s) \/ \E j \in 1..Len(t) : i = Len(s) + j
      BY ONLY <2>3, ConcatElements
    <2> QED
      BY ONLY <1>7, <2>2, <2>4
  <1>9. \A i \in 1..n : p.input[i] \in Messages
    BY <1>3, <1>4 DEF Made
  <1>10. FromMessages(p)
    <2> SUFFICES ASSUME NEW k \in 1..Len(p.actions), p.actions[k].class # "ResizeAction"
                 PROVE  LET ts == p.actions[k].timestamp
                        IN /\ ts \in 1..Len(p.input)
                           /\ \E j \in 1..Len(Hook(p.input[ts], ts)) : p.actions[k] = Hook(p.input[ts], ts)[j]
      BY DEF FromMessages
    <2>1. CASE k \in 1..Len(o.actions)
      <3>1. p.actions[k] = o.actions[k]
        BY <1>8, <2>1
      <3>2. PICK ts : ts = o.actions[k].timestamp
        OBVIOUS
      <3>3. ts \in 1..Len(o.input) /\ \E j \in 1..Len(Hook(o.input[ts], ts)) : o.actions[k] = Hook(o.input[ts], ts)[j]
        BY <2>1, <3>1, <3>2 DEF Made, FromMessages
      <3>4. ts \in 1..Len(p.input) /\ p.input[ts] = o.input[ts]
        BY <1>3, <1>4, <3>3
      <3> QED
        BY <3>1, <3>2, <3>3, <3>4
    <2>2. ASSUME NEW j \in 1..Len(new), k = Len(o.actions) + j
          PROVE  LET ts == p.actions[k].timestamp
                 IN /\ ts \in 1..Len(p.input)
                    /\ \E i \in 1..Len(Hook(p.input[ts], ts)) : p.actions[k] = Hook(p.input[ts], ts)[i]
      <3>1. p.actions[k] = new[j] /\ p.actions[k].timestamp = n
        BY <1>6, <1>8, <2>2
      <3>2. n \in 1..Len(p.input) /\ p.input[n] = m
        BY <1>3, <1>4
      <3> QED
        BY <2>2, <3>1, <3>2 DEF new
    <2> QED
      BY <1>8, <2>1, <2>2
  <1>11. AllRecorded(p)
    <2> SUFFICES ASSUME NEW i \in 1..n, NEW j \in 1..Len(Hook(p.input[i], i))
                 PROVE  \E k \in 1..Len(p.actions) : p.actions[k] = Hook(p.input[i], i)[j]
      BY <1>4 DEF AllRecorded
    <2>1. CASE i = n
      <3>1. Hook(p.input[i], i) = new /\ j \in 1..Len(new)
        BY <1>4, <2>1 DEF new
      <3>2. p.actions[Len(o.actions) + j] = new[j]
        BY <1>8, <3>1
      <3>3. Len(o.actions) + j \in 1..(Len(o.actions) + Len(new))
        BY ONLY <1>3, <1>5, <3>1
      <3>4. Len(o.actions) + j \in 1..Len(p.actions)
        BY <1>8, <3>3
      <3> QED
        BY <3>1, <3>2, <3>4
    <2>2. CASE i # n
      <3>1. i \in 1..Len(o.input) /\ p.input[i] = o.input[i]
        BY <1>3, <1>4, <2>2
      <3>2. PICK k \in 1..Len(o.actions) : o.actions[k] = Hook(p.input[i], i)[j]
        BY <3>1 DEF Made, AllRecorded
      <3>3. k \in 1..Len(p.actions) /\ p.actions[k] = o.actions[k]
        <4>1. k \in 1..(Len(o.actions) + Len(new))
          BY ONLY <1>3, <1>5, <3>2
        <4> QED
          BY <1>8, <3>2, <4>1
      <3> QED
        BY <3>2, <3>3
    <2> QED
      BY <2>1, <2>2
  <1>12. InOrder(p)
    <2> SUFFICES ASSUME NEW k \in 1..Len(p.actions), NEW l \in 1..Len(p.actions), k < l,
                        p.actions[k].class # "ResizeAction", p.actions[l].class # "ResizeAction"
                 PROVE  \/ p.actions[k].timestamp < p.actions[l].timestamp
                        \/ /\ p.actions[k].class = "TypeAction" /\ p.actions[k].ch = 0
                           /\ p.actions[k].timestamp = p.actions[l].timestamp
      BY DEF InOrder
    <2>1. CASE l \in 1..Len(o.actions)
      <3>1. k \in 1..Len(o.actions) /\ p.actions[k] = o.actions[k] /\ p.actions[l] = o.actions[l]
        BY <1>3, <1>8, <2>1
      <3> QED
        BY <2>1, <3>1 DEF Made, InOrder
    <2>2. ASSUME NEW j \in 1..Len(new), l = Len(o.actions) + j, k \in 1..Len(o.actions)
          PROVE  p.actions[k].timestamp < p.actions[l].timestamp
      <3>1. p.actions[l].timestamp = n /\ p.actions[k] = o.actions[k]
        BY <1>6, <1>8, <2>2
      <3>2. o.actions[k].timestamp \in 1..Len(o.input)
        BY <2>2, <3>1 DEF Made, FromMessages
      <3>3. \A t \in 1..Len(o.input) : t < n
        BY <1>3
      <3> QED
        BY <3>1, <3>2, <3>3
    <2>3. ASSUME NEW j \in 1..Len(new), l = Len(o.actions) + j,
                 NEW i \in 1..Len(new), k = Len(o.actions) + i
          PROVE  /\ p.actions[k].class = "TypeAction" /\ p.actions[k].ch = 0
                 /\ p.actions[k].timestamp = p.actions[l].timestamp
      <3>1. p.actions[k] = new[i] /\ p.actions[l] = new[j]
        BY <1>8, <2>3
      <3>2. Len(o.actions) + i < Len(o.actions) + j
        BY <2>3
      <3>3. i < j
        BY ONLY <1>3, <1>5, <2>3, <3>2
      <3> QED
        BY <1>6, <3>1, <3>3
    <2> QED
      BY <1>8, <2>1, <2>2, <2>3
  <1> QED
    BY <1>4, <1>9, <1>10, <1>11, <1>12 DEF Made

\* The frame's size is nobody's message.
LEMMA MadeResize ==
  ASSUME NEW o \in Histories, Made(o), NEW w \in Int, NEW ts \in Int, NEW p,
         p.input = o.input, p.actions = o.actions \o <<Resized(w, ts)>>
  PROVE  Made(p)
  <1> DEFINE new == <<Resized(w, ts)>>
  <1>1. o.actions \in Seq(Actions) /\ Len(o.actions) \in Nat
    <2>1. o.actions \in Seq(Actions)
      BY DEF Histories
    <2> QED
      BY <2>1, LenIsNat
  <1>2. new \in Seq(Actions)
    BY ResizedTyped
  <1>3. Len(new) = 1 /\ new[1].class = "ResizeAction"
    BY DEF Resized
  <1> HIDE DEF new
  <1>4. /\ Len(p.actions) = Len(o.actions) + 1
        /\ \A i \in 1..Len(o.actions) : p.actions[i] = o.actions[i]
        /\ p.actions[Len(o.actions) + 1].class = "ResizeAction"
    <2>1. p.actions = o.actions \o new
      BY DEF new
    <2>2. 1 \in 1..Len(new)
      BY <1>3
    <2>3. Len(p.actions) = Len(o.actions) + 1 /\ \A i \in 1..Len(o.actions) : p.actions[i] = o.actions[i]
      BY <1>1, <1>2, <1>3, <2>1, ConcatElements
    <2>4. p.actions[Len(o.actions) + 1] = new[1]
      BY <1>1, <1>2, <2>1, <2>2, ConcatElements
    <2> QED
      BY <1>3, <2>3, <2>4
  <1>5. \A k \in 1..Len(p.actions) : p.actions[k].class # "ResizeAction" =>
          k \in 1..Len(o.actions) /\ p.actions[k] = o.actions[k]
    BY <1>1, <1>4
  <1>6. \A k \in 1..Len(o.actions) : k \in 1..Len(p.actions)
    BY <1>1, <1>4
  <1>7. FromMessages(p)
    BY <1>5 DEF Made, FromMessages
  <1>8. AllRecorded(p)
    BY <1>4, <1>6 DEF Made, AllRecorded
  <1>9. InOrder(p)
    BY <1>5 DEF Made, InOrder
  <1> QED
    BY <1>7, <1>8, <1>9 DEF Made

\* Nothing is recorded and nothing sent at the start.
LEMMA MadeInit == Init => MadeInv
  <1> SUFFICES ASSUME Init PROVE MadeInv
    OBVIOUS
  <1>1. sent = <<>> /\ origin = NoScript /\ fileOrigin = NoScript
    BY DEF Init
  <1>2. Len(sent) = 0
    BY <1>1
  <1> QED
    BY <1>1, <1>2, NoScriptMade DEF MadeInv, SentMatches

\* A step after which nothing has been sent.
LEMMA NothingSent == sent' = <<>> => SentMatches'
  BY DEF SentMatches

\* Every step keeps it.
LEMMA MadeStep == IInv /\ MadeInv /\ [Next]_vars => MadeInv'
  <1> SUFFICES ASSUME IInv, MadeInv, [Next]_vars PROVE MadeInv'
    OBVIOUS
  <1> USE DEF MadeInv
  <1>1. origin \in Histories /\ fileOrigin \in Histories /\ actions \in Seq(Actions)
    BY DEF IInv, HistoryTyped, MemoryTyped
  <1>2. CASE StartRecord
    <2>1. /\ sent' = <<>> /\ fileOrigin' = fileOrigin /\ actions' = <<Resized(800, 0)>>
          /\ origin' = [known |-> TRUE, input |-> <<>>, actions |-> actions', start |-> start']
      BY <1>2 DEF StartRecord
    <2>2. /\ NoScript \in Histories /\ origin'.input = NoScript.input
          /\ origin'.actions = NoScript.actions \o <<Resized(800, 0)>>
      <3>1. <<>> \o <<Resized(800, 0)>> = <<Resized(800, 0)>>
        OBVIOUS
      <3> QED
        BY <2>1, <3>1, NoScriptTyped DEF NoScript
    <2>3. Made(origin')
      BY <2>2, NoScriptMade, MadeResize
    <2> QED
      BY <2>1, <2>3, NothingSent
  <1>3. ASSUME NEW m \in Messages, RecordMessage(m) PROVE MadeInv'
    <2>1. /\ recording /\ UNCHANGED <<sent, fileOrigin>>
          /\ origin' = [origin EXCEPT !.input = Append(@, m),
                                      !.actions = @ \o Hook(m, Len(origin.input) + 1)]
      BY <1>3 DEF RecordMessage
    <2>2. /\ origin'.input = Append(origin.input, m)
          /\ origin'.actions = origin.actions \o Hook(m, Len(origin.input) + 1)
      BY <1>1, <2>1 DEF Histories
    <2>3. Made(origin')
      BY <1>1, <2>2, MadeMessage
    <2> QED
      BY <2>1, <2>3, NothingSent DEF SentMatches
  <1>4. CASE OnSize
    <2>1. /\ recording /\ UNCHANGED <<sent, fileOrigin>>
          /\ origin' = [origin EXCEPT !.actions = @ \o <<Resized(640, Len(origin.input))>>]
      BY <1>4 DEF OnSize
    <2>2. /\ origin'.input = origin.input
          /\ origin'.actions = origin.actions \o <<Resized(640, Len(origin.input))>>
      BY <1>1, <2>1 DEF Histories
    <2>4. Len(origin.input) \in Int
      <3>1. origin.input \in Seq(MouseMessage \cup KeyMessage)
        BY <1>1 DEF Histories
      <3> QED
        BY <3>1, LenIsNat
    <2>3. Made(origin')
      BY <1>1, <2>2, <2>4, MadeResize
    <2> QED
      BY <2>1, <2>3, NothingSent DEF SentMatches
  <1>5. CASE StopRecord \/ LoadObject \/ LoadDone
    <2>1. UNCHANGED <<sent, origin, fileOrigin>> /\ recording
      BY <1>5 DEF StopRecord, LoadObject, LoadDone, IInv, ModeInv
    <2> QED
      BY <2>1, NothingSent DEF SentMatches
  <1>6. CASE OnSaveToFile \/ UNCHANGED vars \/ \E doc \in Foreign : ForeignFile(doc)
    <2>1. UNCHANGED <<sent, origin, actions, recording, playing>> /\ fileOrigin' \in {origin, fileOrigin, NoScript}
      BY <1>6 DEF OnSaveToFile, ForeignFile, vars, memory
    <2> QED
      BY <2>1, NoScriptMade DEF SentMatches
  <1>7. CASE LoadJsonFile \/ Restart \/ Play
    <2>1. sent' = <<>> /\ origin' \in {origin, fileOrigin, NoScript} /\ fileOrigin' = fileOrigin
      BY <1>7 DEF LoadJsonFile, Restart, Play
    <2> QED
      BY <2>1, NoScriptMade, NothingSent
  <1>8. ASSUME NEW live \in Live, PlayAction(live) PROVE MadeInv'
    <2>1. /\ UNCHANGED <<actions, recording, origin, fileOrigin>>
          /\ playing \in 1..Len(actions) /\ playing # 0 /\ Len(actions) \in Nat
          /\ playing' = IF playing = Len(actions) THEN 0 ELSE playing + 1
      BY <1>1, <1>8 DEF PlayAction, memory
    <2>2. PICK e \in Execute(actions[playing], live) :
            sent' = Append(sent, [action |-> actions[playing], event |-> e])
      BY <1>8 DEF PlayAction
    <2>3. sent \in Seq(Sent) /\ Len(sent) = playing - 1 /\ ~recording
      BY <2>1 DEF IInv, SentInv, ModeInv
    <2>4. [action |-> actions[playing], event |-> e] \in Sent
      <3>1. actions[playing] \in Actions
        BY <1>1, <2>1, ElementTyped
      <3> QED
        BY <2>2, <3>1 DEF Sent
    <2>5. /\ Len(sent') = playing
          /\ \A i \in 1..Len(sent) : sent'[i] = sent[i]
          /\ sent'[playing] = [action |-> actions[playing], event |-> e]
      BY <2>1, <2>2, <2>3, <2>4, AppendFacts
    <2>6. \A i \in 1..Len(sent') : i = playing \/ i \in 1..Len(sent)
      BY <2>1, <2>3, <2>5
    <2>7. \A i \in 1..Len(sent') :
            /\ sent'[i].action = actions[i]
            /\ \E l \in Live : sent'[i].event \in Execute(actions[i], l)
      <3> SUFFICES ASSUME NEW i \in 1..Len(sent')
                   PROVE  /\ sent'[i].action = actions[i]
                          /\ \E l \in Live : sent'[i].event \in Execute(actions[i], l)
        OBVIOUS
      <3>1. CASE i = playing
        BY <2>2, <2>5, <3>1
      <3>2. CASE i \in 1..Len(sent)
        BY <2>5, <3>2 DEF SentMatches
      <3> QED
        BY <2>6, <3>1, <3>2
    <2>8. playing' = 0 => Len(sent') = Len(actions')
      BY <2>1, <2>5
    <2> QED
      BY <2>1, <2>3, <2>7, <2>8 DEF SentMatches
  <1> QED
    BY <1>2, <1>3, <1>4, <1>5, <1>6, <1>7, <1>8 DEF Next

\* In every behaviour the script holds what was made of its messages.
THEOREM MadeInvariant == Spec => []MadeInv
  BY Invariant, MadeInit, MadeStep, PTL DEF Spec

-----------------------------------------------------------------------------
(***************************************************************************)
(* Replays.                                                                *)
(***************************************************************************)
\* What an action may send tells which action it is.
LEMMA ExecuteFacts ==
  ASSUME NEW a \in Actions, NEW live, NEW e \in Execute(a, live)
  PROVE  /\ a.class = "ClickAction" =>
              e = ClickEvent(a, live) \/ (e = EventToPopup /\ a.wp = WM_LBUTTONDOWN)
         /\ a.class = "MouseMoveAction" => e = MoveEvent(a, live)
         /\ a.class = "TypeAction" => e = KeyEvent(a)
         /\ e.call = "SendMouseClickEvent" \/ e = EventToPopup <=> a.class = "ClickAction"
         /\ e.call \in {"SendMouseClickEvent", "SendMouseMoveEvent"} =>
              a.class \in {"ClickAction", "MouseMoveAction"}
         /\ e.call = "SendKeyEvent" /\ e.type = "CHAR" <=> a.class = "TypeAction" /\ a.ch # 0
  <1>1. a.class \in {"ClickAction", "MouseMoveAction", "MouseWheelAction", "TypeAction", "ResizeAction"}
    BY DEF Actions
  <1> USE DEF Execute
  <1>7. EventToPopup.call = "WM_LBUTTONDOWN, WM_LBUTTONUP"
    BY DEF EventToPopup
  <1>2. CASE a.class = "ClickAction"
    <2>1. e = ClickEvent(a, live) \/ (e = EventToPopup /\ a.wp = WM_LBUTTONDOWN)
      BY <1>2
    <2>2. ClickEvent(a, live).call = "SendMouseClickEvent"
      BY DEF ClickEvent
    <2> QED
      BY <1>2, <1>7, <2>1, <2>2
  <1>3. CASE a.class = "MouseMoveAction"
    <2>1. e = MoveEvent(a, live) /\ e.call = "SendMouseMoveEvent"
      BY <1>3 DEF MoveEvent
    <2> QED
      BY <1>3, <1>7, <2>1
  <1>4. CASE a.class = "MouseWheelAction"
    <2>1. e.call = "SendMouseWheelEvent"
      BY <1>4 DEF WheelEvent
    <2> QED
      BY <1>4, <1>7, <2>1
  <1>5. CASE a.class = "TypeAction"
    <2>1. e = KeyEvent(a)
      BY <1>5
    <2>2. e.call = "SendKeyEvent"
      BY <2>1 DEF KeyEvent
    <2>3. e.type = "CHAR" <=> a.ch # 0
      BY <2>1 DEF KeyEvent
    <2> QED
      BY <1>5, <1>7, <2>1, <2>2, <2>3
  <1>6. CASE a.class = "ResizeAction"
    <2>1. e = Resize
      BY <1>6
    <2>2. Resize.call = "SetSize, SendSizeEvent"
      BY DEF Resize
    <2> QED
      BY <1>6, <1>7, <2>1, <2>2
  <1> QED
    BY <1>1, <1>2, <1>3, <1>4, <1>5, <1>6

\* A finished replay has sent one event for each recorded action, in their order.
LEMMA FinishedFacts ==
  ASSUME IInv, MadeInv, Finished
  PROVE  /\ Len(sent) = Len(origin.actions) /\ Len(sent) \in Nat /\ DOMAIN sent = 1..Len(sent)
         /\ DOMAIN origin.input = 1..Len(origin.input) /\ Len(origin.input) \in Nat
         /\ \A i \in 1..Len(sent) :
              /\ sent[i].action = origin.actions[i] /\ origin.actions[i] \in Actions
              /\ \E live \in Live : sent[i].event \in Execute(origin.actions[i], live)
  <1>1. origin.known /\ ~loading /\ actions = origin.actions
    BY DEF IInv, Finished, ModeInv, RoundTrip
  <1>2. /\ origin.actions \in Seq(Actions) /\ origin.input \in Seq(MouseMessage \cup KeyMessage)
        /\ sent \in Seq(Sent)
    BY DEF IInv, HistoryTyped, Histories, SentInv
  <1>3. Len(sent) = Len(origin.actions)
    BY <1>1 DEF MadeInv, SentMatches, Finished
  <1>4. \A i \in 1..Len(sent) : origin.actions[i] \in Actions
    BY <1>2, <1>3, ElementTyped
  <1> QED
    BY <1>1, <1>2, <1>3, <1>4, LenIsNat DEF MadeInv, SentMatches

\* What action a is when message m, the n-th, has made it.
MadeFrom(a, m, n) ==
  \/ IsClick(m) /\ m.dev = "mouse" /\ a = Click(m, n)
  \/ m.dev = "mouse" /\ m.wp = WM_MOUSEMOVE /\ a = Move(m, n)
  \/ m.dev = "mouse" /\ m.wp = WM_MOUSEWHEEL /\ a = Wheel(m, n)
  \/ m.dev = "key" /\ a = Type(m, 0, n)
  \/ m.dev = "key" /\ IsText(m) /\ a = Type(m, SignedChar(m.text[1]), n)

\* The message an action was made of.
LEMMA MadeOf ==
  ASSUME MadeInv, NEW k \in 1..Len(origin.actions), NEW a, a = origin.actions[k],
         a.class # "ResizeAction"
  PROVE  \E n \in 1..Len(origin.input) : \E m \in Messages :
           a.timestamp = n /\ m = origin.input[n] /\ MadeFrom(a, m, n)
  <1>1. PICK n : n = a.timestamp
    OBVIOUS
  <1>2. n \in 1..Len(origin.input) /\ \E j \in 1..Len(Hook(origin.input[n], n)) : a = Hook(origin.input[n], n)[j]
    BY <1>1 DEF MadeInv, Made, FromMessages
  <1>3. PICK m \in Messages : m = origin.input[n]
    BY <1>2 DEF MadeInv, Made
  <1>4. PICK j \in 1..Len(Hook(m, n)) : a = Hook(m, n)[j]
    BY <1>2, <1>3
  <1>5. n \in Int
    BY <1>2
  <1>6. \A x : Len(<<x>>) = 1 /\ <<x>>[1] = x
    OBVIOUS
  <1>7. ASSUME NEW x, Hook(m, n) = <<x>> PROVE a = x
    BY <1>4, <1>6, <1>7
  <1>8. ASSUME NEW x, NEW y, Hook(m, n) = <<x, y>> PROVE a = x \/ a = y
    BY <1>4, <1>8
  <1>9. Hook(m, n) # <<>>
    BY <1>4
  <1>10. MadeFrom(a, m, n)
    BY <1>5, <1>7, <1>8, <1>9, HookShape DEF MadeFrom
  <1> QED
    BY <1>1, <1>2, <1>3, <1>10

\* The other way round: a click and a character have their actions.
LEMMA MadeFor ==
  ASSUME MadeInv, NEW n \in 1..Len(origin.input), NEW m, m = origin.input[n]
  PROVE  /\ IsClick(m) => \E k \in 1..Len(origin.actions) : origin.actions[k] = Click(m, n)
         /\ IsText(m) => \E k \in 1..Len(origin.actions) :
                           origin.actions[k] = Type(m, SignedChar(m.text[1]), n)
  <1>1. m \in Messages /\ n \in Int
    BY DEF MadeInv, Made
  <1>2. ASSUME NEW j \in 1..Len(Hook(m, n))
        PROVE  \E k \in 1..Len(origin.actions) : origin.actions[k] = Hook(m, n)[j]
    BY <1>2 DEF MadeInv, Made, AllRecorded
  <1>3. IsClick(m) => m.dev = "mouse" /\ m.wp \in {WM_LBUTTONDOWN, WM_LBUTTONUP}
    BY DEF IsClick
  <1>4. IsText(m) => m.dev = "key"
    BY DEF IsText
  <1>5. ASSUME IsClick(m) PROVE Hook(m, n) = <<Click(m, n)>>
    BY <1>1, <1>3, <1>5, HookShape DEF WM_LBUTTONDOWN, WM_LBUTTONUP, WM_MOUSEMOVE, WM_MOUSEWHEEL
  <1>6. ASSUME IsText(m)
        PROVE  Hook(m, n) = <<Type(m, 0, n), Type(m, SignedChar(m.text[1]), n)>>
    BY <1>1, <1>4, <1>6, HookShape
  <1>7. \A x, y : Len(<<x>>) = 1 /\ <<x>>[1] = x /\ Len(<<x, y>>) = 2 /\ <<x, y>>[2] = y
    OBVIOUS
  <1>8. ASSUME IsClick(m)
        PROVE  \E k \in 1..Len(origin.actions) : origin.actions[k] = Click(m, n)
    <2>1. 1 \in 1..Len(Hook(m, n)) /\ Hook(m, n)[1] = Click(m, n)
      BY <1>5, <1>7, <1>8
    <2> QED
      BY <1>2, <2>1
  <1>9. ASSUME IsText(m)
        PROVE  \E k \in 1..Len(origin.actions) :
                 origin.actions[k] = Type(m, SignedChar(m.text[1]), n)
    <2>1. 2 \in 1..Len(Hook(m, n)) /\ Hook(m, n)[2] = Type(m, SignedChar(m.text[1]), n)
      BY <1>6, <1>7, <1>9
    <2> QED
      BY <1>2, <2>1
  <1> QED
    BY <1>8, <1>9

\* A character the user typed is sent, once and in its place.
THEOREM TextReplayedCorrect == Spec => []TextReplayed
  <1> DEFINE typed == {n \in DOMAIN origin.input : IsText(origin.input[n])}
             chars == {i \in DOMAIN sent : sent[i].event.call = "SendKeyEvent"
                                             /\ sent[i].event.type = "CHAR"}
  <1>1. ASSUME IInv, MadeInv, Finished, \A n \in typed : origin.input[n].text[1] \in 1..127
        PROVE  /\ Mirrors(chars, typed)
               /\ \A i \in chars : sent[i].event.code = origin.input[Cause(i)].text[1]
    <2> USE <1>1, FinishedFacts
    <2>1. \A c \in 1..127 : SignedChar(c) = c /\ c # 0
      BY DEF SignedChar
    <2>2. ASSUME NEW i \in chars
          PROVE  /\ i \in 1..Len(sent) /\ origin.actions[i].class = "TypeAction" /\ origin.actions[i].ch # 0
                 /\ Cause(i) = origin.actions[i].timestamp /\ Cause(i) \in typed
                 /\ sent[i].event.code = origin.input[Cause(i)].text[1]
      <3>1. i \in 1..Len(sent) /\ sent[i].event.call = "SendKeyEvent" /\ sent[i].event.type = "CHAR"
        BY <2>2
      <3>2. PICK a \in Actions : a = origin.actions[i] /\ sent[i].action = a
        BY <3>1
      <3>3. PICK live \in Live : sent[i].event \in Execute(a, live)
        BY <3>1, <3>2
      <3>4. a.class = "TypeAction" /\ a.ch # 0 /\ sent[i].event = KeyEvent(a)
        BY <3>1, <3>3, ExecuteFacts
      <3>5. PICK n \in 1..Len(origin.input), m \in Messages :
              a.timestamp = n /\ m = origin.input[n] /\ MadeFrom(a, m, n)
        BY <3>1, <3>2, <3>4, MadeOf
      <3>6. IsText(m) /\ a = Type(m, SignedChar(m.text[1]), n)
        BY <3>4, <3>5 DEF MadeFrom, Click, Move, Wheel, Type
      <3>7. n \in typed /\ Cause(i) = n
        BY <3>2, <3>5, <3>6 DEF Cause
      <3>8. m.text[1] \in 1..127
        BY <3>5, <3>7
      <3>9. a.ch = m.text[1]
        BY <2>1, <3>6, <3>8 DEF Type
      <3>10. sent[i].event.code = m.text[1]
        BY <3>4, <3>9 DEF KeyEvent
      <3> QED
        BY <3>1, <3>2, <3>4, <3>5, <3>7, <3>10
    <2>3. ASSUME NEW n \in typed PROVE \E i \in chars : Cause(i) = n
      <3>1. n \in 1..Len(origin.input) /\ IsText(origin.input[n]) /\ origin.input[n].text[1] \in 1..127
        BY <2>3
      <3>2. PICK k \in 1..Len(sent) :
              origin.actions[k] = Type(origin.input[n], SignedChar(origin.input[n].text[1]), n)
        BY <3>1, MadeFor
      <3>3. PICK a \in Actions : a = origin.actions[k] /\ sent[k].action = a
        OBVIOUS
      <3>7. PICK c : c = SignedChar(origin.input[n].text[1])
        OBVIOUS
      <3>8. c # 0
        BY <2>1, <3>1, <3>7
      <3>4. a.class = "TypeAction" /\ a.ch # 0 /\ a.timestamp = n
        BY <3>2, <3>3, <3>7, <3>8 DEF Type
      <3>5. PICK live \in Live : sent[k].event \in Execute(a, live)
        BY <3>3
      <3>6. k \in chars
        BY <3>4, <3>5, ExecuteFacts
      <3> QED
        BY <3>3, <3>4, <3>6 DEF Cause
    <2>4. ASSUME NEW i \in chars, NEW j \in chars, i < j PROVE Cause(i) < Cause(j)
      BY <2>2, <2>4 DEF MadeInv, Made, InOrder
    <2>5. {Cause(i) : i \in chars} = typed
      BY <2>2, <2>3
    <2> QED
      BY <2>2, <2>4, <2>5 DEF Mirrors
  <1>2. IInv /\ MadeInv => TextReplayed
    BY <1>1 DEF TextReplayed
  <1> QED
    BY <1>2, Invariant, MadeInvariant, PTL

\* A press or release of the left button is sent, once and in its place, as what it
\* was, or a press as the two messages a select box's window gets.
THEOREM ClicksReplayedCorrect == Spec => []ClicksReplayed
  <1> DEFINE asked == {n \in DOMAIN origin.input : IsClick(origin.input[n])}
             done  == {i \in DOMAIN sent : sent[i].event.call = "SendMouseClickEvent"
                                             \/ sent[i].event = EventToPopup}
             As(e, wp) == \/ e = EventToPopup /\ wp = WM_LBUTTONDOWN
                          \/ /\ e.call = "SendMouseClickEvent" /\ e.button = "MBT_LEFT"
                             /\ e.up <=> wp = WM_LBUTTONUP
  <1>1. ASSUME IInv, MadeInv, Finished
        PROVE  Mirrors(done, asked) /\ \A i \in done : As(sent[i].event, origin.input[Cause(i)].wp)
    <2> USE <1>1, FinishedFacts
    <2>1. ASSUME NEW i \in done
          PROVE  /\ i \in 1..Len(sent) /\ origin.actions[i].class = "ClickAction"
                 /\ Cause(i) = origin.actions[i].timestamp /\ Cause(i) \in asked
                 /\ As(sent[i].event, origin.input[Cause(i)].wp)
      <3>1. i \in 1..Len(sent) /\ (sent[i].event.call = "SendMouseClickEvent" \/ sent[i].event = EventToPopup)
        BY <2>1
      <3>2. PICK a \in Actions : a = origin.actions[i] /\ sent[i].action = a
        BY <3>1
      <3>3. PICK live \in Live : sent[i].event \in Execute(a, live)
        BY <3>1, <3>2
      <3>4. /\ a.class = "ClickAction"
            /\ \/ sent[i].event = ClickEvent(a, live)
               \/ sent[i].event = EventToPopup /\ a.wp = WM_LBUTTONDOWN
        BY <3>1, <3>3, ExecuteFacts
      <3>5. PICK n \in 1..Len(origin.input), m \in Messages :
              a.timestamp = n /\ m = origin.input[n] /\ MadeFrom(a, m, n)
        BY <3>1, <3>2, <3>4, MadeOf
      <3>6. IsClick(m) /\ a = Click(m, n)
        BY <3>4, <3>5 DEF MadeFrom, Click, Move, Wheel, Type
      <3>7. n \in asked /\ Cause(i) = n
        BY <3>2, <3>5, <3>6 DEF Cause
      <3>8. a.wp = m.wp /\ m.wp \in {WM_LBUTTONDOWN, WM_LBUTTONUP}
        BY <3>6 DEF Click, IsClick
      <3>9. /\ ClickEvent(a, live).call = "SendMouseClickEvent"
            /\ ClickEvent(a, live).button = "MBT_LEFT"
            /\ ClickEvent(a, live).up <=> m.wp = WM_LBUTTONUP
        <4>1. ClickEvent(a, live).call = "SendMouseClickEvent"
          BY DEF ClickEvent
        <4>2. ClickEvent(a, live).button = "MBT_LEFT"
          <5>1. a.wp \in {WM_LBUTTONDOWN, WM_LBUTTONUP}
            BY <3>8
          <5>2. Button(a.wp) = "MBT_LEFT"
            BY <5>1 DEF Button, WM_LBUTTONDOWN, WM_LBUTTONUP, WM_RBUTTONDOWN, WM_RBUTTONUP
          <5> QED
            BY <5>2 DEF ClickEvent
        <4>3. ClickEvent(a, live).up = (a.wp \notin {WM_LBUTTONDOWN, WM_RBUTTONDOWN})
          BY DEF ClickEvent
        <4>4. a.wp \notin {WM_LBUTTONDOWN, WM_RBUTTONDOWN} <=> m.wp = WM_LBUTTONUP
          BY <3>8 DEF WM_LBUTTONDOWN, WM_LBUTTONUP, WM_RBUTTONDOWN
        <4> QED
          BY <4>1, <4>2, <4>3, <4>4
      <3>10. As(sent[i].event, m.wp)
        BY <3>4, <3>8, <3>9
      <3> QED
        BY <3>1, <3>2, <3>4, <3>5, <3>7, <3>10
    <2>2. ASSUME NEW n \in asked PROVE \E i \in done : Cause(i) = n
      <3>1. n \in 1..Len(origin.input) /\ IsClick(origin.input[n])
        BY <2>2
      <3>2. PICK k \in 1..Len(sent) : origin.actions[k] = Click(origin.input[n], n)
        BY <3>1, MadeFor
      <3>3. PICK a \in Actions : a = origin.actions[k] /\ sent[k].action = a
        OBVIOUS
      <3>4. a.class = "ClickAction" /\ a.timestamp = n
        BY <3>2, <3>3 DEF Click
      <3>5. PICK live \in Live : sent[k].event \in Execute(a, live)
        BY <3>3
      <3>6. k \in done
        BY <3>4, <3>5, ExecuteFacts
      <3> QED
        BY <3>3, <3>4, <3>6 DEF Cause
    <2>3. ASSUME NEW i \in done, NEW j \in done, i < j PROVE Cause(i) < Cause(j)
      <3>1. PICK a, b : a = origin.actions[i] /\ b = origin.actions[j]
        OBVIOUS
      <3>2. /\ a.class = "ClickAction" /\ b.class = "ClickAction"
            /\ Cause(i) = a.timestamp /\ Cause(j) = b.timestamp
        BY <2>1, <3>1
      <3>3. i \in 1..Len(origin.actions) /\ j \in 1..Len(origin.actions)
        BY <2>1
      <3>4. InOrder(origin)
        BY DEF MadeInv, Made
      <3>5. \/ a.class = "ResizeAction" \/ b.class = "ResizeAction"
            \/ a.timestamp < b.timestamp \/ a.class = "TypeAction"
        BY ONLY <2>3, <3>1, <3>3, <3>4 DEF InOrder
      <3> QED
        BY <3>2, <3>5
    <2>4. {Cause(i) : i \in done} = asked
      BY <2>1, <2>2
    <2> QED
      BY <2>1, <2>3, <2>4 DEF Mirrors
  <1>2. IInv /\ MadeInv => ClicksReplayed
    BY <1>1 DEF ClicksReplayed
  <1> QED
    BY <1>2, Invariant, MadeInvariant, PTL

\* The key mask that the numbers of a press and of a move make: the left button's
\* bit, and none.
LEMMA Masked ==
  ASSUME NEW k \in DOMAIN MK
  PROVE  /\ Masks(WM_LBUTTONDOWN, k) <=> k = "LBUTTON"
         /\ ~Masks(WM_MOUSEMOVE, k)
  <1>1. k \in {"LBUTTON", "RBUTTON", "SHIFT", "CONTROL", "MBUTTON"}
    BY DEF MK
  <1>2. CASE k = "LBUTTON"
    <2>1. MK[k] = 1 /\ 513 \div 1 = 513 /\ 512 \div 1 = 512
      BY <1>2 DEF MK
    <2> QED
      BY <1>2, <2>1 DEF Masks, WM_LBUTTONDOWN, WM_MOUSEMOVE
  <1>3. CASE k = "RBUTTON"
    <2>1. MK[k] = 2 /\ 513 \div 2 = 256 /\ 512 \div 2 = 256
      BY <1>3 DEF MK
    <2> QED
      BY <1>3, <2>1 DEF Masks, WM_LBUTTONDOWN, WM_MOUSEMOVE
  <1>4. CASE k = "SHIFT"
    <2>1. MK[k] = 4 /\ 513 \div 4 = 128 /\ 512 \div 4 = 128
      BY <1>4 DEF MK
    <2> QED
      BY <1>4, <2>1 DEF Masks, WM_LBUTTONDOWN, WM_MOUSEMOVE
  <1>5. CASE k = "CONTROL"
    <2>1. MK[k] = 8 /\ 513 \div 8 = 64 /\ 512 \div 8 = 64
      BY <1>5 DEF MK
    <2> QED
      BY <1>5, <2>1 DEF Masks, WM_LBUTTONDOWN, WM_MOUSEMOVE
  <1>6. CASE k = "MBUTTON"
    <2>1. MK[k] = 16 /\ 513 \div 16 = 32 /\ 512 \div 16 = 32
      BY <1>6 DEF MK
    <2> QED
      BY <1>6, <2>1 DEF Masks, WM_LBUTTONDOWN, WM_MOUSEMOVE
  <1> QED
    BY <1>1, <1>2, <1>3, <1>4, <1>5, <1>6

\* A replayed press or move claims no button or key that was not down.
THEOREM NoPhantomKeyCorrect == Spec => []NoPhantomKey
  <1>1. ASSUME IInv, MadeInv, Finished, NEW i \in DOMAIN sent,
               sent[i].event.call \in {"SendMouseClickEvent", "SendMouseMoveEvent"},
               sent[i].action.wp # WM_LBUTTONUP
        PROVE  sent[i].event.modifiers \cap DOMAIN MK
                 \subseteq origin.input[sent[i].action.timestamp].keys
    <2> USE <1>1, FinishedFacts
    <2>1. PICK a \in Actions : a = origin.actions[i] /\ sent[i].action = a
      OBVIOUS
    <2>2. PICK live \in Live : sent[i].event \in Execute(a, live)
      BY <2>1
    <2>3. a.class \in {"ClickAction", "MouseMoveAction"}
      BY <2>2, ExecuteFacts
    <2>4. PICK n \in 1..Len(origin.input), m \in Messages :
            a.timestamp = n /\ m = origin.input[n] /\ MadeFrom(a, m, n)
      BY <2>1, <2>3, MadeOf
    <2>5. \/ IsClick(m) /\ m.dev = "mouse" /\ a.wp = m.wp
          \/ m.wp = WM_MOUSEMOVE /\ a.wp = m.wp
      BY <2>3, <2>4 DEF MadeFrom, Click, Move, Wheel, Type
    <2>6. \/ a.wp = WM_LBUTTONDOWN /\ "LBUTTON" \in m.keys
          \/ a.wp = WM_MOUSEMOVE
      BY <2>1, <2>5, MessagesOK DEF IsClick
    <2>7. sent[i].event.modifiers = GetCefMouseModifiers(a.wp, live)
      <3>1. sent[i].event = ClickEvent(a, live) \/ sent[i].event = MoveEvent(a, live)
        <4>1. EventToPopup.call = "WM_LBUTTONDOWN, WM_LBUTTONUP"
          BY DEF EventToPopup
        <4>2. sent[i].event # EventToPopup
          BY <4>1
        <4> QED
          BY <2>2, <2>3, <4>2, ExecuteFacts
      <3>2. ClickEvent(a, live).modifiers = GetCefMouseModifiers(a.wp, live)
        BY DEF ClickEvent
      <3>3. MoveEvent(a, live).modifiers = GetCefMouseModifiers(a.wp, live)
        BY DEF MoveEvent
      <3> QED
        BY <3>1, <3>2, <3>3
    <2>8. {"ALT", "NUMLOCK", "CAPSLOCK"} \cap DOMAIN MK = {}
      BY DEF MK
    <2>9. \A k \in GetCefMouseModifiers(a.wp, live) \cap DOMAIN MK : Masks(a.wp, k)
      BY <2>8 DEF GetCefMouseModifiers
    <2>10. \A k \in GetCefMouseModifiers(a.wp, live) \cap DOMAIN MK : k \in m.keys
      BY <2>6, <2>9, Masked
    <2> QED
      BY <2>1, <2>4, <2>7, <2>10
  <1>2. IInv /\ MadeInv => NoPhantomKey
    BY <1>1 DEF NoPhantomKey
  <1> QED
    BY <1>2, Invariant, MadeInvariant, PTL
=============================================================================

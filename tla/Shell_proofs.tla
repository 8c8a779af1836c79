----------------------------- MODULE Shell_proofs -----------------------------
(***************************************************************************)
(* Proofs about Shell for dialogs and frames of any size.                  *)
(*                                                                         *)
(* Single is what the three orders of dialogs (input.rs, app.rs, tui.rs)   *)
(* rest on: no two things are open at once, so it does not matter which    *)
(* comes first in which order.  With it every step is one of a few kinds   *)
(* (Turn, Move, Draw, a scroll, a worker or the loop going on), and the    *)
(* other parts of the invariant are proved of the kinds.                   *)
(***************************************************************************)
EXTENDS Shell, TLAPS

Phases == {"none", "Editing", "Preview", "Checking", "Applying", "Failed", "Report"}
Prompts == [phase : Phases, rows : Nat, ask : Nat, may : BOOLEAN]

\* What may stand in the dialog of a kind.
Proper(kind, p) ==
  /\ p \in Prompts
  /\ p.phase = "none" => p = Closed
  /\ p.phase = "Preview" => p.ask <= p.rows /\ (kind # "update" => p.ask = p.rows)
  /\ p.phase \in {"Checking", "Applying"} => kind = "vendored"

Windows == [offset : Nat, most : Nat, measured : BOOLEAN, read : BOOLEAN]

Shaped ==
  /\ window \in Windows /\ pc \in {"drain", "draw", "key", "leaving", "done"}
  /\ DOMAIN dialog = Kinds /\ \A k \in Kinds : Proper(k, dialog[k])

Single == \A a, b \in Open : a = b

Places ==
  /\ path => view \in {"Sources", "DiscoverSources"}
  /\ source => view \in {"Sources", "ConfirmCatalogs"}
  /\ filter => view = "Inventory" /\ pane = "list"

Waits ==
  /\ check # "none" <=> dialog["vendored"].phase = "Checking"
  /\ pc \notin {"leaving", "done"} => (apply # "none" <=> dialog["vendored"].phase = "Applying")

Owing == \A kind \in owed : dialog[kind].phase \in {"Applying", "Report"}

\* A reader who scrolled by frames has seen what is above the window, and a dialog that the
\* last frame drew has been seen down to its end.
Read(rows) ==
  /\ \A r \in 1..rows : r <= window.offset => r \in seen
  /\ pc = "key" /\ window.measured =>
       \E h \in Nat \ {0} :
         /\ window.most = Beyond(rows, h)
         /\ \A r \in 1..rows : r <= window.offset + h => r \in seen

Seeing ==
  ~blind =>
    /\ \A k \in Kinds : dialog[k].phase # "none" => Read(dialog[k].rows)
    /\ window.read => dialog["update"].phase = "Preview" /\ 1..dialog["update"].ask \subseteq seen

Inv == TypeOK /\ Shaped /\ Single /\ Places /\ Waits /\ Owing /\ Seeing

-----------------------------------------------------------------------------
(* Who is first in an order of which at most one is open *)

\* An order without repetitions.
Order(order) ==
  /\ \E n \in Nat : DOMAIN order = 1..n
  /\ \A i, j \in DOMAIN order : order[i] = order[j] => i = j

LEMMA FirstOfOne ==
  ASSUME NEW order, Order(order), NEW open, NEW x \in open,
         \E k \in DOMAIN order : order[k] = x,
         \A i \in DOMAIN order : order[i] \in open => order[i] = x
  PROVE  First(order, open) = x
  <1> DEFINE P(i) == order[i] \in open /\ \A j \in 1..(i - 1) : order[j] \notin open
  <1>1. PICK k \in DOMAIN order : order[k] = x OBVIOUS
  <1>2. P(k)
    <2>1. ASSUME NEW j \in 1..(k - 1), order[j] \in open PROVE FALSE
      <3>1. j \in DOMAIN order /\ j # k BY DEF Order
      <3>2. QED BY <1>1, <2>1, <3>1 DEF Order
    <2>2. QED BY <1>1, <2>1
  <1>3. \E i \in DOMAIN order : P(i) BY <1>2
  <1>4. (CHOOSE i \in DOMAIN order : P(i)) \in DOMAIN order /\ P(CHOOSE i \in DOMAIN order : P(i))
    BY <1>3
  <1>5. First(order, open) = order[CHOOSE i \in DOMAIN order : P(i)] BY <1>3 DEF First
  <1>6. QED BY <1>4, <1>5

LEMMA FirstOfNone ==
  ASSUME NEW order, NEW open, \A i \in DOMAIN order : order[i] \notin open
  PROVE  First(order, open) = "screen"
  BY DEF First

Sites == Kinds \cup {"help", "filter", "path", "source"}

LEMMA OpenSites == Open \subseteq Sites
  BY DEF Open, Sites

LEMMA Orders == Order(KeyOrder) /\ Order(ReducerOrder) /\ Order(DrawOrder)
  <1>1. Order(KeyOrder)
    <2>1. DOMAIN KeyOrder = 1..9 BY DEF KeyOrder
    <2>2. \A i, j \in 1..9 : KeyOrder[i] = KeyOrder[j] => i = j BY DEF KeyOrder
    <2>3. QED BY <2>1, <2>2 DEF Order
  <1>2. Order(ReducerOrder)
    <2>1. DOMAIN ReducerOrder = 1..7 BY DEF ReducerOrder
    <2>2. \A i, j \in 1..7 : ReducerOrder[i] = ReducerOrder[j] => i = j BY DEF ReducerOrder
    <2>3. QED BY <2>1, <2>2 DEF Order
  <1>3. Order(DrawOrder)
    <2>1. DOMAIN DrawOrder = 1..8 BY DEF DrawOrder
    <2>2. \A i, j \in 1..8 : DrawOrder[i] = DrawOrder[j] => i = j BY DEF DrawOrder
    <2>3. QED BY <2>1, <2>2 DEF Order
  <1>4. QED BY <1>1, <1>2, <1>3

\* What each order lists.
LEMMA Listed ==
  /\ \A x \in Sites : \E k \in DOMAIN KeyOrder : KeyOrder[k] = x
  /\ \A x \in Sites \ {"path", "source"} : \E k \in DOMAIN ReducerOrder : ReducerOrder[k] = x
  /\ \A k \in DOMAIN ReducerOrder : ReducerOrder[k] \notin {"path", "source"}
  /\ \A x \in Sites \ {"filter"} : \E k \in DOMAIN DrawOrder : DrawOrder[k] = x
  /\ \A k \in DOMAIN DrawOrder : DrawOrder[k] # "filter"
  BY DEF Sites, Kinds, KeyOrder, ReducerOrder, DrawOrder

LEMMA KeyboardOf ==
  ASSUME Single
  PROVE  /\ Open = {} => Keyboard = "screen"
         /\ \A x \in Open : Keyboard = x
  <1>1. CASE Open = {} BY <1>1, FirstOfNone DEF Keyboard
  <1>2. ASSUME NEW x \in Open PROVE First(KeyOrder, Open) = x
    <2>1. \E k \in DOMAIN KeyOrder : KeyOrder[k] = x BY OpenSites, Listed
    <2>2. \A i \in DOMAIN KeyOrder : KeyOrder[i] \in Open => KeyOrder[i] = x BY DEF Single
    <2>3. QED BY <2>1, <2>2, Orders, FirstOfOne
  <1>3. QED BY <1>1, <1>2 DEF Keyboard

LEMMA ReducerOf ==
  ASSUME Single
  PROVE  /\ Open \subseteq {"path", "source"} => Reducer = "screen"
         /\ \A x \in Open \ {"path", "source"} : Reducer = x
  <1>1. ASSUME Open \subseteq {"path", "source"} PROVE Reducer = "screen"
    BY <1>1, Listed, FirstOfNone DEF Reducer
  <1>2. ASSUME NEW x \in Open \ {"path", "source"} PROVE First(ReducerOrder, Open) = x
    <2>1. \E k \in DOMAIN ReducerOrder : ReducerOrder[k] = x BY OpenSites, Listed
    <2>2. \A i \in DOMAIN ReducerOrder : ReducerOrder[i] \in Open => ReducerOrder[i] = x
      BY DEF Single
    <2>3. QED BY <2>1, <2>2, Orders, FirstOfOne
  <1>3. QED BY <1>1, <1>2 DEF Reducer

LEMMA DrawnOf ==
  ASSUME Single
  PROVE  /\ Open \subseteq {"filter", "source"} => Drawn \in {"screen"} \cup (Open \ {"filter"})
         /\ \A x \in Open \ {"filter", "source"} : Drawn = x
  <1>1. PICK top : top = IF view = "Sources" THEN Open ELSE Open \ {"source"} OBVIOUS
  <1>2. Drawn = First(DrawOrder, top) BY <1>1 DEF Drawn
  <1>3. ASSUME NEW x \in top \ {"filter"} PROVE First(DrawOrder, top) = x
    <2>1. \E k \in DOMAIN DrawOrder : DrawOrder[k] = x BY <1>1, OpenSites, Listed
    <2>2. x \in top /\ \A i \in DOMAIN DrawOrder : DrawOrder[i] \in top => DrawOrder[i] = x
      BY <1>1 DEF Single
    <2>3. QED BY <2>1, <2>2, Orders, FirstOfOne
  <1>4. ASSUME top \subseteq {"filter"} PROVE Drawn = "screen"
    <2>1. \A i \in DOMAIN DrawOrder : DrawOrder[i] \notin top BY <1>4, Listed
    <2>2. QED BY <1>2, <2>1, FirstOfNone
  <1>5. QED BY <1>1, <1>2, <1>3, <1>4

\* A key reaches the one thing that is open, and the screen when nothing is.
LEMMA KeyMeans ==
  ASSUME Single, NEW owner, Key(owner)
  PROVE  Open = {owner} \ {"screen"}
  <1>1. "screen" \notin Open BY OpenSites DEF Sites, Kinds
  <1>2. CASE Open = {} BY <1>2, KeyboardOf DEF Key
  <1>3. ASSUME NEW x \in Open PROVE Open = {owner} \ {"screen"}
    <2>1. x = owner BY <1>3, KeyboardOf DEF Key
    <2>2. QED BY <1>1, <1>3, <2>1 DEF Single
  <1>4. QED BY <1>2, <1>3

\* The same, of each thing that may be open.
LEMMA KeyCloses ==
  ASSUME Single, Shaped, NEW owner, Key(owner)
  PROVE  /\ help => owner = "help"
         /\ filter => owner = "filter"
         /\ path => owner = "path"
         /\ source => owner = "source"
         /\ \A k \in Kinds \ {owner} : dialog[k] = Closed
  <1>1. Open = {owner} \ {"screen"} BY KeyMeans
  <1>2. QED BY <1>1 DEF Open, Shaped, Proper
-----------------------------------------------------------------------------
(* A turn: with nothing else open, the dialog of one kind becomes a prompt *)

AtTop == [offset |-> 0, most |-> 0, measured |-> FALSE, read |-> FALSE]
Only(kind, prompt) == [k \in Kinds |-> IF k = kind THEN prompt ELSE Closed]

Alone(kind) == ~help /\ ~filter /\ \A k \in Kinds \ {kind} : dialog[k] = Closed

Turn(kind, prompt) ==
  /\ Alone(kind) /\ Proper(kind, prompt)
  /\ dialog' = Only(kind, prompt)
  /\ window' = AtTop /\ seen' = {} /\ blind' = FALSE
  /\ ~help' /\ ~filter' /\ ~path' /\ ~source'
  /\ {help', filter', path', source'} \subseteq BOOLEAN
  /\ ready' \in BOOLEAN /\ view' \in {view, "Inventory"} /\ pane' \in {pane, "list", "details"}
  /\ pc' \in {"drain", "draw"}

\* What a turn does to the workers, and to what is owed a report.
Paid(kind, prompt) ==
  /\ check' \in {"none", "running"} \cup Ended /\ apply' \in {"none", "running"} \cup Ended
  /\ updating' \in {"none", "running"} \cup Ended
  /\ check' # "none" <=> prompt.phase = "Checking"
  /\ apply' # "none" <=> prompt.phase = "Applying"
  /\ \A k \in owed' : k = kind /\ prompt.phase \in {"Applying", "Report"}
  /\ \A k \in owed' \ owed : pc = "key" /\ CanConfirm(k)

Turns == \E kind \in Kinds, prompt \in Prompts : Turn(kind, prompt) /\ Paid(kind, prompt)

LEMMA ClosedIsProper == Closed.phase = "none" /\ \A kind \in Kinds : Proper(kind, Closed)
  BY DEF Proper, Closed, Prompts, Phases

LEMMA AnswersAreProper ==
  ASSUME NEW kind \in Kinds, NEW phase \in {"Editing", "Checking", "Applying", "Failed", "Report"},
         phase \in {"Checking", "Applying"} => kind = "vendored"
  PROVE  Proper(kind, Answer(phase)) /\ Answer(phase).phase = phase
  BY DEF Proper, Answer, Prompts, Phases

LEMMA PreviewsAreProper ==
  ASSUME NEW kind \in Kinds, NEW p \in Previews(kind)
  PROVE  Proper(kind, p) /\ p.phase = "Preview"
  BY LengthsAssumption DEF Proper, Previews, Prompts, Phases

LEMMA TurnOf ==
  ASSUME TypeOK, Shaped, NEW kind \in Kinds, NEW prompt, Proper(kind, prompt), Alone(kind),
         pc' \in {"drain", "draw"},
         \/ ~path /\ ~source /\ Opens(kind, prompt) /\ UNCHANGED <<screen, input>>
         \/ SetDegraded /\ Shows([NoDialogs EXCEPT ![kind] = prompt])
         \/ Degrade /\ prompt = Closed
  PROVE  Turn(kind, prompt)
  <1> USE DEF Shows, ResetScroll
  <1>1. ASSUME ~path, ~source, Opens(kind, prompt), UNCHANGED <<screen, input>>
        PROVE Turn(kind, prompt)
    <2>1. dialog' = Only(kind, prompt) BY <1>1 DEF Opens, Alone, Only, Shaped
    <2>2. QED BY <1>1, <2>1 DEF Turn, Opens, Alone, AtTop, screen, input, TypeOK
  <1>2. ASSUME SetDegraded, Shows([NoDialogs EXCEPT ![kind] = prompt]) PROVE Turn(kind, prompt)
    <2>1. dialog' = Only(kind, prompt) BY <1>2 DEF NoDialogs, Only
    <2>2. QED BY <1>2, <2>1 DEF Turn, SetDegraded, Alone, AtTop, TypeOK
  <1>3. ASSUME Degrade, prompt = Closed PROVE Turn(kind, prompt)
    <2>1. dialog' = Only(kind, prompt) BY <1>3 DEF Degrade, NoDialogs, Only
    <2>2. QED BY <1>3, <2>1 DEF Turn, Degrade, SetDegraded, Alone, AtTop, TypeOK
  <1>4. QED BY <1>1, <1>2, <1>3

LEMMA TurnSettles ==
  ASSUME TypeOK, Shaped, NEW kind \in Kinds, NEW prompt, Proper(kind, prompt), Alone(kind),
         ~path, ~source, pc' \in {"drain", "draw"}, Settles(kind, prompt)
  PROVE  Turn(kind, prompt)
  BY TurnOf DEF Settles

\* What a key of a dialog, or of the screen, finds.
LEMMA KeyAlone ==
  ASSUME Single, Shaped, NEW owner, Key(owner)
  PROVE  /\ pc = "key" /\ pc' = "drain"
         /\ owner \in Kinds \cup {"screen"} => ~path /\ ~source
         /\ owner \in Kinds => Alone(owner)
         /\ owner \in {"screen", "source"} => \A kind \in Kinds : Alone(kind)
  BY KeyCloses DEF Key, Alone, Kinds

\* What a worker's answer finds.
LEMMA DrainAlone ==
  ASSUME Single, Shaped, Waits, pc = "drain", check # "none" \/ apply # "none"
  PROVE  ~path /\ ~source /\ Alone("vendored")
  <1>1. "vendored" \in Open BY DEF Waits, Open, Kinds
  <1>2. QED BY <1>1 DEF Single, Open, Kinds, Alone, Shaped, Proper

\* A write is owed by the dialog that shows it, so by none of the others.
LEMMA OwedAlone ==
  ASSUME Owing, NEW kind \in Kinds, Alone(kind), owed \subseteq Kinds
  PROVE  \A k \in owed : k = kind /\ dialog[kind].phase \in {"Applying", "Report"}
  BY DEF Owing, Alone, Closed, Kinds

Held == TypeOK /\ Shaped /\ Single /\ Places /\ Waits /\ Owing

\* Without a worker, and with no dialog that waits for one.
LEMMA PaidIdle ==
  ASSUME Held, NEW kind \in Kinds, NEW prompt, Alone(kind), pc = "key",
         dialog[kind].phase \notin {"Checking", "Applying"},
         prompt.phase \notin {"Checking", "Applying"},
         UNCHANGED <<check, apply>>, updating' \in {"none", "running"} \cup Ended,
         \A k \in owed' : k = kind /\ prompt.phase = "Report",
         \A k \in owed' \ owed : CanConfirm(k)
  PROVE  Paid(kind, prompt)
  <1>1. dialog["vendored"].phase \notin {"Checking", "Applying"}
    BY DEF Alone, Closed, Kinds
  <1>2. QED BY <1>1 DEF Paid, Held, TypeOK, Waits

LEMMA NoneOwed ==
  ASSUME Held, NEW kind \in Kinds, Alone(kind), dialog[kind].phase \notin {"Applying", "Report"}
  PROVE  owed = {}
  BY OwedAlone DEF Held, TypeOK

LEMMA DrainCheckTurns ==
  ASSUME Held, pc = "drain", pc' = "draw", DrainVendoredCheck, updating' \in {"none", "running"} \cup Ended
  PROVE  Turns
  <1>1. check # "none" BY DEF DrainVendoredCheck, Ended
  <1>2. dialog["vendored"].phase = "Checking" /\ apply = "none" BY <1>1 DEF Held, Waits
  <1>3. ~path /\ ~source /\ Alone("vendored") BY <1>1, DrainAlone DEF Held
  <1>4. owed' = {} BY <1>2, <1>3, NoneOwed DEF DrainVendoredCheck, Kinds
  <1>5. ASSUME NEW p, Proper("vendored", p), p.phase \notin {"Checking", "Applying"}
        PROVE p \in Prompts /\ Paid("vendored", p)
    BY <1>2, <1>4, <1>5 DEF Paid, DrainVendoredCheck, Proper
  <1>6. ASSUME NEW p \in Previews("vendored") \cup {Closed}, Opens("vendored", p),
               UNCHANGED <<screen, input>>
        PROVE Turns
    <2>1. Proper("vendored", p) /\ p.phase \notin {"Checking", "Applying"}
      <3>1. CASE p = Closed BY <3>1, ClosedIsProper DEF Kinds
      <3>2. CASE p \in Previews("vendored") BY <3>2, PreviewsAreProper DEF Kinds
      <3>3. QED BY <3>1, <3>2
    <2>2. Turn("vendored", p) BY <1>3, <1>6, <2>1, TurnOf DEF Held, Kinds
    <2>3. QED BY <1>5, <2>1, <2>2 DEF Turns, Kinds
  <1>7. ASSUME Settles("vendored", Answer("Failed")) PROVE Turns
    <2>1. Proper("vendored", Answer("Failed")) /\ Answer("Failed").phase = "Failed"
      BY AnswersAreProper DEF Kinds
    <2>2. Turn("vendored", Answer("Failed")) BY <1>3, <1>7, <2>1, TurnSettles DEF Held, Kinds
    <2>3. QED BY <1>5, <2>1, <2>2 DEF Turns, Kinds
  <1>8. QED BY <1>6, <1>7 DEF DrainVendoredCheck

LEMMA DrainApplyTurns ==
  ASSUME Held, pc = "drain", pc' = "draw", DrainVendoredApply, updating' \in {"none", "running"} \cup Ended
  PROVE  Turns
  <1>1. apply # "none" BY DEF DrainVendoredApply, Ended
  <1>2. dialog["vendored"].phase = "Applying" /\ check = "none" BY <1>1 DEF Held, Waits
  <1>3. ~path /\ ~source /\ Alone("vendored") BY <1>1, DrainAlone DEF Held
  <1>4. \A k \in owed : k = "vendored" BY <1>3, OwedAlone DEF Held, TypeOK, Kinds
  <1>5. Proper("vendored", Answer("Report")) /\ Answer("Report").phase = "Report"
    BY AnswersAreProper DEF Kinds
  <1>6. Turn("vendored", Answer("Report"))
    BY <1>3, <1>5, TurnSettles DEF Held, Kinds, DrainVendoredApply
  <1>7. Paid("vendored", Answer("Report"))
    BY <1>2, <1>4, <1>5 DEF Paid, DrainVendoredApply
  <1>8. QED BY <1>5, <1>6, <1>7 DEF Turns, Kinds, Proper

\* A prompt put up by a key, with nothing owed.
LEMMA KeyTurns ==
  ASSUME Held, NEW owner, Key(owner), NEW kind \in Kinds, owner \in {kind, "screen", "source"},
         dialog[kind].phase \notin {"Checking", "Applying", "Report"},
         NEW prompt, Proper(kind, prompt), prompt.phase \notin {"Checking", "Applying", "Report"},
         \/ owner # "source" /\ Opens(kind, prompt) /\ UNCHANGED <<screen, input>>
         \/ SetDegraded /\ Shows([NoDialogs EXCEPT ![kind] = prompt])
         \/ Degrade /\ prompt = Closed,
         UNCHANGED <<workers, owed>>
  PROVE  Turns
  <1>1. Alone(kind) /\ pc = "key" /\ pc' = "drain" /\ (owner # "source" => ~path /\ ~source)
    BY KeyAlone DEF Held
  <1>2. Turn(kind, prompt) BY <1>1, TurnOf DEF Held
  <1>3. owed' = {} BY <1>1, NoneOwed
  <1>4. Paid(kind, prompt) BY <1>1, <1>3, PaidIdle DEF workers, Held, TypeOK
  <1>5. QED BY <1>2, <1>4 DEF Turns, Proper

LEMMA PromptTurns ==
  ASSUME Held, NEW kind \in Kinds, NEW prompt, Opens(kind, prompt),
         Key(kind) \/ Key("screen"), Proper(kind, prompt),
         dialog[kind].phase \notin {"Checking", "Applying", "Report"},
         prompt.phase \notin {"Checking", "Applying", "Report"},
         UNCHANGED <<screen, input>>, UNCHANGED <<workers, owed>>
  PROVE  Turns
  <1>1. Alone(kind) /\ pc = "key" /\ pc' = "drain" /\ ~path /\ ~source
    <2>1. CASE Key(kind) BY <2>1, KeyAlone DEF Held
    <2>2. CASE Key("screen") BY <2>2, KeyAlone DEF Held
    <2>3. QED BY <2>1, <2>2
  <1>2. Turn(kind, prompt) BY <1>1, TurnOf DEF Held
  <1>3. owed' = {} BY <1>1, NoneOwed
  <1>4. Paid(kind, prompt) BY <1>1, <1>3, PaidIdle DEF workers, Held, TypeOK
  <1>5. QED BY <1>2, <1>4 DEF Turns, Proper

\* The report of a write that the dialog's own question confirmed.
LEMMA ReportTurns ==
  ASSUME Held, NEW kind \in Kinds, Key(kind), CanConfirm(kind),
         Settles(kind, Answer("Report")), UNCHANGED workers,
         owed' \in {owed, owed \cup {kind}}
  PROVE  Turns
  <1>1. Alone(kind) /\ pc = "key" /\ pc' = "drain" /\ ~path /\ ~source BY KeyAlone DEF Held
  <1>2. Proper(kind, Answer("Report")) /\ Answer("Report").phase = "Report" BY AnswersAreProper
  <1>3. Turn(kind, Answer("Report")) BY <1>1, <1>2, TurnSettles DEF Held
  <1>4. dialog[kind].phase = "Preview" BY DEF CanConfirm
  <1>5. owed = {} BY <1>1, <1>4, NoneOwed
  <1>6. Paid(kind, Answer("Report")) BY <1>1, <1>2, <1>4, <1>5, PaidIdle DEF workers, Held, TypeOK
  <1>7. QED BY <1>2, <1>3, <1>6 DEF Turns, Proper

LEMMA DismissTurns == ASSUME Held, NEW kind \in Kinds, Dismiss(kind) PROVE Turns
  <1>1. Alone(kind) /\ pc = "key" /\ pc' = "drain" /\ ~path /\ ~source
    BY KeyAlone DEF Held, Dismiss
  <1>2. Proper(kind, Closed) /\ Closed.phase = "none" BY ClosedIsProper DEF Closed
  <1>3. Turn(kind, Closed) BY <1>1, <1>2, TurnOf DEF Held, Dismiss
  <1>4. owed' = {} BY <1>1, OwedAlone DEF Dismiss, Held, TypeOK
  <1>5. dialog["vendored"].phase # "Applying" /\ (kind # "vendored" => dialog["vendored"].phase # "Checking")
    BY <1>1 DEF Alone, Kinds, Dismiss, Closed
  <1>6. check' = "none" /\ apply' = "none" /\ UNCHANGED updating
    BY <1>1, <1>5 DEF Dismiss, Held, Waits
  <1>7. Paid(kind, Closed) BY <1>2, <1>4, <1>6 DEF Paid, Held, TypeOK
  <1>8. QED BY <1>2, <1>3, <1>7 DEF Turns, Proper

LEMMA ApplyTurns == ASSUME Held, Apply PROVE Turns
  <1>1. CASE ApplyOperation
    BY <1>1, ReportTurns DEF ApplyOperation, Kinds
  <1>2. CASE ApplyRepair
    <2>1. CASE ready BY <1>2, <2>1, ReportTurns DEF ApplyRepair, Kinds, Settles
    <2>2. CASE ~ready
      <3>1. dialog["repair"].phase = "Preview" /\ Key("repair") BY <1>2 DEF ApplyRepair, CanConfirm
      <3>2. QED BY <1>2, <2>2, <3>1, KeyTurns, ClosedIsProper DEF ApplyRepair, Kinds
    <2>3. QED BY <2>1, <2>2
  <1>3. CASE ApplyRepositoryUpdate
    BY <1>3, ReportTurns DEF ApplyRepositoryUpdate, Kinds, Settles
  <1>4. CASE ApplyAdoption
    <2>1. Key("adoption") /\ CanConfirm("adoption") /\ UNCHANGED workers BY <1>4 DEF ApplyAdoption
    <2>2. CASE owed' = owed \cup {"adoption"} /\ Settles("adoption", Answer("Report"))
      BY <2>1, <2>2, ReportTurns DEF Kinds
    <2>3. CASE Settles("adoption", Answer("Failed")) /\ UNCHANGED owed
      <3>1. dialog["adoption"].phase = "Preview" BY <2>1 DEF CanConfirm
      <3>2. Proper("adoption", Answer("Failed")) /\ Answer("Failed").phase = "Failed"
        BY AnswersAreProper DEF Kinds
      <3>3. QED BY <2>1, <2>3, <3>1, <3>2, KeyTurns DEF Kinds, Settles
    <2>4. QED BY <1>4, <2>2, <2>3 DEF ApplyAdoption
  <1>5. CASE StartVendoredApply
    <2>1. /\ Alone("vendored") /\ pc = "key" /\ pc' = "drain" /\ ~path /\ ~source
      BY <1>5, KeyAlone DEF Held, StartVendoredApply, Kinds
    <2>2. Proper("vendored", Answer("Applying")) /\ Answer("Applying").phase = "Applying"
      BY AnswersAreProper DEF Kinds
    <2>3. Turn("vendored", Answer("Applying"))
      BY <1>5, <2>1, <2>2, TurnOf DEF Held, StartVendoredApply, Kinds
    <2>4. dialog["vendored"].phase = "Preview" BY <1>5 DEF StartVendoredApply, CanConfirm
    <2>5. owed = {} /\ check = "none" BY <2>1, <2>4, NoneOwed DEF Held, Waits, Kinds
    <2>6. Paid("vendored", Answer("Applying"))
      BY <1>5, <2>1, <2>2, <2>5 DEF Paid, StartVendoredApply, Held, TypeOK
    <2>7. QED BY <2>2, <2>3, <2>6 DEF Turns, Kinds, Proper
  <1>6. QED BY <1>1, <1>2, <1>3, <1>4, <1>5 DEF Apply

\* A screen, without a dialog.
LEMMA ScreenTurns ==
  ASSUME Held, Key("screen"), NEW kind \in Kinds, UNCHANGED <<workers, owed>>,
         \/ \E p \in Previews(kind) \cup {Answer("Failed")} :
              Opens(kind, p) /\ UNCHANGED <<screen, input>>
         \/ Settles(kind, Answer("Failed"))
         \/ Degrade
  PROVE  Turns
  <1>1. dialog[kind].phase = "none"
    <2>1. Open = {} BY KeyMeans DEF Held
    <2>2. QED BY <2>1 DEF Open
  <1>2. Proper(kind, Answer("Failed")) /\ Answer("Failed").phase = "Failed" BY AnswersAreProper
  <1>3. Proper(kind, Closed) /\ Closed.phase = "none" BY ClosedIsProper
  <1>4. ASSUME NEW p \in Previews(kind), Opens(kind, p), UNCHANGED <<screen, input>> PROVE Turns
    <2>1. Proper(kind, p) /\ p.phase = "Preview" BY PreviewsAreProper
    <2>2. QED BY <1>1, <1>4, <2>1, PromptTurns
  <1>5. CASE Settles(kind, Answer("Failed")) BY <1>1, <1>2, <1>5, KeyTurns DEF Settles
  <1>6. CASE Degrade BY <1>1, <1>3, <1>6, KeyTurns
  <1>7. QED BY <1>4, <1>5, <1>6 DEF Settles

LEMMA BeginTurns ==
  ASSUME Held, PlanInstall \/ PlanRemoval \/ PlanRepair \/ PlanRepositoryUpdate \/ BeginAdoption
                 \/ PreviewAdoption \/ BeginVendoredCheck
  PROVE  Turns
  <1>1. CASE PlanInstall BY <1>1, ScreenTurns DEF PlanInstall, Kinds
  <1>2. CASE PlanRemoval BY <1>2, ScreenTurns DEF PlanRemoval, Kinds
  <1>3. CASE PlanRepair BY <1>3, ScreenTurns DEF PlanRepair, Kinds
  <1>4. CASE PlanRepositoryUpdate BY <1>4, ScreenTurns DEF PlanRepositoryUpdate, Kinds
  <1>5. CASE BeginAdoption
    <2>1. CASE Settles("adoption", Answer("Failed"))
      BY <1>5, <2>1, ScreenTurns DEF BeginAdoption, Kinds
    <2>2. CASE Opens("adoption", Answer("Editing")) /\ UNCHANGED <<screen, input>>
      <3>1. Proper("adoption", Answer("Editing")) /\ Answer("Editing").phase = "Editing"
        BY AnswersAreProper DEF Kinds
      <3>2. dialog["adoption"].phase = "none" /\ Key("screen") /\ UNCHANGED <<workers, owed>>
        BY <1>5, KeyMeans DEF BeginAdoption, Held, Open, Kinds
      <3>3. QED BY <2>2, <3>1, <3>2, PromptTurns DEF Kinds
    <2>3. QED BY <1>5, <2>1, <2>2 DEF BeginAdoption
  <1>6. CASE PreviewAdoption
    <2>1. Key("adoption") /\ dialog["adoption"].phase = "Editing" /\ UNCHANGED <<workers, owed>>
      BY <1>6 DEF PreviewAdoption
    <2>2. ASSUME NEW p \in Previews("adoption") \cup {Answer("Editing")}, Opens("adoption", p),
                 UNCHANGED <<screen, input>>
          PROVE Turns
      <3>1. Proper("adoption", p) /\ p.phase \in {"Preview", "Editing"}
        BY PreviewsAreProper, AnswersAreProper DEF Kinds
      <3>2. QED BY <2>1, <2>2, <3>1, PromptTurns DEF Kinds
    <2>3. ASSUME SetDegraded, Shows([NoDialogs EXCEPT !["adoption"] = Answer("Failed")])
          PROVE Turns
      <3>1. Proper("adoption", Answer("Failed")) /\ Answer("Failed").phase = "Failed"
        BY AnswersAreProper DEF Kinds
      <3>2. QED BY <2>1, <2>3, <3>1, KeyTurns DEF Kinds
    <2>4. QED BY <1>6, <2>2, <2>3 DEF PreviewAdoption
  <1>7. CASE BeginVendoredCheck
    <2>1. CASE Settles("vendored", Answer("Failed")) /\ UNCHANGED check
      BY <1>7, <2>1, ScreenTurns DEF BeginVendoredCheck, Kinds, workers
    <2>2. ASSUME Opens("vendored", Answer("Checking")), check' = "running", UNCHANGED <<screen, input>>
          PROVE Turns
      <3>1. Alone("vendored") /\ pc = "key" /\ pc' = "drain" /\ ~path /\ ~source
        BY <1>7, KeyAlone DEF Held, BeginVendoredCheck, Kinds
      <3>2. Proper("vendored", Answer("Checking")) /\ Answer("Checking").phase = "Checking"
        BY AnswersAreProper DEF Kinds
      <3>3. Turn("vendored", Answer("Checking")) BY <2>2, <3>1, <3>2, TurnOf DEF Held, Kinds
      <3>4. dialog["vendored"].phase = "none"
        BY <1>7, KeyMeans DEF BeginVendoredCheck, Held, Open, Kinds
      <3>5. owed = {} BY <3>1, <3>4, NoneOwed DEF Kinds
      <3>6. Paid("vendored", Answer("Checking"))
        BY <1>7, <2>2, <3>1, <3>2, <3>5 DEF Paid, BeginVendoredCheck, Held, TypeOK
      <3>7. QED BY <3>2, <3>3, <3>6 DEF Turns, Kinds, Proper
    <2>3. QED BY <1>7, <2>1, <2>2 DEF BeginVendoredCheck
  <1>8. QED BY <1>1, <1>2, <1>3, <1>4, <1>5, <1>6, <1>7

-----------------------------------------------------------------------------
(* A move: no dialog is open before it or after it *)

OneInput ==
  /\ help => ~filter /\ ~path /\ ~source
  /\ filter => ~path /\ ~source
  /\ path => ~source

Moving ==
  /\ pc = "key" /\ pc' = "drain"
  /\ UNCHANGED <<dialog, seen, blind, owed, check, apply>>
  /\ \A k \in Kinds : dialog[k] = Closed
  /\ window' \in Windows /\ (window'.read => window.read)
  /\ TypeOK' /\ OneInput' /\ Places'

LEMMA NewWindowIs == ASSUME NewWindow PROVE window' = AtTop /\ window' \in Windows /\ ~window'.read
                                             /\ UNCHANGED <<dialog, seen, blind>>
  BY DEF NewWindow, ResetScroll, AtTop, Windows

LEMMA ScrollIs == ASSUME window \in Windows, ScrollDetail
                  PROVE /\ window' \in Windows /\ window'.most = window.most
                        /\ window'.read = window.read /\ window'.measured = window.measured
                        /\ window'.offset \in {window.most, window.offset, window.offset + 1,
                                               Beyond(window.offset, 1)}
                        /\ window'.offset <= window.most
  <1> USE DEF Windows, Beyond, Least
  <1>1. PICK moved \in {Beyond(window.offset, 1), window.offset + 1} :
          window' = [window EXCEPT !.offset = Least(moved, window.most)]
    BY DEF ScrollDetail
  <1>2. Least(moved, window.most) \in Nat /\ Least(moved, window.most) <= window.most OBVIOUS
  <1>3. QED BY <1>1, <1>2

\* What a key of no dialog finds.
LEMMA KeyBare ==
  ASSUME Held, NEW owner \in {"screen", "help", "filter", "path", "source"}, Key(owner)
  PROVE  /\ pc = "key" /\ pc' = "drain" /\ \A k \in Kinds : dialog[k] = Closed
         /\ owner = "screen" => ~help /\ ~filter /\ ~path /\ ~source
         /\ owner = "help" => ~filter /\ ~path /\ ~source
         /\ owner = "filter" => ~help /\ ~path /\ ~source
         /\ owner = "path" => ~help /\ ~filter /\ ~source
         /\ owner = "source" => ~help /\ ~filter /\ ~path
         /\ TypeOK /\ Places /\ window \in Windows
  BY KeyCloses DEF Held, Kinds, Key, Shaped

LEMMA WindowType ==
  ASSUME window' \in Windows
  PROVE  window'.offset \in Nat /\ window'.most \in Nat
  BY DEF Windows

SetupViews == {"Welcome", "DetectAgents", "ChooseScanRoots", "DiscoverSources",
               "ConfirmCatalogs", "ScanInstallations", "Summary"}

LEMMA SetupIs ==
  /\ DOMAIN SetupSteps = 1..7 /\ Len(SetupSteps) = 7 /\ Setup = SetupViews
  /\ \A i \in 1..7 : SetupSteps[i] \in SetupViews
  BY DEF SetupSteps, Setup, SetupViews

LEMMA NavigateMoves ==
  ASSUME Held, Navigate \/ AddSource \/ BeginUpdateCheck \/ CancelUpdateCheck
  PROVE  Turns \/ Moving
  <1> USE DEF Moving, OneInput, Places, TypeOK, Workspaces, screen, input, workers, reading
  <1>1. ASSUME Moves, UNCHANGED <<view, pane, dialog>>,
               SameWindow \/ NewWindow \/ (ScrollDetail /\ UNCHANGED <<seen, blind>>)
        PROVE Moving
    BY <1>1, KeyBare, NewWindowIs, ScrollIs, WindowType DEF Moves, SameWindow
  <1>2. CASE OpenHelp BY <1>2, KeyBare DEF OpenHelp
  <1>3. CASE CloseHelp BY <1>3, KeyBare DEF CloseHelp
  <1>4. ASSUME Moves, SameWindow \/ NewWindow, view' \in Workspaces \cup {"Settings"} \cup SetupViews,
               pane' \in {"list", "variants", "details"}
        PROVE Moving
    BY <1>4, KeyBare, NewWindowIs, WindowType, SetupIs DEF Moves, SameWindow
  <1>5. CASE OpenWorkspace BY <1>4, <1>5 DEF OpenWorkspace
  <1>6. CASE OpenSettings BY <1>4, <1>6 DEF OpenSettings, Held
  <1>7. CASE MovePane BY <1>4, <1>7 DEF MovePane, Panes, Held
  <1>8. CASE MoveSelection BY <1>1, <1>8, NewWindowIs DEF MoveSelection
  <1>9. CASE ScrollRegion BY <1>1, <1>9 DEF ScrollRegion
  <1>10. CASE Back
    <2>1. /\ Moves
          /\ SameWindow \/ NewWindow
          /\ pane' \in {pane, "list", "variants"}
          /\ view' \in {view, "Inventory"} \cup SetupViews
      BY <1>10, SetupIs DEF Back, EnterInventory
    <2>2. /\ view' \in Workspaces \cup {"Settings"} \cup SetupViews
          /\ pane' \in {"list", "variants", "details"}
      BY <2>1, SetupIs DEF Held
    <2>3. QED BY <1>4, <2>1, <2>2
  <1>11. CASE BeginFilter BY <1>11, KeyBare DEF BeginFilter
  <1>12. CASE FilterInput
    <2>1. /\ Key("filter") /\ filter' \in BOOLEAN /\ NewWindow
          /\ UNCHANGED <<screen, help, path, source, workers, owed>>
      BY <1>12 DEF FilterInput
    <2>2. /\ pc = "key" /\ pc' = "drain" /\ \A k \in Kinds : dialog[k] = Closed
          /\ ~help /\ ~path /\ ~source /\ TypeOK /\ Places
      BY <2>1, KeyBare
    <2>3. window' \in Windows /\ ~window'.read /\ UNCHANGED <<dialog, seen, blind>>
      BY <2>1, NewWindowIs
    <2>4. filter' => view = "Inventory" /\ pane = "list"
      <3>1. "filter" \in Open BY <2>1, KeyMeans DEF Held
      <3>2. QED BY <2>2, <3>1 DEF Open, Kinds
    <2>5. QED BY <2>1, <2>2, <2>3, <2>4, WindowType
  <1>13. ASSUME Key("screen"), UNCHANGED <<ready, input, workers, owed>>, SameWindow \/ NewWindow,
                view' \in {"Inventory"} \cup SetupViews, pane' \in {pane, "list"}
         PROVE Moving
    BY <1>4, <1>13 DEF Moves, Held
  <1>14. CASE AdvanceSetup
    <2>1. CASE Degrade
      BY <1>14, <2>1, ScreenTurns DEF AdvanceSetup, Kinds
    <2>2. CASE view = "Summary" /\ EnterInventory /\ UNCHANGED <<ready, input>> /\ NewWindow
      BY <1>13, <1>14, <2>2 DEF AdvanceSetup, EnterInventory
    <2>3. ASSUME NEW i \in DOMAIN SetupSteps \ {Len(SetupSteps)}, view' = SetupSteps[i + 1],
                 UNCHANGED <<ready, pane, input>>, SameWindow \/ NewWindow
          PROVE Moving
      <3>1. view' \in SetupViews BY <2>3, SetupIs
      <3>2. QED BY <1>13, <1>14, <2>3, <3>1 DEF AdvanceSetup
    <2>4. QED BY <1>14, <2>1, <2>2, <2>3 DEF AdvanceSetup
  <1>15. CASE RerunSetup
    <2>1. CASE Degrade
      BY <1>15, <2>1, ScreenTurns DEF RerunSetup, Kinds
    <2>2. CASE view' = "Welcome" /\ UNCHANGED <<ready, pane, input>> /\ SameWindow
      BY <1>13, <1>15, <2>2 DEF RerunSetup, SetupViews
    <2>3. QED BY <1>15, <2>1, <2>2 DEF RerunSetup
  <1>16. CASE BeginAddSource BY <1>16, KeyBare DEF BeginAddSource
  <1>17. CASE SubmitSourcePath
    <2>1. /\ pc = "key" /\ pc' = "drain" /\ \A k \in Kinds : dialog[k] = Closed
          /\ ~help /\ ~filter /\ TypeOK /\ window \in Windows
      BY <1>17, KeyBare DEF SubmitSourcePath
    <2>2. view \in {"Sources", "DiscoverSources"}
      <3>1. "path" \in Open BY <1>17, KeyMeans DEF Held, SubmitSourcePath
      <3>2. QED BY <3>1 DEF Open, Kinds, Held
    <2>3. view' \in {"Sources", "ConfirmCatalogs"} BY <1>17, <2>2 DEF SubmitSourcePath
    <2>4. QED BY <1>17, <2>1, <2>3, WindowType, SetupIs DEF SubmitSourcePath, SetupViews
  <1>18. CASE CancelSourceFlow BY <1>18, KeyBare, SetupIs DEF CancelSourceFlow, SetupViews
  <1>19. CASE ConfirmPendingSource
    <2>1. CASE Degrade
      <3>1. Alone("operation") /\ pc = "key" /\ pc' = "drain"
        BY <1>19, KeyAlone DEF ConfirmPendingSource, Held, Kinds
      <3>2. dialog["operation"] = Closed BY <1>19, KeyBare DEF ConfirmPendingSource, Kinds
      <3>3. Proper("operation", Closed) /\ Closed.phase = "none" BY ClosedIsProper DEF Kinds
      <3>4. Turn("operation", Closed) BY <2>1, <3>1, <3>3, TurnOf DEF Held, Kinds
      <3>5. owed' = {} BY <1>19, <3>1, <3>2, <3>3, NoneOwed DEF ConfirmPendingSource, Kinds
      <3>6. Paid("operation", Closed)
        BY <1>19, <3>1, <3>2, <3>3, <3>5, PaidIdle DEF ConfirmPendingSource, Held, Kinds
      <3>7. QED BY <3>3, <3>4, <3>6 DEF Turns, Kinds, Proper
    <2>2. CASE /\ path' = FALSE /\ source' = FALSE
               /\ view' = IF view = "ConfirmCatalogs" THEN "ScanInstallations" ELSE view
               /\ UNCHANGED <<ready, pane, help, filter>> /\ NewWindow
      BY <1>19, <2>2, KeyBare, NewWindowIs, WindowType, SetupIs DEF ConfirmPendingSource, SetupViews
    <2>3. QED BY <1>19, <2>1, <2>2 DEF ConfirmPendingSource
  <1>20. CASE BeginUpdateCheck BY <1>20, KeyBare, WindowType DEF BeginUpdateCheck
  <1>21. CASE CancelUpdateCheck BY <1>21, KeyBare, WindowType DEF CancelUpdateCheck
  <1>22. QED
    BY <1>2, <1>3, <1>5, <1>6, <1>7, <1>8, <1>9, <1>10, <1>11, <1>12, <1>14, <1>15, <1>16,
       <1>17, <1>18, <1>19, <1>20, <1>21 DEF Navigate, AddSource

-----------------------------------------------------------------------------
(* The invariant *)

LEMMA TurnHolds == ASSUME Inv, Turns PROVE Inv'
  <1>1. PICK kind \in Kinds, prompt \in Prompts : Turn(kind, prompt) /\ Paid(kind, prompt)
    BY DEF Turns
  <1> USE <1>1 DEF Turn, Paid
  <1>2. dialog'[kind] = prompt /\ \A k \in Kinds \ {kind} : dialog'[k] = Closed
    BY DEF Only
  <1>3. Shaped'
    BY <1>2, ClosedIsProper DEF Shaped, Only, AtTop, Windows, Alone
  <1>4. TypeOK'
    <2>1. window'.offset = 0 /\ window'.most = 0 BY DEF AtTop
    <2>2. owed' \subseteq Kinds OBVIOUS
    <2>3. view' \in Setup \cup Workspaces \cup {"Settings"} BY DEF Inv, TypeOK, Workspaces
    <2>4. pane' \in {"list", "variants", "details"} BY DEF Inv, TypeOK
    <2>5. {help', filter', path', source', blind'} \subseteq BOOLEAN OBVIOUS
    <2>6. QED BY <2>1, <2>2, <2>3, <2>4, <2>5 DEF TypeOK
  <1>5. Single' /\ Places'
    <2>1. Open' \subseteq {kind} BY <1>2, ClosedIsProper DEF Open
    <2>2. QED BY <2>1 DEF Single, Places
  <1>6. Waits'
    <2>1. prompt.phase \in {"Checking", "Applying"} => kind = "vendored" BY DEF Proper
    <2>2. dialog'["vendored"].phase \in {"Checking", "Applying"} => kind = "vendored"
      BY <1>2, ClosedIsProper DEF Kinds
    <2>3. QED BY <1>2, <2>1, <2>2 DEF Waits
  <1>7. Owing' BY <1>2 DEF Owing
  <1>8. Seeing'
    <2>1. window'.offset = 0 /\ ~window'.read /\ ~window'.measured BY DEF AtTop
    <2>2. ASSUME NEW r \in 1..prompt.rows, r <= 0 PROVE FALSE BY <2>2 DEF Prompts
    <2>3. QED BY <1>2, <2>1, <2>2, ClosedIsProper DEF Seeing, Read
  <1>9. QED BY <1>3, <1>4, <1>5, <1>6, <1>7, <1>8 DEF Inv

LEMMA MoveHolds == ASSUME Inv, Moving PROVE Inv'
  <1> USE DEF Inv, Moving
  <1>1. Shaped' BY DEF Shaped
  <1>2. Single' BY ClosedIsProper DEF Single, Open, OneInput
  <1>3. Waits' BY DEF Waits
  <1>4. Owing' BY DEF Owing
  <1>5. Seeing'
    <2>1. \A k \in Kinds : dialog[k].phase = "none" BY ClosedIsProper
    <2>2. QED BY <2>1 DEF Seeing, Kinds
  <1>6. QED BY <1>1, <1>2, <1>3, <1>4, <1>5

\* A dialog that is drawn is the one that is open.
LEMMA DrawnDialog ==
  ASSUME Held, NEW k \in Kinds, dialog[k].phase # "none"
  PROVE  Drawn = k /\ DialogDrawn /\ Open \cap Kinds # {} /\ \A o \in Kinds \ {k} : dialog[o] = Closed
  <1>1. k \in Open BY DEF Open
  <1>2. Drawn = k BY <1>1, DrawnOf DEF Held, Kinds
  <1>3. \A o \in Kinds \ {k} : dialog[o] = Closed
    BY <1>1 DEF Held, Single, Open, Shaped, Proper
  <1>4. QED BY <1>1, <1>2, <1>3 DEF DialogDrawn

LEMMA NoteIs ==
  ASSUME window \in Windows, NEW most \in Nat, NEW r \in BOOLEAN,
         window' = [NoteMaxScroll(most) EXCEPT !.read = r]
  PROVE  /\ window' \in Windows
         /\ window'.offset = Least(window.offset, most) /\ window'.most = most
         /\ window'.read = r
  <1>1. PICK noted : noted = NoteMaxScroll(most) OBVIOUS
  <1>2. noted \in Windows /\ noted.offset = Least(window.offset, most) /\ noted.most = most
    BY <1>1 DEF NoteMaxScroll, Windows, Least
  <1>3. window' = [noted EXCEPT !.read = r] BY <1>1
  <1>4. QED BY <1>2, <1>3 DEF Windows

LEMMA NotDrawnIs ==
  ASSUME window \in Windows, window' = NoteNotDrawn
  PROVE  /\ window' \in Windows
         /\ window'.offset = window.offset /\ window'.most = window.most
         /\ window'.read = window.read /\ window'.measured = FALSE
  BY DEF NoteNotDrawn, Windows

LEMMA DrawHolds == ASSUME Inv, Draw PROVE Inv'
  <1> USE DEF Inv
  <1>1. PICK height \in Heights :
          IF height = 0
          THEN window' = NoteNotDrawn /\ UNCHANGED seen
          ELSE /\ \/ \E most \in Extents(height) :
                       window' = [NoteMaxScroll(most) EXCEPT
                                    !.read = window.read \/ StatementRead(height)]
                  \/ Open \cap Kinds = {} /\ ~DetailRegion /\ window' = NoteNotDrawn
               /\ seen' = IF DialogDrawn
                          THEN seen \cup {r \in 1..dialog[Drawn].rows :
                                 window.offset < r /\ r <= window.offset + height}
                          ELSE seen
    BY DEF Draw
  <1>2. /\ height \in Nat /\ pc = "draw" /\ pc' = "key"
        /\ UNCHANGED <<screen, input, dialog, workers, blind, owed>>
    BY HeightsAssumption DEF Draw
  <1>3. UNCHANGED Open BY <1>2 DEF Open, input
  <1>4. \A k \in Kinds : dialog[k].rows \in Nat /\ dialog[k].ask \in Nat BY DEF Shaped, Proper, Prompts
  <1>5. \A most \in Extents(height) : most \in Nat
    <2>1. ASSUME Open \cap Kinds # {} PROVE Drawn \in Kinds
      <3>1. PICK k \in Kinds : k \in Open BY <2>1
      <3>2. QED BY <3>1, DrawnOf DEF Kinds
    <2>2. QED BY <1>2, <1>4, <2>1 DEF Extents, Beyond, DetailExtents
  <1>6. /\ window' \in Windows
        /\ window'.offset = window.offset \/ window'.offset = Least(window.offset, window'.most)
        /\ window'.read => window.read \/ (StatementRead(height) /\ height # 0)
        /\ height = 0 => window'.offset = window.offset /\ window'.measured = FALSE
        /\ height # 0 /\ Open \cap Kinds # {} =>
             window'.most \in Extents(height) /\ window'.offset = Least(window.offset, window'.most)
    <2>1. (window.read \/ StatementRead(height)) \in BOOLEAN OBVIOUS
    <2>2. window \in Windows BY DEF Shaped
    <2>3. CASE window' = NoteNotDrawn /\ (height = 0 \/ Open \cap Kinds = {})
      BY <2>2, <2>3, NotDrawnIs
    <2>4. ASSUME NEW most \in Extents(height), height # 0,
                 window' = [NoteMaxScroll(most) EXCEPT !.read = window.read \/ StatementRead(height)]
          PROVE /\ window' \in Windows
                /\ window'.offset = Least(window.offset, most) /\ window'.most = most
                /\ window'.read = (window.read \/ StatementRead(height))
      BY <1>5, <2>1, <2>2, <2>4, NoteIs
    <2>5. ASSUME NEW most \in Extents(height), height # 0,
                 window' = [NoteMaxScroll(most) EXCEPT !.read = window.read \/ StatementRead(height)]
          PROVE /\ window' \in Windows
                /\ window'.offset = Least(window.offset, most) /\ window'.most = most
                /\ window'.read => window.read \/ StatementRead(height)
      BY <2>4, <2>5
    <2>6. QED BY <1>1, <2>3, <2>5
  <1>7. Shaped' BY <1>2, <1>6 DEF Shaped
  <1>8. TypeOK'
    <2>1. window'.offset \in Nat /\ window'.most \in Nat BY <1>6 DEF Windows
    <2>2. QED BY <1>2, <2>1 DEF TypeOK, screen, input, workers
  <1>9. Single' /\ Places' /\ Waits' /\ Owing'
    BY <1>2, <1>3 DEF Single, Places, Waits, Owing, screen, input, workers
  <1>10. Seeing'
    <2> SUFFICES ASSUME ~blind PROVE Seeing' BY <1>2 DEF Seeing
    <2>1. ASSUME NEW k \in Kinds, dialog[k].phase # "none"
          PROVE /\ Read(dialog[k].rows)'
                /\ StatementRead(height) /\ height # 0 =>
                     dialog["update"].phase = "Preview" /\ 1..dialog["update"].ask \subseteq seen'
      <3>1. /\ Drawn = k /\ DialogDrawn /\ Open \cap Kinds # {}
            /\ \A o \in Kinds \ {k} : dialog[o] = Closed
        BY <2>1, DrawnDialog DEF Held
      <3>2. \A r \in 1..dialog[k].rows : r <= window.offset => r \in seen
        BY <2>1 DEF Seeing, Read
      <3>3. CASE height = 0
        <4>1. UNCHANGED seen /\ window'.offset = window.offset /\ ~window'.measured
          BY <1>1, <1>6, <3>3
        <4>2. QED BY <1>2, <3>2, <3>3, <4>1 DEF Read
      <3>4. CASE height # 0
        <4>1. PICK most \in Nat : /\ most = Beyond(dialog[k].rows, height)
                                  /\ window'.offset = Least(window.offset, most)
                                  /\ window'.most = most
          BY <1>5, <1>6, <3>1, <3>4 DEF Extents
        <4>2. seen' = seen \cup {r \in 1..dialog[k].rows :
                                   window.offset < r /\ r <= window.offset + height}
          BY <1>1, <3>1, <3>4
        <4>3. \A r \in 1..dialog[k].rows : r <= window.offset + height => r \in seen'
          <5>1. window.offset \in Nat /\ dialog[k].rows \in Nat BY <1>4 DEF Shaped, Windows
          <5>2. QED BY <3>2, <4>2, <5>1
        <4>4. window'.offset <= window.offset /\ window.offset \in Nat /\ window'.offset \in Nat
          BY <1>6, <4>1 DEF Least, Shaped, Windows
        <4>5. Read(dialog[k].rows)'
          <5>1. \A r \in 1..dialog[k].rows : r <= window'.offset + height => r \in seen'
            BY <1>2, <1>4, <4>3, <4>4
          <5>2. \A r \in 1..dialog[k].rows : r <= window'.offset => r \in seen'
            BY <1>2, <1>4, <4>4, <5>1
          <5>3. height \in Nat \ {0} BY <1>2, <3>4
          <5>4. UNCHANGED dialog BY <1>2
          <5>5. QED BY <4>1, <5>1, <5>2, <5>3, <5>4 DEF Read
        <4>6. ASSUME StatementRead(height)
              PROVE dialog["update"].phase = "Preview" /\ 1..dialog["update"].ask \subseteq seen'
          <5>1. dialog["update"].phase = "Preview" /\ window.offset >= Beyond(dialog["update"].ask, height)
            BY <4>6 DEF StatementRead
          <5>2. k = "update" BY <3>1, <5>1, ClosedIsProper DEF Kinds
          <5>3. dialog[k].ask <= dialog[k].rows BY <5>1, <5>2 DEF Shaped, Proper
          <5>4. dialog[k].ask <= window.offset + height
            BY <1>2, <1>4, <4>4, <5>1, <5>2 DEF Beyond
          <5>5. QED BY <1>2, <1>4, <4>3, <4>4, <5>1, <5>2, <5>3, <5>4
        <4>7. QED BY <4>5, <4>6
      <3>5. QED BY <3>3, <3>4
    <2>2. UNCHANGED <<dialog, blind>> /\ seen \subseteq seen' BY <1>1, <1>2
    <2>3. window'.read => window.read \/ (StatementRead(height) /\ height # 0)
      BY <1>6
    <2>4. window.read => dialog["update"].phase = "Preview" /\ 1..dialog["update"].ask \subseteq seen
      BY DEF Seeing
    <2>5. StatementRead(height) => \E k \in Kinds : dialog[k].phase # "none"
      BY DEF StatementRead, Kinds
    <2>6. window'.read => dialog'["update"].phase = "Preview" /\ 1..dialog'["update"].ask \subseteq seen'
      BY <2>1, <2>2, <2>3, <2>4, <2>5
    <2>7. \A k \in Kinds : dialog'[k].phase # "none" => Read(dialog[k].rows)' BY <2>1, <2>2
    <2>8. QED BY <2>6, <2>7 DEF Seeing
  <1>11. QED BY <1>7, <1>8, <1>9, <1>10

LEMMA ScrollHolds == ASSUME Inv, NEW kind \in Kinds, ScrollDialog(kind) PROVE Inv'
  <1> USE DEF Inv
  <1>1. /\ Key(kind) /\ pc = "key" /\ pc' = "drain"
        /\ blind' = (blind \/ ~window.measured)
        /\ UNCHANGED <<screen, input, dialog, workers, seen, owed>>
    BY DEF ScrollDialog, Key
  <1>2. /\ window' \in Windows /\ window'.most = window.most
        /\ window'.read = window.read /\ window'.measured = window.measured
        /\ window'.offset \in {window.most, window.offset, window.offset + 1, Beyond(window.offset, 1)}
        /\ window'.offset <= window.most
    BY ScrollIs DEF ScrollDialog, Shaped
  <1>3. Shaped' BY <1>1, <1>2 DEF Shaped
  <1>4. TypeOK'
    <2>1. window'.offset \in Nat /\ window'.most \in Nat BY <1>2 DEF Windows
    <2>2. blind' \in BOOLEAN BY <1>1
    <2>3. QED BY <1>1, <2>1, <2>2 DEF TypeOK, screen, input, workers
  <1>5. Single' /\ Places' /\ Waits' /\ Owing'
    BY <1>1 DEF Single, Open, Places, Waits, Owing, screen, input, workers
  <1>6. Seeing'
    <2> SUFFICES ASSUME ~blind, window.measured PROVE Seeing' BY <1>1 DEF Seeing
    <2>1. ASSUME NEW k \in Kinds, dialog[k].phase # "none" PROVE Read(dialog[k].rows)'
      <3>1. PICK h \in Nat \ {0} :
              /\ window.most = Beyond(dialog[k].rows, h)
              /\ \A r \in 1..dialog[k].rows : r <= window.offset + h => r \in seen
        BY <1>1, <2>1 DEF Seeing, Read
      <3>2. /\ window.offset \in Nat /\ window.most \in Nat /\ window'.offset \in Nat
            /\ dialog[k].rows \in Nat
        BY <1>2 DEF Shaped, Windows, Proper, Prompts
      <3>3. window'.offset <= window.offset + h \/ window'.offset = window.most
        BY <1>2, <3>2 DEF Beyond
      <3>4. window'.offset <= window.offset + h
        <4>1. window'.offset \in {window.offset, window.offset + 1, Beyond(window.offset, 1)}
              \/ window'.offset <= window.offset + 1
          BY <1>1, <1>2, <3>2 DEF ScrollDialog, ScrollDetail, Least, Beyond, Shaped, Windows
        <4>2. QED BY <3>2, <4>1 DEF Beyond
      <3>5. \A r \in 1..dialog[k].rows : r <= window'.offset => r \in seen
        BY <3>1, <3>2, <3>4
      <3>6. QED BY <1>1, <3>5 DEF Read
    <2>2. window'.read => dialog'["update"].phase = "Preview" /\ 1..dialog'["update"].ask \subseteq seen'
      BY <1>1, <1>2 DEF Seeing
    <2>3. QED BY <1>1, <2>1, <2>2 DEF Seeing
  <1>7. QED BY <1>3, <1>4, <1>5, <1>6

\* The loop going on, a worker, and leaving.
LEMMA AsideHolds ==
  ASSUME Inv, Idle \/ Quit \/ Leave \/ Worker \/ (pc = "drain" /\ pc' = "draw" /\ NothingToDrain
                                               /\ updating' \in {"none", updating})
  PROVE  Inv'
  <1> USE DEF Inv
  <1>1. /\ pc' \in {"drain", "draw", "leaving", "done", pc}
        /\ UNCHANGED <<screen, input, reading, owed>>
        /\ dialog' \in {dialog, [dialog EXCEPT !["vendored"] = Closed]}
    BY DEF Idle, Quit, Leave, Worker, NothingToDrain
  <1>2. \A k \in Kinds : dialog'[k] = dialog[k] \/ (k = "vendored" /\ dialog'[k] = Closed)
    BY <1>1 DEF Shaped, Kinds
  <1>3. Shaped'
    BY <1>1, <1>2, ClosedIsProper DEF Shaped, reading
  <1>4. TypeOK'
    <2>1. /\ check' \in {"none", "running"} \cup Ended /\ apply' \in {"none", "running"} \cup Ended
          /\ updating' \in {"none", "running"} \cup Ended
      BY DEF TypeOK, Idle, Quit, Leave, Worker, NothingToDrain, workers, CheckAnswers, ApplyAnswers,
         UpdatesAnswer
    <2>2. QED BY <1>1, <2>1 DEF TypeOK, screen, input, reading
  <1>5. Single' /\ Places'
    <2>1. Open' \subseteq Open BY <1>1, <1>2, ClosedIsProper DEF Open, input, Kinds
    <2>2. QED BY <1>1, <2>1 DEF Single, Places, screen, input
  <1>6. Waits'
    <2>1. CASE Quit
      <3>1. check' = "none" /\ UNCHANGED apply /\ pc' = "leaving" BY <2>1 DEF Quit
      <3>2. dialog'["vendored"].phase # "Checking"
        <4>1. CASE check = "none" BY <2>1, <4>1 DEF Quit, Waits
        <4>2. CASE check # "none"
          <5>1. dialog'["vendored"] = Closed BY <2>1, <4>2 DEF Quit, Shaped, Kinds
          <5>2. QED BY <5>1, ClosedIsProper
        <4>3. QED BY <4>1, <4>2
      <3>3. QED BY <3>1, <3>2 DEF Waits
    <2>2. CASE Worker
      BY <2>2 DEF Worker, Waits, CheckAnswers, ApplyAnswers, UpdatesAnswer, Ended
    <2>3. CASE Leave BY <2>3 DEF Leave, Waits
    <2>4. CASE Idle BY <2>4 DEF Idle, Waits, workers
    <2>5. CASE NothingToDrain /\ pc = "drain" BY <2>5 DEF NothingToDrain, Waits
    <2>6. QED BY <2>1, <2>2, <2>3, <2>4, <2>5
  <1>7. Owing'
    <2>1. ASSUME NEW k \in owed PROVE dialog'[k] = dialog[k]
      <3>1. dialog[k].phase \in {"Applying", "Report"} BY DEF Owing
      <3>2. CASE Quit
        <4>1. check # "none" => dialog["vendored"].phase = "Checking" BY DEF Waits
        <4>2. QED BY <3>1, <3>2, <4>1 DEF Quit, Shaped
      <3>3. QED BY <3>2 DEF Idle, Leave, Worker, NothingToDrain
    <2>2. QED BY <1>1, <2>1 DEF Owing
  <1>8. Seeing'
    <2>1. pc' = "key" => pc = "key" BY <1>1
    <2>2. UNCHANGED <<window, seen, blind>> BY <1>1 DEF reading
    <2>3. \A k \in Kinds : dialog'[k].phase # "none" => dialog'[k] = dialog[k]
      BY <1>2, ClosedIsProper
    <2>4. \A n : Read(n) => Read(n)' BY <2>1, <2>2 DEF Read
    <2>5. dialog'["update"] = dialog["update"] BY <1>2 DEF Kinds
    <2>6. QED BY <2>2, <2>3, <2>4, <2>5 DEF Seeing
  <1>9. QED BY <1>3, <1>4, <1>5, <1>6, <1>7, <1>8

LEMMA InitHolds == Init => Inv
  <1> SUFFICES ASSUME Init PROVE Inv OBVIOUS
  <1>1. \A k \in Kinds : dialog[k] = Closed BY DEF Init, NoDialogs
  <1>2. Open = {} BY <1>1, ClosedIsProper DEF Open, Init
  <1>3. TypeOK BY SetupIs DEF Init, TypeOK, Workspaces, SetupViews
  <1>4. Shaped BY <1>1, ClosedIsProper DEF Init, Shaped, Windows, NoDialogs
  <1>5. Single /\ Places BY <1>2 DEF Init, Single, Places
  <1>6. Waits /\ Owing BY <1>1, ClosedIsProper DEF Init, Waits, Owing, Kinds
  <1>7. Seeing BY <1>1, ClosedIsProper DEF Init, Seeing
  <1>8. QED BY <1>3, <1>4, <1>5, <1>6, <1>7 DEF Inv

LEMMA InvHeld == Inv => Held
  BY DEF Inv, Held

\* What a step is.
LEMMA Steps ==
  ASSUME Inv, Next
  PROVE  \/ Turns \/ Moving \/ Draw \/ \E kind \in Kinds : ScrollDialog(kind)
         \/ Idle \/ Quit \/ Leave \/ Worker
         \/ pc = "drain" /\ pc' = "draw" /\ NothingToDrain /\ updating' \in {"none", updating}
  <1>1. CASE Drain
    <2>1. /\ pc = "drain" /\ pc' = "draw" /\ updating' \in {"none", updating}
          /\ updating' \in {"none", "running"} \cup Ended
      BY <1>1 DEF Drain, Inv, TypeOK
    <2>2. QED BY <1>1, <2>1, InvHeld, DrainCheckTurns, DrainApplyTurns DEF Drain
  <1>2. CASE User
    <2>1. CASE Apply BY <2>1, InvHeld, ApplyTurns
    <2>2. CASE Begin BY <2>2, InvHeld, BeginTurns, NavigateMoves DEF Begin
    <2>3. CASE Navigate \/ AddSource BY <2>3, InvHeld, NavigateMoves
    <2>4. ASSUME NEW kind \in Kinds, Dismiss(kind) PROVE Turns BY <2>4, InvHeld, DismissTurns
    <2>5. QED BY <1>2, <2>1, <2>2, <2>3, <2>4 DEF User
  <1>3. QED BY <1>1, <1>2 DEF Next, Loop

LEMMA NextHolds == ASSUME Inv, [Next]_vars PROVE Inv'
  <1>1. CASE Next
    BY <1>1, Steps, TurnHolds, MoveHolds, DrawHolds, ScrollHolds, AsideHolds
  <1>2. CASE UNCHANGED vars
    BY <1>2 DEF vars, screen, input, reading, workers, Inv, TypeOK, Shaped, Single, Open, Places,
       Waits, Owing, Seeing, Read
  <1>3. QED BY <1>1, <1>2

LEMMA InvHolds == ShellSpec => []Inv
  <1>1. QED BY InitHolds, NextHolds, PTL DEF ShellSpec

-----------------------------------------------------------------------------
(* Theorems *)

(* In any session the variables have their types, with dialogs and frames of  *)
(* any size.                                                                  *)
THEOREM TypeCorrect == ShellSpec => []TypeOK
  BY InvHolds, PTL DEF Inv

(* No two dialogs, bars or entries are open at once, so a key reaches what    *)
(* the user sees: the orders of input.rs, app.rs and tui.rs do not matter.    *)
THEOREM KeyboardFollowsScreen == ShellSpec => []KeyboardIsOnScreen
  <1>1. ASSUME Inv PROVE KeyboardIsOnScreen
    <2> USE <1>1 DEF Inv
    <2>1. CASE Open = {}
      <3>1. Keyboard = "screen" /\ Reducer = "screen" /\ Drawn = "screen"
        BY <2>1, KeyboardOf, ReducerOf, DrawnOf
      <3>2. QED BY <3>1 DEF KeyboardIsOnScreen, Kinds
    <2>2. ASSUME NEW x \in Open PROVE KeyboardIsOnScreen
      <3>1. Keyboard = x BY KeyboardOf
      <3>2. Open = {x} /\ x \in Sites BY OpenSites DEF Single
      <3>3. Reducer = IF x \in {"path", "source"} THEN "screen" ELSE x
        BY <3>2, ReducerOf
      <3>4. CASE x \in {"filter", "source"}
        <4>1. Drawn \in {"screen"} \cup (Open \ {"filter"}) BY <3>2, <3>4, DrawnOf
        <4>2. x = "source" => source BY DEF Open, Kinds
        <4>3. x = "filter" => filter BY DEF Open, Kinds
        <4>4. QED BY <3>1, <3>2, <3>3, <3>4, <4>1, <4>2, <4>3 DEF KeyboardIsOnScreen, Places, Kinds
      <3>5. CASE x \notin {"filter", "source"}
        <4>1. Drawn = x BY <3>5, DrawnOf
        <4>2. x \notin {"screen", "source", "filter"} BY <3>2, <3>5 DEF Sites, Kinds
        <4>3. QED BY <3>1, <3>3, <4>1, <4>2 DEF KeyboardIsOnScreen
      <3>6. QED BY <3>4, <3>5
    <2>3. QED BY <2>1, <2>2
  <1>2. QED BY <1>1, InvHolds, PTL

(* A write that began is running under its dialog or has its report up until  *)
(* the user dismisses it, whatever it or another attempt did to the metadata. *)
THEOREM WritesHaveReports == ShellSpec => []WritesAreReported
  <1>1. Inv => WritesAreReported BY DEF Inv, Owing, WritesAreReported
  <1>2. QED BY <1>1, InvHolds, PTL

(* No write starts before every row of its question was on screen, whatever   *)
(* the sizes of the terminal, for a reader who did not scroll blindly.        *)
THEOREM QuestionsWereShown == ShellSpec => ConfirmedWasShown
  <1> DEFINE Shown == \A kind \in Kinds : Starts(kind) /\ ~blind => 1..dialog[kind].ask \subseteq seen
  <1>1. ASSUME Inv, [Next]_vars PROVE Shown
    <2> USE <1>1
    <2> SUFFICES ASSUME NEW kind \in Kinds, kind \in owed' \ owed, ~blind
                 PROVE 1..dialog[kind].ask \subseteq seen
      BY DEF Starts
    <2>1. pc = "key" /\ CanConfirm(kind)
      <3>1. CASE Turns BY <3>1 DEF Turns, Paid
      <3>2. owed' = owed \/ Turns
        BY Steps DEF vars, Moving, Draw, ScrollDialog, Idle, Quit, Leave, Worker, NothingToDrain
      <3>3. QED BY <3>1, <3>2
    <2>2. dialog[kind].phase = "Preview" BY <2>1 DEF CanConfirm
    <2>3. CASE kind = "update" BY <2>1, <2>3 DEF CanConfirm, Inv, Seeing
    <2>4. CASE kind # "update"
      <3>1. window.measured /\ window.offset >= window.most BY <2>1, <2>4 DEF CanConfirm, FullySeen
      <3>2. dialog[kind].ask = dialog[kind].rows /\ dialog[kind].rows \in Nat
        BY <2>2, <2>4 DEF Inv, Shaped, Proper, Prompts
      <3>3. PICK h \in Nat \ {0} :
              /\ window.most = Beyond(dialog[kind].rows, h)
              /\ \A r \in 1..dialog[kind].rows : r <= window.offset + h => r \in seen
        BY <2>1, <2>2, <3>1 DEF Inv, Seeing, Read
      <3>4. window.offset \in Nat BY DEF Inv, Shaped, Windows
      <3>5. dialog[kind].rows <= window.offset + h BY <3>1, <3>2, <3>3, <3>4 DEF Beyond
      <3>6. QED BY <3>2, <3>3, <3>4, <3>5
    <2>5. QED BY <2>3, <2>4
  <1>2. QED BY <1>1, InvHolds, PTL DEF ShellSpec, ConfirmedWasShown

(* A worker's answer finds the dialog that waits for it, with no other dialog *)
(* open, and changes no other.                                                *)
THEOREM AnswersMeet == ShellSpec => AnswersMeetTheirQuestion
  <1> DEFINE Met == Drain /\ dialog' # dialog =>
               /\ dialog["vendored"].phase \in {"Checking", "Applying"}
               /\ \A kind \in Kinds \ {"vendored"} : dialog[kind] = Closed /\ dialog'[kind] = Closed
  <1>1. ASSUME Inv, [Next]_vars PROVE Met
    <2> USE <1>1
    <2> SUFFICES ASSUME Drain, dialog' # dialog
                 PROVE /\ dialog["vendored"].phase \in {"Checking", "Applying"}
                       /\ \A kind \in Kinds \ {"vendored"} :
                            dialog[kind] = Closed /\ dialog'[kind] = Closed
      OBVIOUS
    <2>1. /\ DrainVendoredCheck \/ DrainVendoredApply
          /\ pc = "drain" /\ pc' = "draw" /\ updating' \in {"none", "running"} \cup Ended
      BY DEF Drain, NothingToDrain, Inv, TypeOK
    <2>2. check # "none" \/ apply # "none" BY <2>1 DEF DrainVendoredCheck, DrainVendoredApply, Ended
    <2>3. dialog["vendored"].phase \in {"Checking", "Applying"} BY <2>1, <2>2 DEF Inv, Waits
    <2>4. Alone("vendored") BY <2>1, <2>2, DrainAlone DEF Inv
    <2>5. Turns BY <2>1, InvHeld, DrainCheckTurns, DrainApplyTurns
    <2>6. PICK kind \in Kinds, prompt \in Prompts : Turn(kind, prompt) BY <2>5 DEF Turns
    <2>7. kind = "vendored"
      BY <2>3, <2>6, ClosedIsProper DEF Turn, Alone, Kinds
    <2>8. QED BY <2>3, <2>4, <2>6, <2>7 DEF Turn, Alone, Only
  <1>2. QED BY <1>1, InvHolds, PTL DEF ShellSpec, AnswersMeetTheirQuestion
=============================================================================

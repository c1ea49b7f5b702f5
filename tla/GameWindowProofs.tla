-------------------------- MODULE GameWindowProofs --------------------------
(***************************************************************************)
(* Proofs about GameWindow, for every board, every duration and any number *)
(* of messages: what a frame shows of the countdown and of a refusal.      *)
(***************************************************************************)
EXTENDS GameWindow, TLAPS

Types ==
    /\ inbox \in Seq(Messages)
    /\ receiver \in [board : Boards \cup {None}, outcome : Outcomes,
                     countdown : Nat \cup {None}, error : Reasons \cup {None}]
    /\ count \in [left : Nat \cup {None}, server : Nat \cup {None}]
    /\ message \in [text : Reasons \cup {None}, left : Nat]

\* The window counts as long as the receiver did when it last looked.
CountPaired == count.left = None <=> count.server = None

IInv == Types /\ CountPaired

\* Neither side counts at first.
LEMMA InitInvariant == Init => IInv
  BY WindowAssumption DEF Init, IInv, Types, CountPaired, Outcomes

-----------------------------------------------------------------------------
(* One lemma for each step that touches what the invariant is about.       *)

\* A message joins the line.
LEMMA StepSays ==
    ASSUME IInv, Says
    PROVE  IInv'
<1>1. PICK m \in Messages : inbox' = Append(inbox, m)
  BY DEF Says
<1>2. inbox' \in Seq(Messages)
  BY <1>1 DEF IInv, Types
<1>3. UNCHANGED <<receiver, count, message>>
  BY DEF Says, window
<1>. QED BY <1>2, <1>3 DEF IInv, Types, CountPaired

\* The receiver takes a message, and its count with it.
LEMMA StepReceive ==
    ASSUME IInv, Receive
    PROVE  /\ IInv'
           /\ receiver'.error = receiver.error \/ receiver'.error \in Reasons
<1> DEFINE m == Head(inbox)
<1>1. Types /\ Feed(m) /\ inbox # <<>> /\ inbox' = Tail(inbox)
      /\ UNCHANGED <<count, message>>
  BY DEF IInv, Receive, server, window
<1>2. m \in Messages /\ inbox' \in Seq(Messages)
  BY <1>1 DEF Types
<1> HIDE DEF m
<1>3. /\ receiver' \in [board : Boards \cup {None}, outcome : Outcomes,
                        countdown : Nat \cup {None}, error : Reasons \cup {None}]
      /\ receiver'.error = receiver.error \/ receiver'.error \in Reasons
  <2>1. CASE m \in [type : {"snapshot"}, board : Boards, outcome : Outcomes]
    <3>1. receiver' = [receiver EXCEPT !.board = m.board, !.outcome = m.outcome,
                                       !.countdown = IF m.outcome = "on" THEN @ ELSE None]
      BY <1>1, <2>1 DEF Feed
    <3>. QED BY <1>1, <2>1, <3>1 DEF Types
  <2>2. CASE m \in [type : {"error"}, reason : Reasons]
    <3>1. receiver' = [receiver EXCEPT !.error = m.reason]
      BY <1>1, <2>2 DEF Feed
    <3>. QED BY <1>1, <2>2, <3>1 DEF Types
  <2>3. CASE m \in [type : Absence]
    <3>1. \E left \in {AutoResign, None} : receiver' = [receiver EXCEPT !.countdown = left]
      BY <1>1, <2>3 DEF Feed, Absence
    <3>. QED BY <1>1, <3>1, WindowAssumption DEF Types
  <2>. QED BY <1>2, <2>1, <2>2, <2>3 DEF Messages
<1>. QED BY <1>1, <1>2, <1>3 DEF IInv, Types, CountPaired

\* The window's countdown after a look at the receiver's.
LEMMA CountedPaired ==
    ASSUME IInv
    PROVE  /\ Counted \in [left : Nat \cup {None}, server : Nat \cup {None}]
           /\ Counted.server = receiver.countdown
           /\ Counted.left = None <=> receiver.countdown = None
<1>1. /\ receiver.countdown \in Nat \cup {None}
      /\ count \in [left : Nat \cup {None}, server : Nat \cup {None}]
      /\ count.left = None <=> count.server = None
  BY DEF IInv, Types, CountPaired
<1>2. CASE receiver.countdown # count.server
  BY <1>1, <1>2 DEF Counted
<1>3. CASE receiver.countdown = count.server /\ count.left = None
  BY <1>1, <1>3 DEF Counted
<1>4. CASE receiver.countdown = count.server /\ count.left # None
  <2>1. count.left \in Nat /\ Less(count.left) \in Nat /\ Less(count.left) # None
    BY <1>1, <1>4, WindowAssumption DEF Less
  <2>2. Counted = [count EXCEPT !.left = Less(count.left)]
    BY <1>4 DEF Counted
  <2>. QED BY <1>1, <1>4, <2>1, <2>2
<1>. QED BY <1>2, <1>3, <1>4

\* A frame looks at the receiver: the two counts meet here.
LEMMA StepDraw ==
    ASSUME IInv, Draw
    PROVE  IInv'
<1>1. /\ Types
      /\ count' = Counted /\ message' = Popped
      /\ receiver' = [receiver EXCEPT !.error = None]
      /\ inbox' = inbox
  BY DEF IInv, Draw, server
<1>2. message' \in [text : Reasons \cup {None}, left : Nat]
  BY <1>1, WindowAssumption DEF Types, Popped, Less
<1>3. receiver' \in [board : Boards \cup {None}, outcome : Outcomes,
                     countdown : Nat \cup {None}, error : Reasons \cup {None}]
  BY <1>1 DEF Types
<1>4. CountPaired' /\ count' \in [left : Nat \cup {None}, server : Nat \cup {None}]
  BY <1>1, CountedPaired DEF CountPaired
<1>. QED BY <1>1, <1>2, <1>3, <1>4 DEF IInv, Types

\* Nothing else touches a count or a refusal.
LEMMA StepElsewhere ==
    ASSUME IInv,
           LineBreaks \/ Drain \/ Sent \/ Drained \/ NoKey \/ Wake \/ Key \/ Mouse
    PROVE  IInv' /\ UNCHANGED receiver
<1>1. UNCHANGED <<inbox, receiver, count, message>>
  BY DEF LineBreaks, Drain, Sent, Drained, NoKey, Wake, Key, Mouse, server, window
<1>. QED BY <1>1 DEF IInv, Types, CountPaired

\* Every step keeps the invariant.
LEMMA StepInvariant ==
    ASSUME IInv, [Next]_vars
    PROVE  IInv'
<1>1. CASE UNCHANGED vars
  BY <1>1 DEF IInv, Types, CountPaired, vars, server, window
<1>. QED BY <1>1, StepSays, StepReceive, StepDraw, StepElsewhere DEF Next

\* The invariant holds of every behaviour.
THEOREM Invariance == Spec => []IInv
  BY InitInvariant, StepInvariant, PTL DEF Spec

-----------------------------------------------------------------------------
(* The action properties.                                                  *)

\* Whatever the receiver is fed between two frames, and however long the window
\* has counted by itself, a frame shows a countdown just when one runs
\* (client/render_loop.py).
THEOREM FramesFollow == Spec => CountdownFollows
<1>1. IInv /\ [Next]_vars =>
        [frame = "draw" /\ frame' = "drain" =>
            (count'.left = None <=> receiver.countdown = None)]_vars
  <2> SUFFICES ASSUME IInv, [Next]_vars, frame = "draw", frame' = "drain"
               PROVE  count'.left = None <=> receiver.countdown = None
    OBVIOUS
  <2>1. Draw
    BY DEF Next, vars, Says, LineBreaks, Receive, Drain, Sent, Drained, NoKey, Wake, Key,
           Mouse, Sends, Fails
  <2>. QED BY <2>1, CountedPaired DEF Draw
<1>. QED BY <1>1, Invariance, PTL DEF Spec, CountdownFollows

\* A refusal leaves the receiver only for the board, for a newer refusal, or
\* when something that goes before it is in its place (ui/draw/hud_layer.py).
THEOREM RefusalsShown == Spec => RefusalIsShown
<1> DEFINE Kept ==
      receiver.error # None /\ receiver'.error # receiver.error =>
            \/ receiver'.error \in Reasons
            \/ banner' = [kind |-> "error", text |-> receiver.error]
            \/ receiver.board = None \/ receiver.outcome # "on" \/ receiver.countdown # None
<1>1. IInv /\ [Next]_vars => [Kept]_vars
  <2> SUFFICES ASSUME IInv, Next PROVE Kept
    OBVIOUS
  <2>1. CASE Receive
    BY <2>1, StepReceive
  <2>2. CASE Draw
    <3> SUFFICES ASSUME receiver.error # None, receiver.board # None,
                        receiver.outcome = "on", receiver.countdown = None
                 PROVE  banner' = [kind |-> "error", text |-> receiver.error]
      OBVIOUS
    <3>1. count'.left = None
      BY <2>2, CountedPaired DEF Draw
    <3>2. message'.text = receiver.error /\ message'.left = ErrorDisplay
      BY <2>2 DEF Draw, Popped
    <3>3. message'.left > 0
      BY <3>2, WindowAssumption
    <3>4. banner' = Banner(None, receiver.error)
      BY <2>2, <3>1, <3>2, <3>3 DEF Draw
    <3>. QED BY <3>4 DEF Banner
  <2>3. CASE Says
    BY <2>3 DEF Says
  <2>. QED BY <2>1, <2>2, <2>3, StepElsewhere DEF Next
<1>. QED BY <1>1, Invariance, PTL DEF Spec, RefusalIsShown
=============================================================================

--------------------------- MODULE BrowserProofs ----------------------------
(***************************************************************************)
(* The safety of Browser for any number of client objects.  What keeps an  *)
(* object within reach is Reachable: one that may still be open is either  *)
(* the last one, with the dialog hidden, or one of those the code forgets; *)
(* RDPStart needs the dialog, and so leaves only forgotten ones behind.    *)
(***************************************************************************)
EXTENDS Browser, TLAPS

\* The socket is open or may become so.
Alive(i) == sock[i] \in {"connecting", "open"}

Reachable ==
    \A i \in Made : Alive(i) /\ (i # rdp \/ dialog) => i \in early \cup disturbed

IInv == TypeOK /\ PageShowsOpen /\ Reachable

LEMMA Initially == Init => IInv
  BY StartsAssumption DEF Init, IInv, TypeOK, PageShowsOpen, Reachable, Alive, Made, Objects, Connects

\* An event that resets the page for an object leaves nothing that is alive in reach
\* of the dialog: the object's own socket is closed, or was connecting, and later
\* objects are disturbed.
LEMMA Resetting ==
    ASSUME IInv, NEW i \in Made, _reset(i), UNCHANGED rdp,
           sock' \in [Objects -> {"none", "connecting", "open", "closing", "closed"}],
           \A j \in Objects : j # i => sock'[j] = sock[j],
           sock'[i] # "none", sock'[i] # "open",
           sock'[i] = "connecting" => sock[i] = "connecting",
           session' \subseteq session, ended' \subseteq Objects
    PROVE  IInv'
<1> USE DEF IInv, TypeOK, Made, Objects
<1>1. TypeOK'
  <2>1. /\ rdp' \in 0..MaxStarts /\ button' \in 0..rdp' /\ dialog' \in BOOLEAN
        /\ textArea' \subseteq Objects /\ canvas' \subseteq Objects /\ session' \subseteq Objects
    BY StartsAssumption DEF _reset, Connects
  <2>2. early' \subseteq Objects /\ disturbed' \subseteq Objects
    BY DEF _reset
  <2>3. \A j \in Objects : sock'[j] = "none" <=> j \notin Made'
    <3>1. \A j \in Objects : sock'[j] = "none" <=> sock[j] = "none"
      OBVIOUS
    <3> QED
      BY <3>1
  <2> QED
    BY <2>1, <2>2, <2>3
<1>2. PageShowsOpen'
  BY DEF PageShowsOpen, _reset
<1>3. Reachable'
  <2> SUFFICES ASSUME NEW j \in Made, Alive(j)', j # rdp \/ dialog'
               PROVE  j \in early' \cup disturbed'
    BY DEF Reachable
  <2>1. CASE j = i
    BY <2>1 DEF _reset, Alive
  <2>2. CASE j > i
    BY <2>2 DEF _reset
  <2>3. CASE j < i
    <3>1. Alive(j) /\ j # rdp
      BY <2>3 DEF Alive
    <3> QED
      BY <3>1 DEF Reachable, _reset
  <2> QED
    BY <2>1, <2>2, <2>3, StartsAssumption
<1> QED
  BY <1>1, <1>2, <1>3

LEMMA Step ==
    ASSUME IInv, [Next]_vars
    PROVE  IInv'
<1> USE DEF IInv, TypeOK, Made, Objects
<1>1. CASE RDPStart
  <2>1. rdp \in Nat /\ rdp + 1 \in Objects /\ sock[rdp + 1] = "none"
    BY <1>1, StartsAssumption DEF RDPStart
  <2>2. /\ sock' = [sock EXCEPT ![rdp + 1] = "connecting"] /\ rdp' = rdp + 1
        /\ UNCHANGED <<textArea, canvas, session, ended, early, disturbed>>
    BY <1>1 DEF RDPStart
  <2>3. \A j \in Objects : sock'[j] = "none" <=> j \notin Made'
    BY <2>1, <2>2, StartsAssumption
  <2>4. TypeOK'
    <3>1. sock' \in [Objects -> {"none", "connecting", "open", "closing", "closed"}]
      BY <2>2
    <3>2. rdp' \in 0..MaxStarts /\ button' \in 0..rdp' /\ dialog' \in BOOLEAN
      <4>1. rdp' \in 0..MaxStarts
        BY <2>1, <2>2, StartsAssumption
      <4>2. button' = 0 /\ dialog' = FALSE
        BY <1>1 DEF RDPStart, Connects
      <4>3. 0 \in 0..rdp'
        BY <2>1, <2>2
      <4> QED
        BY <4>1, <4>2, <4>3, Zenon
    <3> QED
      BY <2>2, <2>3, <3>1, <3>2
  <2>5. PageShowsOpen'
    BY <2>1, <2>2 DEF PageShowsOpen
  <2>6. Reachable'
    BY <1>1, <2>1, <2>2, StartsAssumption DEF RDPStart, Reachable, Alive
  <2> QED
    BY <2>4, <2>5, <2>6
<1>2. CASE Disconnect
  <2>1. PICK i \in Made : _reset(i) /\ Close(i) /\ ended' = ended \cup {i} /\ UNCHANGED <<rdp, session>>
    BY <1>2 DEF Disconnect
  <2> QED
    BY <2>1, Resetting DEF Close
<1>3. ASSUME NEW i \in Objects, onWSmsg(i) PROVE IInv'
  BY <1>3, Resetting DEF onWSmsg, Close
<1>4. ASSUME NEW i \in Objects, onWSclose(i) PROVE IInv'
  BY <1>4, Resetting DEF onWSclose
<1>5. ASSUME NEW i \in Objects, Draw(i) PROVE IInv'
  BY <1>5 DEF Draw, PageShowsOpen, Reachable, Alive
<1>6. ASSUME NEW i \in Objects, onWSopen(i) PROVE IInv'
  <2>1. TypeOK' /\ PageShowsOpen'
    BY <1>6 DEF onWSopen, PageShowsOpen
  <2>2. Reachable'
    BY <1>6 DEF onWSopen, Reachable, Alive
  <2> QED
    BY <2>1, <2>2
<1>7. CASE UNCHANGED vars
  BY <1>7 DEF vars, PageShowsOpen, Reachable, Alive
<1> QED
  BY <1>1, <1>2, <1>3, <1>4, <1>5, <1>6, <1>7 DEF Next, Rest

\* Types, what is on the page and which objects are within reach, in every state.
THEOREM Invariance == Spec => []IInv
<1>1. IInv /\ [Next]_vars => IInv'
  BY Step
<1> QED
  BY Initially, <1>1, PTL DEF Spec

\* The variables of the page and of the objects have their types, and a socket is made
\* for every object.
THEOREM TypeCorrect == Spec => []TypeOK
<1>1. IInv => TypeOK
  BY DEF IInv
<1> QED
  BY Invariance, <1>1, PTL

\* An open session behind the page was disconnected while it was connecting (_reset
\* closes only an open socket) or had the dialog shown over it by an earlier object.
THEOREM OrphansHaveCause == Spec => []OrphansExplained
<1>1. IInv => OrphansExplained
  BY DEF IInv, Reachable, Alive, OrphansExplained
<1> QED
  BY Invariance, <1>1, PTL

\* Textareas and canvas belong to sessions whose socket is open (_reset, onWSopen).
THEOREM PageIsOpenSessions == Spec => []PageShowsOpen
<1>1. IInv => PageShowsOpen
  BY DEF IInv
<1> QED
  BY Invariance, <1>1, PTL
=============================================================================

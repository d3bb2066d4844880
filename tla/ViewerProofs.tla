------------------------------ MODULE ViewerProofs ------------------------------
(* Theorems about Viewer for any usernames and any number of resolves. *)
EXTENDS Viewer, TLAPS

USE ViewerAssumption

-----------------------------------------------------------------------------
(* The inductive invariant *)

Flying == \E f \in Flights : flights[f] # None

\* resolvingRef is set only while a resolve is under way, though one that comes
\* back clears it for those that do not.
ResolvingIsFlying == resolving => Flying

\* While the page connects its call is not answered.
ConnectingDials == ~disposed /\ shown = "connecting" => Unanswered

\* A page that resolves has a resolve or a timer, and so has one that has said
\* that it waits for its host.
ResolvingIsBacked ==
  ~disposed /\ (shown = "resolving" \/ (shown = "offline" /\ wasLive /\ window)) =>
    timer # None \/ leaked > 0 \/ Flying

PlayingFlows == ~disposed /\ shown = "playing" => Flowing

LeftIsEmpty == disposed => handle = None

IInv == TypeOK /\ ResolvingIsFlying /\ ConnectingDials /\ ResolvingIsBacked
          /\ PlayingFlows /\ LeftIsEmpty

LEMMA InitHolds == Init => IInv
  <1> SUFFICES ASSUME Init PROVE IInv
    OBVIOUS
  <1>1. PICK f \in Flights :
          flights = [g \in Flights |->
                       IF g = f THEN [user |-> user, at |-> "session"] ELSE None]
    BY DEF Init
  <1>2. flights[f] # None
    BY <1>1 DEF Init, Flight
  <1>3. TypeOK
    <2>1. [user |-> user, at |-> "session"] \in Flight
      BY DEF Init, Flight
    <2>2. flights \in [Flights -> Flight \cup {None}]
      BY <1>1, <2>1
    <2>3. \A b \in {embed, disposed, resolving, wasLive, window} : b \in BOOLEAN
      BY DEF Init
    <2>4. leaked \in 0..MaxLeaked
      BY DEF Init
    <2>5. QED
      BY <2>2, <2>3, <2>4 DEF Init, TypeOK, Phases
  <1>4. QED
    BY <1>2, <1>3 DEF Init, IInv, ResolvingIsFlying, ConnectingDials,
       ResolvingIsBacked, PlayingFlows, LeftIsEmpty, Flying

-----------------------------------------------------------------------------
(* What a page does *)

LEMMA ResolveFlies ==
  ASSUME IInv, NEW u \in Users, NEW b \in BOOLEAN, Resolve(u, b)
  PROVE  /\ flights' \in [Flights -> Flight \cup {None}]
         /\ resolving' \in BOOLEAN /\ window' \in BOOLEAN /\ shown' \in Phases
         /\ (resolving' => Flying') /\ (~disposed => Flying')
         /\ shown' \in {shown, "resolving"}
  <1>1. CASE disposed \/ resolving
    BY <1>1 DEF Resolve, IInv, TypeOK, ResolvingIsFlying, Flying
  <1>2. CASE ~(disposed \/ resolving)
    <2>1. PICK f \in Flights :
            /\ flights[f] = None
            /\ flights' = [flights EXCEPT ![f] = [user |-> u, at |-> "session"]]
      BY <1>2 DEF Resolve
    <2>2. [user |-> u, at |-> "session"] \in Flight
      BY DEF Flight
    <2>3. flights'[f] # None /\ flights' \in [Flights -> Flight \cup {None}]
      BY <2>1, <2>2 DEF IInv, TypeOK
    <2>4. QED
      BY <1>2, <2>3 DEF Resolve, WindowAfter, IInv, TypeOK, Phases, Flying
  <1>3. QED
    BY <1>1, <1>2

LEMMA RetryShows ==
  ASSUME IInv, NEW u \in Users, NEW s \in Phases, Retry(u, s)
  PROVE  /\ timer' \in Users \cup {None} /\ leaked' \in 0..MaxLeaked
         /\ shown' \in {s, "offline"}
         /\ timer' # None \/ (shown' = "offline" /\ ~window)
  BY DEF Retry, Least, IInv, TypeOK

LEMMA TearDownTypes ==
  ASSUME IInv, TearDown
  PROVE  timer' \in Users \cup {None} /\ leaked' \in 0..MaxLeaked
  BY DEF TearDown, Flowing, Least, IInv, TypeOK, Handle

LEMMA LandedTypes ==
  ASSUME IInv, NEW f \in Flights, Landed(f)
  PROVE  flights' \in [Flights -> Flight \cup {None}] /\ resolving' = FALSE
  BY DEF Landed, IInv, TypeOK

-----------------------------------------------------------------------------
(* The steps *)

LEMMA AnswersStep ==
  ASSUME IInv, NEW f \in Flights, Answers(f)
  PROVE  IInv'
  <1> USE DEF ResolvingIsFlying, ConnectingDials, ResolvingIsBacked, PlayingFlows,
              LeftIsEmpty, Flowing, Unanswered
  <1>1. CASE Disposed(f)
    BY <1>1, LandedTypes DEF Disposed, IInv, TypeOK
  <1>2. CASE NotLive(f)
    <2>1. flights[f] \in Flight
      BY <1>2 DEF NotLive, IInv, TypeOK
    <2>2. flights[f].user \in Users
      BY <2>1 DEF Flight
    <2>3. CASE wasLive
      BY <1>2, <2>2, <2>3, LandedTypes, RetryShows DEF NotLive, IInv, TypeOK, Phases
    <2>4. CASE ~wasLive
      BY <1>2, <2>4, LandedTypes DEF NotLive, IInv, TypeOK, Phases
    <2>5. QED
      BY <2>3, <2>4 DEF IInv, TypeOK
  <1>3. CASE Denied(f)
    BY <1>3, LandedTypes DEF Denied, IInv, TypeOK, Phases
  <1>4. CASE Granted(f)
    <2>1. flights[f] \in Flight /\ [flights[f] EXCEPT !.at = "ticket"] \in Flight
      BY <1>4 DEF Granted, IInv, TypeOK, Flight
    <2>2. flights' \in [Flights -> Flight \cup {None}] /\ flights'[f] # None
      BY <1>4, <2>1 DEF Granted, IInv, TypeOK
    <2>3. QED
      BY <1>4, <2>2 DEF Granted, refs, IInv, TypeOK, Flying
  <1>5. CASE Connect(f)
    <2>1. flights[f] \in Flight
      BY <1>5 DEF Connect, IInv, TypeOK
    <2>2. handle' \in Handle /\ handle'.call = "dialing"
      BY <1>5, <2>1 DEF Connect, Flight, Handle
    <2>3. QED
      BY <1>5, <2>2, LandedTypes, TearDownTypes DEF Connect, IInv, TypeOK, Phases
  <1>6. QED
    BY <1>1, <1>2, <1>3, <1>4, <1>5 DEF Answers

LEMMA HandleStep ==
  ASSUME IInv, Streams \/ Fails \/ Closes
  PROVE  IInv'
  <1> USE DEF ResolvingIsFlying, ConnectingDials, ResolvingIsBacked, PlayingFlows,
              LeftIsEmpty, Flowing, Unanswered, Flying
  <1>1. handle \in Handle /\ handle.user \in Users
    BY DEF Streams, Fails, Closes, Handle, IInv, TypeOK
  <1>2. CASE Streams
    <2>1. handle' \in Handle /\ handle'.call = "flowing"
      BY <1>1, <1>2 DEF Streams, Handle
    <2>2. QED
      BY <1>2, <2>1 DEF Streams, IInv, TypeOK, Phases
  <1>3. CASE Fails
    <2>1. handle' \in Handle
      BY <1>1, <1>3 DEF Fails, Handle
    <2>2. QED
      BY <1>3, <2>1 DEF Fails, IInv, TypeOK, Phases
  <1>4. CASE Closes
    <2>1. handle' \in Handle
      BY <1>1, <1>4 DEF Closes, Handle
    <2>2. QED
      BY <1>1, <1>4, <2>1, RetryShows DEF Closes, IInv, TypeOK, Phases
  <1>5. QED
    BY <1>2, <1>3, <1>4

LEMMA OtherSteps ==
  ASSUME IInv,
         \/ TimerFires \/ WindowEnds \/ Asks \/ Unmount
         \/ \E u \in Users : HostChanges(u)
  PROVE  IInv'
  <1> USE DEF ResolvingIsFlying, ConnectingDials, ResolvingIsBacked, PlayingFlows,
              LeftIsEmpty, Flowing, Unanswered
  <1>1. CASE TimerFires
    <2>1. PICK u \in Users : Resolve(u, TRUE)
      BY <1>1 DEF TimerFires, IInv, TypeOK
    <2>2. timer' \in Users \cup {None} /\ leaked' \in 0..MaxLeaked
      <3>1. CASE UNCHANGED leaked /\ timer' = None
        BY <3>1 DEF IInv, TypeOK
      <3>2. CASE leaked > 0 /\ leaked' = leaked - 1 /\ UNCHANGED timer
        BY <3>2 DEF IInv, TypeOK
      <3>3. QED
        BY <1>1, <3>1, <3>2 DEF TimerFires
    <2>3. UNCHANGED <<embed, user, disposed, handle, wasLive, host>>
      BY <1>1 DEF TimerFires
    <2>4. TypeOK'
      BY <2>1, <2>2, <2>3, ResolveFlies DEF IInv, TypeOK
    <2>5. QED
      BY <2>1, <2>3, <2>4, ResolveFlies DEF IInv, Flying
  <1>2. CASE WindowEnds
    BY <1>2 DEF WindowEnds, IInv, TypeOK, Flying
  <1>3. CASE Click
    BY <1>3, ResolveFlies DEF Click, IInv, TypeOK
  <1>4. CASE \E u \in Users : Navigate(u)
    <2>1. PICK u \in Users, f \in Flights :
            /\ user' = u
            /\ flights' = [flights EXCEPT ![f] = [user |-> u, at |-> "session"]]
      BY <1>4 DEF Navigate
    <2>2. [user |-> u, at |-> "session"] \in Flight
      BY DEF Flight
    <2>3. flights' \in [Flights -> Flight \cup {None}] /\ flights'[f] # None
      BY <2>1, <2>2 DEF IInv, TypeOK
    <2>4. QED
      BY <1>4, <2>1, <2>3 DEF Navigate, IInv, TypeOK, Phases, Flying
  <1>5. CASE Unmount
    BY <1>5 DEF Unmount, IInv, TypeOK
  <1>6. CASE \E u \in Users : HostChanges(u)
    BY <1>6 DEF HostChanges, refs, IInv, TypeOK, Flying
  <1>7. QED
    BY <1>1, <1>2, <1>3, <1>4, <1>5, <1>6 DEF Asks

LEMMA StepHolds ==
  ASSUME IInv, [Next]_vars
  PROVE  IInv'
  <1>1. CASE UNCHANGED vars
    BY <1>1 DEF vars, refs, IInv, TypeOK, ResolvingIsFlying, ConnectingDials,
       ResolvingIsBacked, PlayingFlows, LeftIsEmpty, Flowing, Unanswered, Flying
  <1>2. CASE Next
    BY <1>2, AnswersStep, HandleStep, OtherSteps DEF Next
  <1>3. QED
    BY <1>1, <1>2

-----------------------------------------------------------------------------
(* The theorems *)

\* The inductive invariant of the page that watches.
THEOREM Invariant == Spec => []IInv
  BY InitHolds, StepHolds, PTL DEF Spec

\* Every variable keeps its type.
THEOREM TypeCorrect == Spec => []TypeOK
  BY Invariant, PTL DEF IInv

LEMMA Backed == IInv => ShownIsBacked
  BY DEF IInv, ShownIsBacked, UnderWay, ConnectingDials, ResolvingIsBacked,
     PlayingFlows, LeftIsEmpty, Flying

\* What the page shows is so (ViewerPage.tsx, EmbedPage.tsx): a page that looks
\* for a broadcast has a request or a timer, one that connects a call that is
\* not answered, one that plays a stream, and one that was left nothing.
THEOREM PageShowsTheTruth == Spec => []ShownIsBacked
  BY Invariant, Backed, PTL
=============================================================================

----------------------- MODULE FFKitSessionMapProofs -----------------------
(***************************************************************************)
(* What sessionMap guarantees for every SESSION_MAP_SIZE and any number of *)
(* sessions, as long as no two of them share a slot.                       *)
(***************************************************************************)
EXTENDS FFKitSessionMap, TLAPS

\* Nobody takes the slot of an execution away.
Held == \A id \in Ids : pc[id] \in Live \cup {"finished"} => sessionMap[Slot(id)] # 0

\* A request is in its session's slot until the return code is settled.
Kept ==
    \A id \in Ids : "live" \in asked[id] =>
        /\ pc[id] \in Live \cup {"finished", "completed"}
        /\ pc[id] \in Live => CancelRequested(id)

\* A request in the slot of an execution was made for it.
Meant ==
    \A id \in Ids :
        /\ pc[id] \in Live /\ CancelRequested(id) => "live" \in asked[id]
        /\ returnCode[id] = Cancel => "live" \in asked[id]

\* The sweep of shutdown has reached whatever executes behind it.
Swept ==
    shutdown => \A id \in FFmpegs :
                    pc[id] = "executing" => CancelRequested(id) \/ sweep["shutdown"] <= Slot(id)

Claims == Held /\ Kept /\ Meant /\ CancelIsHeard /\ Swept
IInv   == TypeOK /\ (OwnSlots => Claims)

LEMMA SlotType == \A id \in Ids : Slot(id) \in Slots
  BY MapSizeAssumption, IdsAssumption DEF Slot, Slots

LEMMA InitIInv == Init => IInv
<1> SUFFICES ASSUME Init PROVE IInv
  OBVIOUS
<1>1. TypeOK
  <2>1. sessionMap \in [Slots -> 0..2] /\ sweep \in [Sweepers -> 0..MapSize]
    BY MapSizeAssumption DEF Init
  <2>2. pc \in [Ids -> {"created"}] /\ asked \in [Ids -> SUBSET {"early", "live"}]
    BY DEF Init
  <2>3. returnCode \in [Ids -> {Success, Cancel}] /\ shutdown \in BOOLEAN
    BY DEF Init
  <2> QED BY <2>1, <2>2, <2>3 DEF TypeOK
<1>2. \A id \in Ids : pc[id] = "created" /\ asked[id] = {} /\ returnCode[id] # Cancel
  BY DEF Init, Success, Cancel
<1>3. Held /\ Kept
  BY <1>2 DEF Held, Kept, Live
<1>4. Meant /\ CancelIsHeard
  BY <1>2 DEF Meant, CancelIsHeard, Live, Settled, FFmpegs
<1>5. Swept
  BY DEF Init, Swept
<1> QED BY <1>1, <1>3, <1>4, <1>5 DEF IInv, Claims

LEMMA NextTypeOK == TypeOK /\ [Next]_vars => TypeOK'
<1> SUFFICES ASSUME TypeOK, [Next]_vars PROVE TypeOK'
  OBVIOUS
<1> USE DEF TypeOK
<1>1. ASSUME NEW id \in Ids, Execute(id) \/ CancelSession(id)
      PROVE  TypeOK'
  <2>1. CASE Admit(id) \/ StartRunning(id) \/ Probed(id)
    BY <2>1 DEF Admit, StartRunning, Probed
  <2>2. CASE Claim(id) \/ Remove(id)
    BY <2>2 DEF Claim, Remove
  <2>3. CASE Transcoded(id) \/ Finish(id)
    BY <2>3 DEF Transcoded, Finish
  <2>4. CASE LookAgain(id) \/ CancelSession(id)
    <3>1. When(id) \subseteq {"early", "live"}
      BY DEF When
    <3> QED BY <2>4, <3>1 DEF LookAgain, CancelSession
  <2> QED BY <1>1, <2>1, <2>2, <2>3, <2>4 DEF Execute
<1>2. CASE CancelAll \/ Shutdown
  <2>1. 0 \in 0..MapSize
    BY MapSizeAssumption
  <2>2. sweep' \in [Sweepers -> 0..MapSize]
    BY <1>2, <2>1 DEF CancelAll, Shutdown
  <2>3. shutdown' \in BOOLEAN
    BY <1>2 DEF CancelAll, Shutdown
  <2> QED BY <1>2, <2>2, <2>3 DEF CancelAll, Shutdown
<1>3. ASSUME NEW w \in Sweepers, Sweep(w)
      PROVE  TypeOK'
  <2>1. \A id \in Ids : When(id) \subseteq {"early", "live"}
    BY DEF When
  <2>2. asked' \in [Ids -> SUBSET {"early", "live"}]
    BY <1>3, <2>1 DEF Sweep
  <2>3. sweep' \in [Sweepers -> 0..MapSize]
    BY <1>3, MapSizeAssumption DEF Sweep, Slots
  <2>4. sessionMap' \in [Slots -> 0..2]
    BY <1>3 DEF Sweep
  <2> QED BY <1>3, <2>2, <2>3, <2>4 DEF Sweep
<1>4. CASE UNCHANGED vars
  BY <1>4 DEF vars
<1> HIDE DEF TypeOK
<1> QED BY <1>1, <1>2, <1>3, <1>4 DEF Next

-----------------------------------------------------------------------------
\* A step of one session leaves the slots of the others alone.
LEMMA ExecuteClaims ==
    ASSUME OwnSlots, TypeOK, Claims, NEW s \in Ids, Execute(s) \/ CancelSession(s)
    PROVE  Claims'
<1> USE DEF TypeOK
<1>1. \A id \in Ids : id # s => Slot(id) # Slot(s)
  BY DEF OwnSlots, Slot
<1>2. Slot(s) \in Slots
  BY SlotType
<1>3. \A id \in Ids : id # s =>
         /\ pc'[id] = pc[id] /\ returnCode'[id] = returnCode[id] /\ asked'[id] = asked[id]
         /\ sessionMap'[Slot(id)] = sessionMap[Slot(id)]
  BY <1>1, <1>2, SlotType DEF Execute, CancelSession, Admit, StartRunning, Claim, LookAgain,
     Transcoded, Finish, Probed, Remove
<1>4. shutdown' = shutdown /\ sweep' = sweep
  BY DEF Execute, CancelSession, Admit, StartRunning, Claim, LookAgain, Transcoded, Finish,
     Probed, Remove
<1>5. \A id \in Ids : id # s => (CancelRequested(id))' = CancelRequested(id)
  BY <1>3 DEF CancelRequested
<1>6. /\ pc'[s] \in Live \cup {"finished"} => sessionMap'[Slot(s)] # 0
      /\ "live" \in asked'[s] => pc'[s] \in Live \cup {"finished", "completed"}
      /\ "live" \in asked'[s] /\ pc'[s] \in Live => sessionMap'[Slot(s)] = 2
      /\ pc'[s] \in Live /\ sessionMap'[Slot(s)] = 2 => "live" \in asked'[s]
      /\ returnCode'[s] = Cancel => "live" \in asked'[s]
      /\ s \in FFmpegs /\ pc'[s] \in {"finished", "completed"} /\ "live" \in asked'[s]
           => returnCode'[s] = Cancel
      /\ shutdown /\ s \in FFmpegs /\ pc'[s] = "executing"
           => sessionMap'[Slot(s)] = 2 \/ sweep["shutdown"] <= Slot(s)
  <2> USE <1>2 DEF Claims, Held, Kept, Meant, CancelIsHeard, Swept, CancelRequested, Settled,
          Live, Success, Cancel
  <2>1. CASE Admit(s) \/ StartRunning(s)
    BY <2>1 DEF Admit, StartRunning
  <2>2. CASE Claim(s)
    BY <2>2 DEF Claim, FFmpegs
  <2>3. CASE LookAgain(s)
    BY <2>3 DEF LookAgain, When
  <2>4. CASE Transcoded(s) \/ Finish(s)
    BY <2>4 DEF Transcoded, Finish
  <2>5. CASE Probed(s) \/ Remove(s)
    BY <2>5 DEF Probed, Remove, FFmpegs
  <2>6. CASE CancelSession(s)
    BY <2>6 DEF CancelSession, When
  <2> QED BY <2>1, <2>2, <2>3, <2>4, <2>5, <2>6 DEF Execute
<1> QED
  <2>1. Held'
    BY <1>3, <1>6 DEF Held, Claims
  <2>2. Kept'
    <3> SUFFICES ASSUME NEW id \in Ids, "live" \in asked'[id]
                 PROVE  /\ pc'[id] \in Live \cup {"finished", "completed"}
                        /\ pc'[id] \in Live => sessionMap'[Slot(id)] = 2
      BY DEF Kept, CancelRequested
    <3>1. CASE id = s
      BY <1>6, <3>1
    <3>2. CASE id # s
      <4>1. pc'[id] = pc[id] /\ asked'[id] = asked[id] /\ sessionMap'[Slot(id)] = sessionMap[Slot(id)]
        BY <1>3, <3>2
      <4> QED BY <4>1 DEF Claims, Kept, CancelRequested
    <3> QED BY <3>1, <3>2
  <2>3. Meant'
    BY <1>3, <1>5, <1>6 DEF Meant, Claims, CancelRequested
  <2>4. CancelIsHeard'
    BY <1>3, <1>6 DEF CancelIsHeard, Claims, Settled, FFmpegs
  <2>5. Swept'
    BY <1>3, <1>4, <1>5, <1>6 DEF Swept, Claims, FFmpegs, CancelRequested
  <2> QED BY <2>1, <2>2, <2>3, <2>4, <2>5 DEF Claims

\* The sweep turns a claim into a request, for the execution that holds it.
LEMMA SweepClaims ==
    ASSUME OwnSlots, TypeOK, Claims, NEW w \in Sweepers, Sweep(w)
    PROVE  Claims'
<1> USE DEF TypeOK
<1> DEFINE i == sweep[w]
<1>1. /\ i \in Slots /\ UNCHANGED <<pc, returnCode, shutdown>>
      /\ sweep' = [sweep EXCEPT ![w] = @ + 1]
  BY DEF Sweep
<1>2. \A id \in Ids :
        /\ Slot(id) # i => sessionMap'[Slot(id)] = sessionMap[Slot(id)] /\ asked'[id] = asked[id]
        /\ Slot(id) = i /\ sessionMap[i] # 1 =>
              sessionMap'[Slot(id)] = sessionMap[i] /\ asked'[id] = asked[id]
        /\ Slot(id) = i /\ sessionMap[i] = 1 =>
              sessionMap'[Slot(id)] = 2 /\ asked'[id] = asked[id] \cup When(id)
  BY <1>1, SlotType DEF Sweep
<1>3. \A id \in Ids : "live" \in When(id) <=> pc[id] \in Live
  BY DEF When, Live
<1>4. Held'
  BY <1>1, <1>2 DEF Held, Claims
<1>5. Kept'
  BY <1>1, <1>2, <1>3 DEF Kept, Claims, CancelRequested
<1>6. Meant'
  BY <1>1, <1>2, <1>3 DEF Meant, Claims, CancelRequested
<1>7. CancelIsHeard'
  <2>1. \A id \in Ids : Settled(id) => When(id) = {}
    BY DEF Settled, When, Live
  <2> QED BY <1>1, <1>2, <2>1 DEF CancelIsHeard, Claims, Settled, FFmpegs
<1>8. Swept'
  <2> SUFFICES ASSUME shutdown, NEW id \in FFmpegs, pc[id] = "executing"
               PROVE  sessionMap'[Slot(id)] = 2 \/ sweep'["shutdown"] <= Slot(id)
    BY <1>1 DEF Swept, CancelRequested
  <2>1. id \in Ids /\ Slot(id) \in Slots /\ sessionMap[Slot(id)] \in {1, 2}
    BY SlotType DEF FFmpegs, Claims, Held, Live
  <2>2. sessionMap[Slot(id)] = 2 \/ sweep["shutdown"] <= Slot(id)
    BY DEF Claims, Swept, CancelRequested
  <2>3. CASE Slot(id) = i
    BY <1>2, <2>1, <2>3
  <2>4. CASE Slot(id) # i
    <3>1. sessionMap'[Slot(id)] = sessionMap[Slot(id)]
      BY <1>2, <2>1, <2>4
    <3>2. sweep'["shutdown"] = sweep["shutdown"] \/ w = "shutdown"
      BY <1>1 DEF Sweepers
    <3>3. CASE w = "shutdown"
      BY <1>1, <2>1, <2>2, <2>4, <3>1, <3>3, MapSizeAssumption DEF Slots, Sweepers
    <3> QED BY <2>2, <3>1, <3>2, <3>3
  <2> QED BY <2>3, <2>4
<1> QED BY <1>4, <1>5, <1>6, <1>7, <1>8 DEF Claims

LEMMA NextClaims ==
    ASSUME OwnSlots, TypeOK, Claims, [Next]_vars
    PROVE  Claims'
<1>1. CASE \E id \in Ids : Execute(id) \/ CancelSession(id)
  BY <1>1, ExecuteClaims
<1>2. CASE \E w \in Sweepers : Sweep(w)
  BY <1>2, SweepClaims
<1>3. CASE CancelAll
  BY <1>3 DEF CancelAll, TypeOK, Sweepers, Claims, Held, Kept, Meant, CancelIsHeard, Swept,
     CancelRequested, Settled
<1>4. CASE Shutdown
  <2>1. \A id \in FFmpegs : sweep'["shutdown"] <= Slot(id)
    BY <1>4, SlotType, MapSizeAssumption DEF Shutdown, TypeOK, Sweepers, FFmpegs, Slots
  <2> QED BY <1>4, <2>1 DEF Shutdown, Claims, Held, Kept, Meant, CancelIsHeard, Swept,
          CancelRequested, Settled
<1>5. CASE UNCHANGED vars
  BY <1>5 DEF vars, Claims, Held, Kept, Meant, CancelIsHeard, Swept, CancelRequested, Settled
<1> QED BY <1>1, <1>2, <1>3, <1>4, <1>5 DEF Next

-----------------------------------------------------------------------------
LEMMA Inductive == Spec => []IInv
<1>1. IInv /\ [Next]_vars => IInv'
  <2> SUFFICES ASSUME IInv, [Next]_vars PROVE IInv'
    OBVIOUS
  <2>1. TypeOK'
    BY NextTypeOK DEF IInv
  <2>2. OwnSlots => Claims'
    BY NextClaims DEF IInv
  <2>3. OwnSlots' <=> OwnSlots
    BY DEF OwnSlots
  <2> QED BY <2>1, <2>2, <2>3 DEF IInv
<1> QED BY InitIInv, <1>1, PTL DEF Spec

\* Every variable of the session map keeps its type.
THEOREM TypeCorrect == Spec => []TypeOK
<1>1. IInv => TypeOK
  BY DEF IInv
<1> QED BY <1>1, Inductive, PTL

\* For any map size and any number of sessions, a request that finds its session
\* claimed decides the return code.
THEOREM NoCancelIsLost == Spec => []CancelIsHeard
<1>1. IInv => CancelIsHeard
  BY DEF IInv, Claims, CancelIsHeard
<1> QED BY <1>1, Inductive, PTL

\* And nothing else does: requests left in a slot or made for other sessions
\* end no execution.
THEOREM NoStrayCancel == Spec => []OnlyWhenAsked
<1>1. IInv => OnlyWhenAsked
  BY DEF IInv, Claims, Meant, OnlyWhenAsked
<1> QED BY <1>1, Inductive, PTL

\* However executions race with the sweep of shutdown, each FFmpeg that executes
\* after it has a request.
THEOREM ShutdownMissesNone == Spec => []ShutdownReachesAll
<1>1. IInv => ShutdownReachesAll
  <2> SUFFICES ASSUME IInv, OwnSlots, shutdown, sweep["shutdown"] = MapSize,
                      NEW id \in FFmpegs, pc[id] = "executing"
               PROVE  CancelRequested(id)
    BY DEF ShutdownReachesAll
  <2>1. Slot(id) < MapSize
    BY SlotType, MapSizeAssumption DEF FFmpegs, Slots
  <2>2. CancelRequested(id) \/ MapSize <= Slot(id)
    BY DEF IInv, Claims, Swept
  <2>3. Slot(id) \in Int
    BY SlotType, MapSizeAssumption DEF FFmpegs, Slots
  <2> QED BY <2>1, <2>2, <2>3, MapSizeAssumption
<1> QED BY <1>1, Inductive, PTL
=============================================================================

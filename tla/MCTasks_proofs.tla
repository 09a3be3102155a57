--------------------------- MODULE MCTasks_proofs ---------------------------
(***************************************************************************)
(* The safety properties of the suites of tasks around the event loop.  Of *)
(* MCServer: the end of a session and the commands around it, for every    *)
(* number of workers and commands and every length of the timeouts and     *)
(* handlers.  Of MCRefresh: the spot feed and the ATR, for every age       *)
(* limit, timeout, period and stamp.  Of MCFeeds: the mid-cross tracker,   *)
(* the quotes and tape of a token and the spot's samples, for every        *)
(* market, book, payload and limit.                                        *)
(***************************************************************************)
EXTENDS MCServer, MCRefresh, MCFeeds, TLAPS, FiniteSetTheorems, SequenceTheorems,
        WellFoundedInduction

-----------------------------------------------------------------------------
(* The end of a session                                                    *)

LEMMA EndConstants ==
  ForceAfter \in Nat \ {0} /\ Grace \in Nat \ {0} /\ HandlerMax \in Nat /\ MaxQueue \in Nat
  BY InstancesSound DEF End!ShutdownAssumption

StopRange == [phase : {"none", "waiting", "forced", "stopped", "killed"}, waited : 0..Grace]

LEMMA EndStart == End!ShutdownInit => End!ShutdownInv
  <1> SUFFICES ASSUME End!ShutdownInit PROVE End!ShutdownInv
    OBVIOUS
  <1>1. End!ShutdownTypeOK
    <2>1. /\ 0 \in 0..MaxQueue /\ 0 \in 0..ForceAfter
          /\ 0 \in 0..HandlerMax /\ 0 \in 0..Grace /\ 0 \in 0..2
      BY EndConstants
    <2>2. stop \in StopRange
      BY <2>1 DEF End!ShutdownInit, StopRange
    <2> QED BY <2>1, <2>2 DEF End!ShutdownInit, End!ShutdownTypeOK, StopRange
  <1>2. End!SignalsKept
    BY DEF End!ShutdownInit, End!SignalsKept, End!Sent
  <1> QED BY <1>1, <1>2 DEF End!ShutdownInit, End!ShutdownInv, End!WaitAccounted,
                            End!KilledOnlyWhenHeld

\* The loop head and the handlers leave the waiting --stop alone.
LEMMA EndLoop ==
  ASSUME End!ShutdownInv,
         \/ End!LoopExits \/ End!TakeSignal \/ End!HandlerAwaits
         \/ End!WindowEnds \/ End!WindowFound \/ End!Settle
  PROVE  End!ShutdownInv'
  <1>1. End!ShutdownTypeOK /\ queue \in 0..MaxQueue /\ mail \in 0..2
    BY DEF End!ShutdownInv, End!ShutdownTypeOK
  <1>2. /\ UNCHANGED <<listening, stop, held>>
        /\ proc' = proc \/ (proc = "running" /\ proc' = "exited")
        /\ \/ UNCHANGED <<mail, pending, since>>
           \/ /\ mail > 0 /\ mail' = mail - 1 /\ pending' = TRUE
              /\ since' = IF pending THEN since ELSE 0
    BY DEF End!LoopExits, End!TakeSignal, End!HandlerAwaits, End!WindowEnds,
           End!WindowFound, End!Settle, End!session, End!request, End!Idle, End!SinceRequest
  <1>3. mail' \in 0..2 /\ mail' <= mail /\ since' \in 0..ForceAfter
    BY <1>1, <1>2, EndConstants DEF End!ShutdownTypeOK
  <1>4. /\ queue' \in 0..MaxQueue /\ window' \in {"NONE", "LIVE", "SKIPPED"}
        /\ handler' \in 0..HandlerMax
    <2>1. CASE End!WindowEnds
      <3>1. /\ queue < MaxQueue /\ queue' = queue + 1
            /\ window' \in {"NONE", "LIVE", "SKIPPED"} /\ handler' = handler
        BY <2>1 DEF End!WindowEnds
      <3> QED BY <1>1, <3>1, EndConstants DEF End!ShutdownTypeOK
    <2>2. CASE End!Settle
      BY <1>1, <2>2, EndConstants DEF End!Settle, End!ShutdownTypeOK
    <2>3. CASE End!HandlerAwaits
      BY <1>1, <2>3, EndConstants DEF End!HandlerAwaits, End!session, End!ShutdownTypeOK
    <2>4. CASE End!LoopExits \/ End!TakeSignal \/ End!WindowFound
      BY <1>1, <2>4 DEF End!LoopExits, End!TakeSignal, End!WindowFound, End!session,
         End!ShutdownTypeOK
    <2> QED BY <2>1, <2>2, <2>3, <2>4
  <1>5. End!ShutdownTypeOK'
    BY <1>1, <1>2, <1>3, <1>4 DEF End!ShutdownTypeOK
  <1>6. End!SignalsKept'
    <2>1. /\ End!Sent("INT") \in Nat /\ End!Sent("TERM") \in Nat
          /\ End!Sent("INT")' = End!Sent("INT") /\ End!Sent("TERM")' = End!Sent("TERM")
      BY <1>2 DEF End!Sent
    <2>2. mail <= End!Sent("INT") + End!Sent("TERM")
      BY DEF End!ShutdownInv, End!SignalsKept
    <2>3. mail' <= End!Sent("INT")' + End!Sent("TERM")'
      BY <1>1, <1>3, <2>1, <2>2
    <2> QED BY <1>2, <2>3 DEF End!ShutdownInv, End!SignalsKept
  <1>7. End!WaitAccounted'
    BY <1>2 DEF End!ShutdownInv, End!WaitAccounted
  <1> QED BY <1>2, <1>5, <1>6, <1>7 DEF End!ShutdownInv, End!KilledOnlyWhenHeld

\* A signal is delivered once by its task.
LEMMA SignalSent ==
  ASSUME End!ShutdownTypeOK, End!SignalsKept, NEW s \in {"INT", "TERM"}, End!Delivered(s)
  PROVE  /\ listening' \subseteq {"INT", "TERM"} /\ mail' \in 0..2
         /\ mail' <= End!Sent("INT")' + End!Sent("TERM")'
         /\ "TERM" \notin listening' /\ ~pending => mail' > 0
         /\ s = "TERM" => "TERM" \notin listening'
         /\ "TERM" \notin listening => "TERM" \notin listening'
         /\ UNCHANGED <<pending, since>>
  <1>1. /\ listening' = listening \ {s}
        /\ mail' = IF s \in listening THEN mail + 1 ELSE mail
        /\ UNCHANGED <<pending, since>>
    BY DEF End!Delivered, End!Deaf
  <1>2. mail \in Nat /\ listening \subseteq {"INT", "TERM"}
    BY DEF End!ShutdownTypeOK
  <1>3. mail <= End!Sent("INT") + End!Sent("TERM")
    BY DEF End!SignalsKept
  <1>4. mail' <= End!Sent("INT")' + End!Sent("TERM")'
    BY <1>1, <1>2, <1>3 DEF End!Sent
  <1>5. mail' \in 0..2
    BY <1>1, <1>2, <1>4 DEF End!Sent
  <1> QED BY <1>1, <1>2, <1>4, <1>5 DEF End!SignalsKept

LEMMA EndTerminated == ASSUME End!ShutdownInv, End!Terminated PROVE End!ShutdownInv'
  <1>1. PICK s \in listening : End!Delivered(s)
    BY DEF End!Terminated
  <1>2. UNCHANGED <<proc, window, queue, handler, stop, held>>
    BY DEF End!Terminated, End!session
  <1>3. End!ShutdownTypeOK /\ End!SignalsKept /\ s \in {"INT", "TERM"}
    BY <1>1 DEF End!ShutdownInv, End!ShutdownTypeOK
  <1>4. End!ShutdownTypeOK'
    BY <1>1, <1>2, <1>3, SignalSent DEF End!ShutdownTypeOK
  <1>5. End!SignalsKept'
    BY <1>1, <1>2, <1>3, SignalSent DEF End!SignalsKept
  <1>6. UNCHANGED <<pending, since>>
    BY <1>1, <1>3, SignalSent
  <1>7. End!WaitAccounted'
    BY <1>2, <1>6 DEF End!ShutdownInv, End!WaitAccounted
  <1> QED BY <1>2, <1>4, <1>5, <1>7 DEF End!ShutdownInv, End!KilledOnlyWhenHeld

LEMMA EndStopCommand == ASSUME End!ShutdownInv, End!StopCommand PROVE End!ShutdownInv'
  <1>1. /\ stop.phase = "none" /\ proc = "running"
        /\ UNCHANGED <<window, queue, handler, held>>
    BY DEF End!StopCommand, End!session
  <1>2. End!ShutdownTypeOK /\ End!SignalsKept /\ End!WaitAccounted
    BY DEF End!ShutdownInv
  <1>3. held = 0
    <2>1. held \in Nat /\ held <= stop.waited /\ stop.waited = 0
      BY <1>1, <1>2, EndConstants DEF End!ShutdownTypeOK, End!WaitAccounted
    <2> QED BY <2>1
  <1>4. CASE /\ stop' = [phase |-> "waiting", waited |-> 0]
             /\ End!Delivered("TERM") /\ proc' = proc
    <2>1. End!ShutdownTypeOK'
      BY <1>1, <1>2, <1>4, SignalSent, EndConstants DEF End!ShutdownTypeOK
    <2>2. End!SignalsKept'
      BY <1>2, <1>4, SignalSent DEF End!SignalsKept
    <2>3. UNCHANGED <<pending, since>> /\ since \in Nat
      BY <1>2, <1>4, SignalSent, EndConstants DEF End!ShutdownTypeOK
    <2>4. End!WaitAccounted'
      BY <1>1, <1>2, <1>3, <1>4, <2>3 DEF End!WaitAccounted
    <2> QED BY <1>1, <1>4, <2>1, <2>2, <2>4 DEF End!ShutdownInv, End!KilledOnlyWhenHeld
  <1>5. CASE /\ stop' = [phase |-> "forced", waited |-> 0]
             /\ proc' = "killed" /\ UNCHANGED End!request
    <2>1. UNCHANGED <<listening, mail, pending, since>>
      BY <1>5 DEF End!request
    <2>2. End!ShutdownTypeOK'
      BY <1>1, <1>2, <1>5, <2>1, EndConstants DEF End!ShutdownTypeOK
    <2>3. End!WaitAccounted'
      BY <1>1, <1>2, <1>3, <1>5, <2>1 DEF End!WaitAccounted
    <2> QED BY <1>2, <1>5, <2>1, <2>2, <2>3 DEF End!ShutdownInv, End!SignalsKept, End!Sent,
               End!KilledOnlyWhenHeld
  <1> QED BY <1>4, <1>5 DEF End!StopCommand

\* --stop kills at the end of its grace, of which the timeout explains ForceAfter at most.
LEMMA EndStopReturns ==
  ASSUME End!ShutdownInv, End!StopSeesExit \/ End!StopKills
  PROVE  End!ShutdownInv'
  <1>1. End!ShutdownTypeOK /\ stop \in StopRange
    BY DEF End!ShutdownInv, End!ShutdownTypeOK, StopRange
  <1>2. PICK ph \in {"stopped", "killed"} :
          /\ stop' = [stop EXCEPT !.phase = ph] /\ stop.phase = "waiting"
          /\ UNCHANGED <<window, queue, listening, mail, pending, since, handler, held>>
          /\ \/ ph = "stopped" /\ proc # "running" /\ proc' = proc
             \/ ph = "killed" /\ proc = "running" /\ proc' = "killed" /\ stop.waited >= Grace
    BY DEF End!StopSeesExit, End!StopKills, End!GraceOver, End!Gone, End!session, End!request
  <1>3. stop'.phase = ph /\ stop'.waited = stop.waited /\ stop' \in StopRange
    BY <1>1, <1>2 DEF StopRange
  <1>4. End!ShutdownTypeOK'
    BY <1>1, <1>2, <1>3 DEF End!ShutdownTypeOK, StopRange
  <1>5. End!SignalsKept' /\ End!WaitAccounted'
    BY <1>2, <1>3 DEF End!ShutdownInv, End!SignalsKept, End!Sent, End!WaitAccounted
  <1>6. End!KilledOnlyWhenHeld'
    <2>1. CASE ph = "stopped"
      BY <1>2, <2>1 DEF End!ShutdownInv, End!KilledOnlyWhenHeld
    <2>2. CASE ph = "killed"
      <3>1. /\ stop.waited <= since + held /\ stop.waited >= Grace
            /\ stop.waited \in Nat /\ since \in 0..ForceAfter /\ held \in Nat
        BY <1>1, <1>2, <2>2, EndConstants DEF End!ShutdownInv, End!WaitAccounted,
           End!ShutdownTypeOK
      <3>2. held >= Grace - ForceAfter
        BY <3>1, EndConstants
      <3> QED BY <1>2, <1>3, <2>2, <3>2 DEF End!KilledOnlyWhenHeld
    <2> QED BY <1>2, <2>1, <2>2
  <1> QED BY <1>4, <1>5, <1>6 DEF End!ShutdownInv

\* A second of the wait is one of the timeout, or one that a handler takes.
LEMMA EndSecond == ASSUME End!ShutdownInv, End!SecondPasses PROVE End!ShutdownInv'
  <1>1. /\ ~(proc = "running" /\ handler = 0 /\ pending /\ since >= ForceAfter)
        /\ ~(proc = "running" /\ handler = 0 /\ mail > 0)
        /\ ~(stop.phase = "waiting" /\ stop.waited >= Grace /\ proc = "running")
        /\ handler' = IF handler > 0 THEN handler - 1 ELSE 0
        /\ since' = IF pending THEN End!Lesser(since + 1, ForceAfter) ELSE 0
        /\ stop' = IF stop.phase = "waiting"
                   THEN [stop EXCEPT !.waited = End!Lesser(@ + 1, Grace)] ELSE stop
        /\ held' = IF End!HeldUp THEN held + 1 ELSE held
        /\ UNCHANGED <<proc, window, queue, listening, mail, pending>>
    BY DEF End!SecondPasses, End!Idle, End!CanExit, End!ForceExit, End!GraceOver, End!session
  <1>2. End!ShutdownTypeOK /\ End!WaitAccounted /\ stop \in StopRange
    BY DEF End!ShutdownInv, End!ShutdownTypeOK, StopRange
  <1>3. /\ handler \in 0..HandlerMax /\ since \in 0..ForceAfter /\ stop.waited \in 0..Grace
        /\ mail \in Nat /\ held \in 0..Grace /\ held <= stop.waited
    BY <1>2, EndConstants DEF End!ShutdownTypeOK, End!WaitAccounted, StopRange
  <1>4. handler' \in 0..HandlerMax /\ since' \in 0..ForceAfter
    BY <1>1, <1>3, EndConstants DEF End!Lesser
  <1>5. /\ stop'.phase = stop.phase /\ stop' \in StopRange
        /\ stop'.waited \in 0..Grace /\ stop'.waited >= stop.waited
        /\ stop.phase = "waiting" /\ stop.waited < Grace => stop'.waited = stop.waited + 1
        /\ stop.phase # "waiting" \/ stop.waited >= Grace => stop'.waited = stop.waited
    <2>1. CASE stop.phase = "waiting"
      <3>1. PICK w : w = End!Lesser(stop.waited + 1, Grace)
        OBVIOUS
      <3>2. /\ w \in 0..Grace /\ w >= stop.waited
            /\ stop.waited < Grace => w = stop.waited + 1
            /\ stop.waited >= Grace => w = stop.waited
        BY <1>3, <3>1, EndConstants DEF End!Lesser
      <3>3. stop' = [stop EXCEPT !.waited = w]
        BY <1>1, <2>1, <3>1
      <3> QED BY <1>2, <2>1, <3>2, <3>3 DEF StopRange
    <2>2. CASE stop.phase # "waiting"
      BY <1>1, <1>2, <1>3, <2>2, EndConstants
    <2> QED BY <2>1, <2>2
  <1>6. held' \in 0..Grace /\ held' <= stop'.waited
    <2>1. CASE End!HeldUp
      <3>1. stop.phase = "waiting" /\ stop.waited < Grace /\ held' = held + 1
        BY <1>1, <2>1 DEF End!HeldUp
      <3> QED BY <1>3, <1>5, <3>1, EndConstants
    <2>2. CASE ~End!HeldUp
      BY <1>1, <1>3, <1>5, <2>2, EndConstants
    <2> QED BY <2>1, <2>2
  <1>7. End!ShutdownTypeOK'
    BY <1>1, <1>2, <1>4, <1>5, <1>6 DEF End!ShutdownTypeOK, StopRange
  <1>8. End!SignalsKept'
    BY <1>1, <1>5 DEF End!ShutdownInv, End!SignalsKept, End!Sent
  <1>9. ASSUME stop.phase = "waiting", proc = "running" PROVE stop'.waited <= since' + held'
    <2>1. stop.waited < Grace /\ stop.waited <= since + held
      BY <1>1, <1>2, <1>3, <1>9, EndConstants DEF End!WaitAccounted
    <2>2. stop'.waited = stop.waited + 1
      BY <1>5, <1>9, <2>1
    <2>3. CASE ~pending
      <3>1. handler > 0 /\ since = 0
        BY <1>1, <1>2, <1>3, <1>9, <2>3 DEF End!ShutdownInv, End!SignalsKept, End!WaitAccounted
      <3>2. held' = held + 1 /\ since' = 0
        BY <1>1, <1>9, <2>1, <2>3, <3>1 DEF End!HeldUp
      <3> QED BY <1>3, <2>1, <2>2, <3>1, <3>2, EndConstants
    <2>4. CASE pending /\ since < ForceAfter
      <3>1. since' = since + 1 /\ held' >= held
        BY <1>1, <1>3, <2>4, EndConstants DEF End!Lesser
      <3> QED BY <1>3, <1>6, <2>1, <2>2, <3>1, EndConstants
    <2>5. CASE pending /\ ~(since < ForceAfter)
      <3>1. handler > 0 /\ since' = since
        BY <1>1, <1>3, <1>9, <2>5, EndConstants DEF End!Lesser
      <3>2. held' = held + 1
        BY <1>1, <1>3, <1>9, <2>1, <2>5, <3>1, EndConstants DEF End!HeldUp, End!ForceExit
      <3> QED BY <1>3, <2>1, <2>2, <3>1, <3>2, EndConstants
    <2> QED BY <2>3, <2>4, <2>5
  <1>10. End!WaitAccounted'
    BY <1>1, <1>2, <1>5, <1>6, <1>9 DEF End!WaitAccounted
  <1>11. End!KilledOnlyWhenHeld'
    <2>1. proc = "killed" => held' = held
      BY <1>1 DEF End!HeldUp
    <2> QED BY <1>1, <1>5, <2>1 DEF End!ShutdownInv, End!KilledOnlyWhenHeld
  <1> QED BY <1>7, <1>8, <1>10, <1>11 DEF End!ShutdownInv

LEMMA EndStep == End!ShutdownInv /\ [End!ShutdownNext]_shutdownVars => End!ShutdownInv'
  <1>1. ASSUME End!ShutdownInv, UNCHANGED shutdownVars PROVE End!ShutdownInv'
    BY <1>1 DEF shutdownVars, End!ShutdownInv, End!ShutdownTypeOK, End!SignalsKept,
                End!Sent, End!WaitAccounted, End!KilledOnlyWhenHeld
  <1> QED BY <1>1, EndLoop, EndTerminated, EndStopCommand, EndStopReturns, EndSecond
             DEF End!ShutdownNext, End!LoopStep

-----------------------------------------------------------------------------
(* Commands one after the other                                            *)

LEMMA DaemonConstants == NoPid \notin Workers /\ MaxStops \in Nat /\ IsFiniteSet(Workers)
  BY InstancesSound DEF Serial!DaemonAssumption, Serial!IsFiniteSet, IsFiniteSet

LEMMA SerialSize == ASSUME NEW S PROVE Serial!Cardinality(S) = Cardinality(S)
  BY DEF Serial!Cardinality, Cardinality

\* What the invariants say, over the processes as functions.
LEMMA SerialFacts ==
  ASSUME Serial!SerialInv
  PROVE  /\ Serial!DaemonTypeOK /\ Serial!InTurn
         /\ \A l \in Workers : Serial!UnderWay(l) => ~(\E m \in Workers : m # l /\ Serial!UnderWay(m))
         /\ late = {} => Serial!NoneAside /\ told
         /\ file # NoPid => file \in Workers
  BY DEF Serial!SerialInv, Serial!InTurn, Serial!StatusTruthful, Serial!DaemonTypeOK

\* The extra workers after a step that adds none, puts one in another's place, or
\* gives up on one.
LEMMA ExtrasFit ==
  ASSUME Serial!SerialInv, late' \subseteq Workers,
         NEW v, NEW w,
         \/ Serial!Extras' \subseteq Serial!Extras /\ late \subseteq late'
         \/ /\ w \in Serial!Extras /\ Serial!Extras' \subseteq (Serial!Extras \ {w}) \cup {v}
            /\ late' = late
         \/ /\ w \notin late /\ late' = late \cup {w}
            /\ Serial!Extras' \subseteq Serial!Extras \cup {w}
  PROVE  /\ Serial!Cardinality(Serial!Extras') <= Serial!Cardinality(late')
         /\ late' = {} => Serial!Extras' = {}
  <1>a. PICK E, F, J, K : /\ E = Serial!Extras /\ F = Serial!Extras'
                          /\ J = late /\ K = late'
    OBVIOUS
  <1>1. /\ IsFiniteSet(E) /\ IsFiniteSet(F) /\ IsFiniteSet(J) /\ IsFiniteSet(K)
        /\ Cardinality(E) <= Cardinality(J)
    <2>1. E \subseteq Workers /\ F \subseteq Workers /\ J \subseteq Workers /\ K \subseteq Workers
      BY <1>a DEF Serial!Extras, Serial!SerialInv, Serial!DaemonTypeOK
    <2>2. Cardinality(E) <= Cardinality(J)
      BY <1>a, SerialSize DEF Serial!SerialInv
    <2> QED BY <2>1, <2>2, FS_Subset, DaemonConstants
  <1>2. /\ Cardinality(E) \in Nat /\ Cardinality(F) \in Nat
        /\ Cardinality(J) \in Nat /\ Cardinality(K) \in Nat
    BY <1>1, FS_CardinalityType
  <1>3. Cardinality(F) <= Cardinality(K)
    <2>1. CASE F \subseteq E /\ J \subseteq K
      <3>1. Cardinality(F) <= Cardinality(E) /\ Cardinality(J) <= Cardinality(K)
        BY <1>1, <2>1, FS_Subset
      <3> QED BY <1>1, <1>2, <3>1
    <2>2. CASE w \in E /\ F \subseteq (E \ {w}) \cup {v} /\ K = J
      <3>1. IsFiniteSet(E \ {w}) /\ Cardinality(E \ {w}) = Cardinality(E) - 1
        BY <1>1, <2>2, FS_RemoveElement
      <3>2. /\ IsFiniteSet((E \ {w}) \cup {v})
            /\ \/ Cardinality((E \ {w}) \cup {v}) = Cardinality(E \ {w})
               \/ Cardinality((E \ {w}) \cup {v}) = Cardinality(E \ {w}) + 1
        BY <3>1, FS_AddElement
      <3>3. Cardinality(F) <= Cardinality((E \ {w}) \cup {v})
        BY <2>2, <3>2, FS_Subset
      <3> QED BY <1>1, <1>2, <2>2, <3>1, <3>2, <3>3
    <2>3. CASE w \notin J /\ K = J \cup {w} /\ F \subseteq E \cup {w}
      <3>1. Cardinality(K) = Cardinality(J) + 1
        BY <1>1, <2>3, FS_AddElement
      <3>2. /\ IsFiniteSet(E \cup {w})
            /\ \/ Cardinality(E \cup {w}) = Cardinality(E)
               \/ Cardinality(E \cup {w}) = Cardinality(E) + 1
        BY <1>1, FS_AddElement
      <3>3. Cardinality(F) <= Cardinality(E \cup {w})
        BY <2>3, <3>2, FS_Subset
      <3> QED BY <1>1, <1>2, <3>1, <3>2, <3>3
    <2> QED BY <1>a, <2>1, <2>2, <2>3
  <1>4. ASSUME K = {} PROVE F = {}
    <2>1. Cardinality(K) = 0
      BY <1>4, FS_EmptySet
    <2>2. Cardinality(F) = 0
      BY <1>2, <1>3, <2>1
    <2> QED BY <1>1, <2>2, FS_EmptySet
  <1> QED BY <1>a, <1>3, <1>4, SerialSize

LEMMA NoneExtra ==
  ASSUME Serial!SerialInv, late = {}
  PROVE  \A w \in Workers : Serial!Running(w) => Serial!Minded(w)
  <1>1. Serial!Extras = {}
    <2>1. /\ Cardinality(Serial!Extras) <= Cardinality({}) /\ Serial!Extras \subseteq Workers
      BY SerialSize DEF Serial!SerialInv, Serial!Extras
    <2>2. IsFiniteSet(Serial!Extras) /\ Cardinality({}) = 0
      BY <2>1, DaemonConstants, FS_Subset, FS_EmptySet
    <2>3. Cardinality(Serial!Extras) = 0
      BY <2>1, <2>2, FS_CardinalityType
    <2> QED BY <2>2, <2>3, FS_EmptySet
  <1> QED BY <1>1 DEF Serial!Extras

LEMMA SerialStart == Serial!DaemonInit => Serial!SerialInv
  <1> SUFFICES ASSUME Serial!DaemonInit PROVE Serial!SerialInv
    OBVIOUS
  <1>1. Serial!DaemonTypeOK
    BY DaemonConstants DEF Serial!DaemonInit, Serial!DaemonTypeOK
  <1>2. \A w \in Workers : ~Serial!Running(w) /\ ~Serial!Serving(w) /\ ~Serial!UnderWay(w)
                           /\ worker[w] = "none" /\ file # w
    BY DaemonConstants DEF Serial!DaemonInit, Serial!Running, Serial!Serving, Serial!UnderWay
  <1>3. Serial!InTurn
    BY <1>2 DEF Serial!DaemonInit, Serial!InTurn
  <1>4. Serial!NoneAside /\ told
    BY <1>2 DEF Serial!DaemonInit, Serial!NoneAside
  <1>5. Serial!Extras = {} /\ late = {}
    BY <1>2 DEF Serial!Extras, Serial!DaemonInit
  <1>6. Cardinality({}) = 0
    BY FS_EmptySet
  <1> QED BY <1>1, <1>3, <1>4, <1>5, <1>6, SerialSize DEF Serial!SerialInv, Serial!StatusTruthful

\* Between commands only the file tells which worker is minded.
LEMMA Quiet ==
  ASSUME Serial!SerialInv, ~Serial!Busy
  PROVE  /\ command.phase = "idle" /\ status = "idle" /\ \A l \in Workers : ~Serial!UnderWay(l)
         /\ \A w \in Workers : Serial!Minded(w) <=> file = w
         /\ ~Serial!FileAlive => \A w \in Workers : Serial!Running(w) => ~Serial!Minded(w)
  BY DaemonConstants DEF Serial!Busy, Serial!Minded, Serial!FileAlive, Serial!Alive

LEMMA BeginLaunchInv ==
  ASSUME Serial!SerialInv, NEW l \in Workers, Serial!BeginLaunch(l)
  PROVE  Serial!SerialInv'
  <1>1. PICK st \in {"refused", "checked", "stale"} :
          /\ launch[l] = "new" /\ ~Serial!Busy
          /\ launch' = [launch EXCEPT ![l] = st]
          /\ st # "refused" => ~Serial!FileAlive
          /\ st = "checked" => file = NoPid
          /\ UNCHANGED <<file, worker, command, status, stops, termed, told, late>>
    BY DEF Serial!BeginLaunch
  <1>2. Serial!DaemonTypeOK /\ Serial!InTurn
    BY SerialFacts
  <1>3. \A m \in Workers : launch'[m] = IF m = l THEN st ELSE launch[m]
    BY <1>1, <1>2 DEF Serial!DaemonTypeOK
  <1>4. /\ command.phase = "idle" /\ status = "idle" /\ \A m \in Workers : ~Serial!UnderWay(m)
        /\ \A w \in Workers : Serial!Minded(w) <=> file = w
        /\ ~Serial!FileAlive => \A w \in Workers : Serial!Running(w) => ~Serial!Minded(w)
    BY <1>1, Quiet
  <1>5. Serial!DaemonTypeOK'
    BY <1>1, <1>2 DEF Serial!DaemonTypeOK
  <1>6. /\ \A w \in Workers : Serial!Running(w)' <=> Serial!Running(w)
        /\ \A w \in Workers : Serial!Serving(w)' <=> Serial!Serving(w)
        /\ \A m \in Workers : Serial!UnderWay(m)' <=> m = l /\ st # "refused"
    BY <1>1, <1>3, <1>4 DEF Serial!Running, Serial!Serving, Serial!UnderWay
  <1>7. Serial!InTurn'
    BY <1>1, <1>2, <1>3, <1>4, <1>6 DEF Serial!InTurn
  <1>8. Serial!Extras' \subseteq Serial!Extras
    <2>1. st = "refused" => \A w \in Workers : Serial!Minded(w)' <=> file = w
      BY <1>1, <1>4, <1>6 DEF Serial!Minded, Serial!Busy
    <2> QED BY <1>1, <1>4, <1>6, <2>1 DEF Serial!Extras
  <1>9. ASSUME late' = {} PROVE Serial!NoneAside' /\ told'
    <2>1. Serial!NoneAside /\ told
      BY <1>1, <1>9, SerialFacts
    <2>2. \A w \in Workers : worker[w] \notin {"starting", "clear"}
      BY <1>4, <2>1 DEF Serial!NoneAside, Serial!UnderWay
    <2> QED BY <1>1, <1>3, <1>6, <2>1, <2>2 DEF Serial!NoneAside
  <1>10. Serial!Cardinality(Serial!Extras') <= Serial!Cardinality(late')
    BY <1>1, <1>2, <1>8, ExtrasFit DEF Serial!DaemonTypeOK
  <1> QED BY <1>5, <1>7, <1>9, <1>10 DEF Serial!SerialInv, Serial!StatusTruthful

\* The launch under way, before and while it waits.
LEMMA LaunchAlone ==
  ASSUME Serial!SerialInv, NEW l \in Workers, Serial!UnderWay(l)
  PROVE  /\ command.phase = "idle" /\ status = "idle"
         /\ \A m \in Workers : Serial!UnderWay(m) <=> m = l
         /\ \A w \in Workers : Serial!Minded(w) <=> w = l
         /\ Serial!Busy
  <1>1. /\ command.phase = "idle" /\ status = "idle"
        /\ \A m \in Workers : Serial!UnderWay(m) <=> m = l
    BY SerialFacts DEF Serial!InTurn
  <1> QED BY <1>1 DEF Serial!Minded, Serial!Busy

LEMMA LaunchCleansInv ==
  ASSUME Serial!SerialInv, NEW l \in Workers, Serial!LaunchCleans(l)
  PROVE  Serial!SerialInv'
  <1>1. /\ launch[l] = "stale" /\ launch' = [launch EXCEPT ![l] = "checked"] /\ file' = NoPid
        /\ UNCHANGED <<worker, command, status, stops, termed, told, late>>
    BY DEF Serial!LaunchCleans
  <1>2. Serial!DaemonTypeOK /\ Serial!InTurn
    BY SerialFacts
  <1>3. \A m \in Workers : launch'[m] = IF m = l THEN "checked" ELSE launch[m]
    BY <1>1, <1>2 DEF Serial!DaemonTypeOK
  <1>4. /\ command.phase = "idle" /\ status = "idle"
        /\ \A m \in Workers : Serial!UnderWay(m) <=> m = l
        /\ \A w \in Workers : Serial!Minded(w) <=> w = l
    BY <1>1, LaunchAlone DEF Serial!UnderWay
  <1>5. Serial!DaemonTypeOK'
    BY <1>1, <1>2 DEF Serial!DaemonTypeOK
  <1>6. /\ \A w \in Workers : Serial!Running(w)' <=> Serial!Running(w)
        /\ \A w \in Workers : Serial!Serving(w)' <=> Serial!Serving(w)
        /\ \A m \in Workers : Serial!UnderWay(m)' <=> m = l
        /\ \A w \in Workers : file' # w
    BY <1>1, <1>3, <1>4, DaemonConstants DEF Serial!Running, Serial!Serving, Serial!UnderWay
  <1>7. Serial!InTurn'
    BY <1>1, <1>2, <1>3, <1>4, <1>6 DEF Serial!InTurn
  <1>8. Serial!Extras' \subseteq Serial!Extras
    <2>1. \A w \in Workers : Serial!Minded(w)' <=> w = l
      BY <1>1, <1>4, <1>6 DEF Serial!Minded, Serial!Busy
    <2> QED BY <1>4, <1>6, <2>1 DEF Serial!Extras
  <1>9. ASSUME late' = {} PROVE Serial!NoneAside' /\ told'
    <2>1. Serial!NoneAside /\ told
      BY <1>1, <1>9, SerialFacts
    <2>2. \A w \in Workers : ~Serial!Running(w)
      <3>1. \A w \in Workers : Serial!Running(w) => w = l
        BY <1>1, <1>4, <1>9, NoneExtra
      <3>2. ~Serial!Running(l)
        BY <1>1, <1>2 DEF Serial!InTurn, Serial!Running, Serial!Serving
      <3> QED BY <3>1, <3>2
    <2> QED BY <1>1, <1>3, <1>6, <2>1, <2>2 DEF Serial!NoneAside, Serial!Running
  <1>10. Serial!Cardinality(Serial!Extras') <= Serial!Cardinality(late')
    BY <1>1, <1>2, <1>8, ExtrasFit DEF Serial!DaemonTypeOK
  <1> QED BY <1>5, <1>7, <1>9, <1>10 DEF Serial!SerialInv, Serial!StatusTruthful

LEMMA SpawnInv ==
  ASSUME Serial!SerialInv, NEW l \in Workers, Serial!Spawn(l)
  PROVE  Serial!SerialInv'
  <1>1. /\ launch[l] = "checked"
        /\ launch' = [launch EXCEPT ![l] = "waiting"]
        /\ worker' = [worker EXCEPT ![l] = "starting"]
        /\ UNCHANGED <<file, command, status, stops, termed, told, late>>
    BY DEF Serial!Spawn
  <1>2. Serial!DaemonTypeOK /\ Serial!InTurn
    BY SerialFacts
  <1>3. \A m \in Workers : /\ launch'[m] = IF m = l THEN "waiting" ELSE launch[m]
                           /\ worker'[m] = IF m = l THEN "starting" ELSE worker[m]
    BY <1>1, <1>2 DEF Serial!DaemonTypeOK
  <1>4. /\ command.phase = "idle" /\ status = "idle"
        /\ \A m \in Workers : Serial!UnderWay(m) <=> m = l
        /\ \A w \in Workers : Serial!Minded(w) <=> w = l
    BY <1>1, LaunchAlone DEF Serial!UnderWay
  <1>5. Serial!DaemonTypeOK'
    BY <1>1, <1>2 DEF Serial!DaemonTypeOK
  <1>6. /\ \A w \in Workers : w # l => (Serial!Running(w)' <=> Serial!Running(w))
        /\ \A w \in Workers : Serial!Serving(w)' => w # l /\ Serial!Serving(w)
        /\ \A m \in Workers : Serial!UnderWay(m)' <=> m = l
        /\ worker[l] = "none" /\ file # l
    BY <1>1, <1>2, <1>3, <1>4 DEF Serial!Running, Serial!Serving, Serial!UnderWay, Serial!InTurn
  <1>7. Serial!InTurn'
    BY <1>1, <1>2, <1>3, <1>4, <1>6 DEF Serial!InTurn
  <1>8. Serial!Extras' \subseteq Serial!Extras
    <2>1. \A w \in Workers : Serial!Minded(w)' <=> w = l
      BY <1>1, <1>4, <1>6 DEF Serial!Minded, Serial!Busy
    <2> QED BY <1>4, <1>6, <2>1 DEF Serial!Extras
  <1>9. ASSUME late' = {} PROVE Serial!NoneAside' /\ told'
    <2>1. Serial!NoneAside /\ told
      BY <1>1, <1>9, SerialFacts
    <2>2. file = NoPid
      BY <1>1, <1>4, <1>6, <2>1 DEF Serial!NoneAside
    <2> QED BY <1>1, <1>3, <1>6, <2>1, <2>2 DEF Serial!NoneAside
  <1>10. Serial!Cardinality(Serial!Extras') <= Serial!Cardinality(late')
    BY <1>1, <1>2, <1>8, ExtrasFit DEF Serial!DaemonTypeOK
  <1> QED BY <1>5, <1>7, <1>9, <1>10 DEF Serial!SerialInv, Serial!StatusTruthful

\* A launch leaves its worker dead or listed, or else gives up on it.
LEMMA LaunchReturnsInv ==
  ASSUME Serial!SerialInv, NEW l \in Workers, Serial!LaunchReturns(l)
  PROVE  Serial!SerialInv'
  <1>1. PICK st \in {"worker_exited", "started", "timeout"} :
          /\ launch' = [launch EXCEPT ![l] = st]
          /\ launch[l] = "waiting"
          /\ \/ late' = late /\ (Serial!Running(l) => file = l)
             \/ late' = late \cup {l} /\ st = "timeout"
          /\ UNCHANGED <<file, worker, command, status, stops, termed, told>>
    BY DEF Serial!LaunchReturns, Serial!Alive
  <1>2. Serial!DaemonTypeOK /\ Serial!InTurn
    BY SerialFacts
  <1>3. \A m \in Workers : launch'[m] = IF m = l THEN st ELSE launch[m]
    BY <1>1, <1>2 DEF Serial!DaemonTypeOK
  <1>4. /\ command.phase = "idle" /\ status = "idle"
        /\ \A m \in Workers : Serial!UnderWay(m) <=> m = l
        /\ \A w \in Workers : Serial!Minded(w) <=> w = l
        /\ l \notin late
    BY <1>1, <1>2, LaunchAlone DEF Serial!UnderWay, Serial!InTurn
  <1>5. Serial!DaemonTypeOK'
    BY <1>1, <1>2 DEF Serial!DaemonTypeOK
  <1>6. /\ \A w \in Workers : Serial!Running(w)' <=> Serial!Running(w)
        /\ \A w \in Workers : Serial!Serving(w)' <=> Serial!Serving(w)
        /\ \A m \in Workers : ~Serial!UnderWay(m)'
    BY <1>1, <1>3, <1>4 DEF Serial!Running, Serial!Serving, Serial!UnderWay
  <1>7. Serial!InTurn'
    BY <1>1, <1>2, <1>3, <1>4, <1>6 DEF Serial!InTurn
  <1>8. /\ Serial!Extras' \subseteq Serial!Extras \cup {l}
        /\ (Serial!Running(l) /\ file # l) \/ Serial!Extras' \subseteq Serial!Extras
    <2>1. \A w \in Workers : Serial!Minded(w)' <=> file = w
      BY <1>1, <1>4, <1>6 DEF Serial!Minded, Serial!Busy
    <2> QED BY <1>4, <1>6, <2>1 DEF Serial!Extras
  <1>9. ASSUME late' = {} PROVE Serial!NoneAside' /\ told'
    <2>1. Serial!NoneAside /\ told /\ (Serial!Running(l) => file = l)
      BY <1>1, <1>9, SerialFacts
    <2>2. worker[l] \notin {"starting", "clear"}
      BY <1>2, <2>1 DEF Serial!InTurn, Serial!Running
    <2> QED BY <1>1, <1>3, <1>6, <2>1, <2>2 DEF Serial!NoneAside
  <1>10. Serial!Cardinality(Serial!Extras') <= Serial!Cardinality(late')
    <2>1. late' \subseteq Workers
      BY <1>5 DEF Serial!DaemonTypeOK
    <2>2. CASE late' = late
      BY <1>1, <1>4, <1>8, <2>1, <2>2, ExtrasFit
    <2>3. CASE late' = late \cup {l}
      BY <1>4, <1>8, <2>1, <2>3, ExtrasFit
    <2> QED BY <1>1, <2>2, <2>3
  <1> QED BY <1>5, <1>7, <1>9, <1>10 DEF Serial!SerialInv, Serial!StatusTruthful

LEMMA CheckFileInv ==
  ASSUME Serial!SerialInv, NEW w \in Workers, Serial!CheckFile(w)
  PROVE  Serial!SerialInv'
  <1>1. PICK st \in {"unlisted", "clear"} :
          /\ worker[w] = "starting" /\ worker' = [worker EXCEPT ![w] = st]
          /\ st = "unlisted" => Serial!ListedOther(w)
          /\ UNCHANGED <<file, launch, command, status, stops, termed, told, late>>
    BY DEF Serial!CheckFile
  <1>2. Serial!DaemonTypeOK /\ Serial!InTurn
    BY SerialFacts
  <1>3. \A v \in Workers : worker'[v] = IF v = w THEN st ELSE worker[v]
    BY <1>1, <1>2 DEF Serial!DaemonTypeOK
  <1>4. Serial!DaemonTypeOK'
    BY <1>1, <1>2 DEF Serial!DaemonTypeOK
  <1>5. /\ \A v \in Workers : Serial!Running(v)' <=> Serial!Running(v)
        /\ \A v \in Workers : v # w => (Serial!Serving(v)' <=> Serial!Serving(v))
        /\ \A m \in Workers : Serial!UnderWay(m)' <=> Serial!UnderWay(m)
        /\ file # w
    BY <1>1, <1>2, <1>3 DEF Serial!Running, Serial!Serving, Serial!UnderWay, Serial!InTurn
  <1>6. Serial!InTurn'
    BY <1>1, <1>2, <1>3, <1>5 DEF Serial!InTurn
  <1>7. Serial!Extras' \subseteq Serial!Extras
    BY <1>1, <1>5 DEF Serial!Extras, Serial!Minded, Serial!Busy
  <1>8. ASSUME late' = {} PROVE Serial!NoneAside' /\ told'
    <2>1. Serial!NoneAside /\ told
      BY <1>1, <1>8, SerialFacts
    <2>2. file = NoPid /\ launch[w] = "waiting"
      BY <1>1, <1>5, <2>1 DEF Serial!NoneAside, Serial!UnderWay
    <2>3. st = "clear"
      BY <1>1, <2>2 DEF Serial!ListedOther
    <2>4. ~Serial!Serving(w)'
      BY <1>3, <2>3 DEF Serial!Serving
    <2> QED BY <1>1, <1>3, <1>5, <2>1, <2>2, <2>4 DEF Serial!NoneAside
  <1>9. Serial!Cardinality(Serial!Extras') <= Serial!Cardinality(late')
    BY <1>1, <1>2, <1>7, ExtrasFit DEF Serial!DaemonTypeOK
  <1> QED BY <1>4, <1>6, <1>8, <1>9 DEF Serial!SerialInv, Serial!StatusTruthful

\* A worker that lists itself takes the place of the one that was listed.
LEMMA WriteFileInv ==
  ASSUME Serial!SerialInv, NEW w \in Workers, Serial!WriteFile(w)
  PROVE  Serial!SerialInv'
  <1>1. /\ worker[w] = "clear" /\ worker' = [worker EXCEPT ![w] = "listed"] /\ file' = w
        /\ UNCHANGED <<launch, command, status, stops, termed, told, late>>
    BY DEF Serial!WriteFile
  <1>2. Serial!DaemonTypeOK /\ Serial!InTurn
    BY SerialFacts
  <1>3. \A v \in Workers : worker'[v] = IF v = w THEN "listed" ELSE worker[v]
    BY <1>1, <1>2 DEF Serial!DaemonTypeOK
  <1>4. Serial!DaemonTypeOK'
    BY <1>1, <1>2 DEF Serial!DaemonTypeOK
  <1>5. /\ \A v \in Workers : Serial!Running(v)' <=> Serial!Running(v)
        /\ \A v \in Workers : v # w => (Serial!Serving(v)' <=> Serial!Serving(v))
        /\ \A m \in Workers : Serial!UnderWay(m)' <=> Serial!UnderWay(m)
        /\ file # w /\ Serial!Running(w)
    BY <1>1, <1>2, <1>3 DEF Serial!Running, Serial!Serving, Serial!UnderWay, Serial!InTurn
  <1>6. Serial!InTurn'
    BY <1>1, <1>2, <1>3, <1>5 DEF Serial!InTurn
  <1>7. /\ Serial!Busy' <=> Serial!Busy
        /\ Serial!Busy => \A v \in Workers : Serial!Minded(v)' <=> Serial!Minded(v)
        /\ ~Serial!Busy => \A v \in Workers : /\ Serial!Minded(v)' <=> v = w
                                              /\ Serial!Minded(v) <=> v = file
    BY <1>1, <1>5 DEF Serial!Busy, Serial!Minded
  <1>8. Serial!Cardinality(Serial!Extras') <= Serial!Cardinality(late')
    <2>1. late' \subseteq Workers /\ late' = late
      BY <1>1, <1>2 DEF Serial!DaemonTypeOK
    <2>2. CASE Serial!Busy
      <3>1. Serial!Extras' \subseteq Serial!Extras
        BY <1>5, <1>7, <2>2 DEF Serial!Extras
      <3> QED BY <2>1, <3>1, ExtrasFit
    <2>3. CASE ~Serial!Busy
      <3>1. w \in Serial!Extras /\ Serial!Extras' \subseteq (Serial!Extras \ {w}) \cup {file}
        BY <1>5, <1>7, <2>3 DEF Serial!Extras
      <3> QED BY <2>1, <3>1, ExtrasFit
    <2> QED BY <2>2, <2>3
  <1>9. ASSUME late' = {} PROVE Serial!NoneAside' /\ told'
    <2>1. Serial!NoneAside /\ told /\ launch[w] = "waiting" /\ Serial!UnderWay(w)
      BY <1>1, <1>9, SerialFacts DEF Serial!NoneAside, Serial!UnderWay
    <2>2. \A v \in Workers : Serial!Running(v) => v = w
      BY <1>1, <1>9, <2>1, LaunchAlone, NoneExtra
    <2>3. \A m \in Workers : Serial!UnderWay(m) => m = w
      BY <2>1, LaunchAlone
    <2>4. \A v \in Workers : Serial!Serving(v)' => v = w
      BY <1>5, <2>2 DEF Serial!Running
    <2> QED BY <1>1, <1>3, <1>5, <2>1, <2>3, <2>4 DEF Serial!NoneAside
  <1> QED BY <1>4, <1>6, <1>8, <1>9 DEF Serial!SerialInv, Serial!StatusTruthful

\* A worker that is no more, with its file or without it.
LEMMA WorkerLeavesInv ==
  ASSUME Serial!SerialInv, NEW w \in Workers, Serial!LeaveGracefully(w) \/ Serial!Crash(w)
  PROVE  Serial!SerialInv'
  <1>1. /\ Serial!Running(w) /\ worker' = [worker EXCEPT ![w] = "exited"]
        /\ file' = file \/ (file' = NoPid /\ Serial!Serving(w))
        /\ UNCHANGED <<launch, command, status, stops, termed, told, late>>
    BY DEF Serial!LeaveGracefully, Serial!Crash, Serial!Running
  <1>2. Serial!DaemonTypeOK /\ Serial!InTurn
    BY SerialFacts
  <1>3. \A v \in Workers : worker'[v] = IF v = w THEN "exited" ELSE worker[v]
    BY <1>1, <1>2 DEF Serial!DaemonTypeOK
  <1>4. Serial!DaemonTypeOK'
    BY <1>1, <1>2 DEF Serial!DaemonTypeOK
  <1>5. /\ \A v \in Workers : Serial!Running(v)' <=> v # w /\ Serial!Running(v)
        /\ \A v \in Workers : Serial!Serving(v)' <=> v # w /\ Serial!Serving(v)
        /\ \A m \in Workers : Serial!UnderWay(m)' <=> Serial!UnderWay(m)
        /\ \A v \in Workers : file' = v => file = v
        /\ launch[w] \notin {"new", "refused", "stale", "checked"}
    BY <1>1, <1>2, <1>3, DaemonConstants DEF Serial!Running, Serial!Serving, Serial!UnderWay,
       Serial!InTurn
  <1>6. Serial!InTurn'
    BY <1>1, <1>2, <1>3, <1>5 DEF Serial!InTurn
  <1>7. /\ Serial!Busy' <=> Serial!Busy
        /\ Serial!Busy => \A v \in Workers : Serial!Minded(v)' <=> Serial!Minded(v)
        /\ ~Serial!Busy => \A v \in Workers : /\ Serial!Minded(v)' <=> v = file'
                                              /\ Serial!Minded(v) <=> v = file
    BY <1>1, <1>5 DEF Serial!Busy, Serial!Minded
  <1>8. Serial!Cardinality(Serial!Extras') <= Serial!Cardinality(late')
    <2>1. late' \subseteq Workers /\ late' = late
      BY <1>1, <1>2 DEF Serial!DaemonTypeOK
    <2>2. CASE Serial!Busy \/ file' = file \/ file = w
      <3>1. Serial!Extras' \subseteq Serial!Extras
        BY <1>5, <1>7, <2>2 DEF Serial!Extras
      <3> QED BY <2>1, <3>1, ExtrasFit
    <2>3. CASE ~Serial!Busy /\ file # w
      <3>1. w \in Serial!Extras /\ Serial!Extras' \subseteq (Serial!Extras \ {w}) \cup {file}
        BY <1>1, <1>5, <1>7, <2>3 DEF Serial!Extras
      <3> QED BY <2>1, <3>1, ExtrasFit
    <2> QED BY <2>2, <2>3
  <1>9. ASSUME late' = {} PROVE Serial!NoneAside' /\ told'
    <2>1. Serial!NoneAside /\ told
      BY <1>1, <1>9, SerialFacts
    <2>2. /\ \A v \in Workers : worker'[v] \in {"starting", "clear"} => launch'[v] = "waiting"
          /\ \A v \in Workers : Serial!Serving(v)' => worker'[v] = "listed" /\ file' = v
      BY <1>1, <1>3, <1>5, <2>1 DEF Serial!NoneAside
    <2>3. \A l \in Workers :
            Serial!UnderWay(l)' /\ file' # NoPid => file' = l \/ launch'[l] = "stale"
      BY <1>1, <1>5, <2>1 DEF Serial!NoneAside
    <2> QED BY <1>1, <2>1, <2>2, <2>3 DEF Serial!NoneAside
  <1> QED BY <1>4, <1>6, <1>8, <1>9 DEF Serial!SerialInv, Serial!StatusTruthful

\* --stop begins with the worker that is listed.
LEMMA BeginStopInv == ASSUME Serial!SerialInv, Serial!BeginStop PROVE Serial!SerialInv'
  <1>1. PICK ph \in {"stale", "waiting", "killed"} :
          /\ ~Serial!Busy /\ file # NoPid
          /\ stops < MaxStops /\ stops' = stops + 1
          /\ command' = [phase |-> ph, pid |-> file]
          /\ ph = "stale" => ~Serial!FileAlive /\ worker' = worker
          /\ ph = "waiting" => worker' = worker
          /\ ph = "killed" => Serial!FileAlive /\ worker' = [worker EXCEPT ![file] = "exited"]
          /\ termed' \in {termed, termed \cup {file}}
          /\ UNCHANGED <<file, launch, status, told, late>>
    BY DEF Serial!BeginStop
  <1>2. Serial!DaemonTypeOK /\ Serial!InTurn /\ file \in Workers
    BY <1>1, SerialFacts
  <1>3. /\ command.phase = "idle" /\ status = "idle" /\ \A m \in Workers : ~Serial!UnderWay(m)
        /\ \A w \in Workers : Serial!Minded(w) <=> file = w
        /\ ~Serial!FileAlive => \A w \in Workers : Serial!Running(w) => ~Serial!Minded(w)
    BY <1>1, Quiet
  <1>4. /\ \A v \in Workers : worker'[v] = worker[v] \/ (v = file /\ worker'[v] = "exited")
        /\ ph = "killed" => worker'[file] = "exited"
        /\ ph # "killed" => worker' = worker
    BY <1>1, <1>2 DEF Serial!DaemonTypeOK
  <1>5. Serial!DaemonTypeOK'
    <2>1. stops' \in 0..MaxStops
      BY <1>1, <1>2, DaemonConstants DEF Serial!DaemonTypeOK
    <2>2. worker' \in [Workers -> {"none", "starting", "clear", "listed", "unlisted", "exited"}]
      BY <1>1, <1>2 DEF Serial!DaemonTypeOK
    <2> QED BY <1>1, <1>2, <2>1, <2>2 DEF Serial!DaemonTypeOK
  <1>6. /\ \A v \in Workers : Serial!Running(v)' => Serial!Running(v)
        /\ \A v \in Workers : Serial!Serving(v)' => Serial!Serving(v) /\ worker'[v] = worker[v]
        /\ \A m \in Workers : ~Serial!UnderWay(m)'
        /\ ph # "waiting" => ~Serial!Running(file)'
    <2>1. ph = "stale" => ~Serial!Running(file)
      BY <1>1, <1>2, <1>3
    <2> QED BY <1>1, <1>2, <1>3, <1>4, <2>1 DEF Serial!Running, Serial!Serving, Serial!UnderWay
  <1>7. Serial!InTurn'
    <2>1. launch[file] \notin {"new", "refused", "stale", "checked"}
      BY <1>2 DEF Serial!InTurn
    <2>2. command'.phase = ph /\ command'.pid = file
      BY <1>1
    <2> QED BY <1>1, <1>2, <1>3, <1>4, <1>6, <2>1, <2>2 DEF Serial!InTurn
  <1>8. Serial!Extras' \subseteq Serial!Extras
    <2>1. \A w \in Workers : Serial!Minded(w)' <=> w = file
      BY <1>1, <1>6 DEF Serial!Minded, Serial!Busy
    <2> QED BY <1>3, <1>6, <2>1 DEF Serial!Extras
  <1>9. ASSUME late' = {} PROVE Serial!NoneAside' /\ told'
    <2>1. Serial!NoneAside /\ told
      BY <1>1, <1>9, SerialFacts
    <2> QED BY <1>1, <1>4, <1>6, <2>1 DEF Serial!NoneAside
  <1>10. Serial!Cardinality(Serial!Extras') <= Serial!Cardinality(late')
    BY <1>1, <1>2, <1>8, ExtrasFit DEF Serial!DaemonTypeOK
  <1> QED BY <1>5, <1>7, <1>9, <1>10 DEF Serial!SerialInv, Serial!StatusTruthful

LEMMA StopKillsInv == ASSUME Serial!SerialInv, Serial!StopKills PROVE Serial!SerialInv'
  <1>1. /\ command.phase = "waiting"
        /\ worker' = [worker EXCEPT ![command.pid] = "exited"]
        /\ command' = [command EXCEPT !.phase = "killed"]
        /\ Serial!Alive(command.pid)
        /\ UNCHANGED <<file, launch, status, stops, termed, told, late>>
    BY DEF Serial!StopKills
  <1>2. Serial!DaemonTypeOK /\ Serial!InTurn
    BY SerialFacts
  <1>a. PICK p : p = command.pid
    OBVIOUS
  <1>3. /\ p \in Workers /\ status = "idle" /\ \A l \in Workers : ~Serial!UnderWay(l)
        /\ command'.phase = "killed" /\ command'.pid = p
    BY <1>1, <1>2, <1>a DEF Serial!InTurn, Serial!DaemonTypeOK
  <1>4. \A v \in Workers : worker'[v] = IF v = p THEN "exited" ELSE worker[v]
    BY <1>1, <1>2, <1>a DEF Serial!DaemonTypeOK
  <1>5. Serial!DaemonTypeOK'
    BY <1>1, <1>2, <1>3, <1>a DEF Serial!DaemonTypeOK
  <1>6. /\ \A v \in Workers : Serial!Running(v)' <=> v # p /\ Serial!Running(v)
        /\ \A v \in Workers : Serial!Serving(v)' <=> v # p /\ Serial!Serving(v)
        /\ \A m \in Workers : ~Serial!UnderWay(m)'
        /\ launch[p] \notin {"new", "refused", "stale", "checked"}
    <2>1. worker[p] # "none"
      BY <1>1, <1>a DEF Serial!Alive, Serial!Running, Serial!Serving
    <2> QED BY <1>1, <1>2, <1>3, <1>4, <2>1 DEF Serial!Running, Serial!Serving,
               Serial!UnderWay, Serial!InTurn
  <1>7. Serial!InTurn'
    BY <1>1, <1>2, <1>3, <1>4, <1>6 DEF Serial!InTurn
  <1>8. Serial!Extras' \subseteq Serial!Extras
    BY <1>1, <1>3, <1>6, <1>a DEF Serial!Extras, Serial!Minded, Serial!Busy
  <1>9. ASSUME late' = {} PROVE Serial!NoneAside' /\ told'
    <2>1. Serial!NoneAside /\ told
      BY <1>1, <1>9, SerialFacts
    <2> QED BY <1>1, <1>4, <1>6, <2>1 DEF Serial!NoneAside
  <1>10. Serial!Cardinality(Serial!Extras') <= Serial!Cardinality(late')
    BY <1>1, <1>2, <1>8, ExtrasFit DEF Serial!DaemonTypeOK
  <1> QED BY <1>5, <1>7, <1>9, <1>10 DEF Serial!SerialInv, Serial!StatusTruthful

\* --stop and --status come back; what they minded is no more.
LEMMA CommandReturnsInv ==
  ASSUME Serial!SerialInv, Serial!KillFails \/ Serial!StopCleans \/ Serial!StatusCleans
  PROVE  Serial!SerialInv'
  <1>2. Serial!DaemonTypeOK /\ Serial!InTurn
    BY SerialFacts
  <1>1. /\ \/ command.phase # "idle" /\ command' = Serial!StopIdle /\ status' = status
           \/ status = "stale" /\ status' = "idle" /\ command' = command
        /\ file' = file \/ file' = NoPid
        /\ UNCHANGED <<worker, launch, stops, termed, told, late>>
    BY DEF Serial!KillFails, Serial!StopCleans, Serial!StopOver, Serial!OnlyWhenDead,
           Serial!StatusCleans
  <1>3. /\ \A w \in Workers : Serial!Running(w) => ~Serial!Minded(w)
        /\ \A l \in Workers : ~Serial!UnderWay(l)
        /\ command'.phase = "idle" /\ status' = "idle"
    <2>1. CASE Serial!StatusCleans
      <3>1. status = "stale" /\ status' = "idle" /\ command' = command
        BY <2>1 DEF Serial!StatusCleans
      <3>2. command.phase = "idle" /\ \A l \in Workers : ~Serial!UnderWay(l)
        BY <1>2, <3>1 DEF Serial!InTurn
      <3> QED BY <3>1, <3>2 DEF Serial!Minded, Serial!Busy
    <2>2. CASE Serial!KillFails \/ Serial!StopCleans
      <3>1. /\ command.phase # "idle" /\ command'.phase = "idle" /\ status' = status
            /\ ~Serial!Running(command.pid)
        BY <1>2, <2>2 DEF Serial!KillFails, Serial!StopCleans, Serial!StopOver, Serial!StopIdle,
           Serial!OnlyWhenDead, Serial!Alive, Serial!InTurn
      <3>2. status = "idle" /\ \A l \in Workers : ~Serial!UnderWay(l)
        BY <1>2, <3>1 DEF Serial!InTurn
      <3> QED BY <3>1, <3>2 DEF Serial!Minded, Serial!Busy
    <2> QED BY <2>1, <2>2
  <1>4. Serial!DaemonTypeOK'
    BY <1>1, <1>2 DEF Serial!DaemonTypeOK, Serial!StopIdle
  <1>5. /\ \A v \in Workers : Serial!Running(v)' <=> Serial!Running(v)
        /\ \A v \in Workers : Serial!Serving(v)' <=> Serial!Serving(v)
        /\ \A m \in Workers : ~Serial!UnderWay(m)'
        /\ \A v \in Workers : file' = v => file = v
    BY <1>1, <1>3, DaemonConstants DEF Serial!Running, Serial!Serving, Serial!UnderWay
  <1>6. Serial!InTurn'
    BY <1>1, <1>2, <1>3, <1>5 DEF Serial!InTurn
  <1>7. Serial!Extras' \subseteq Serial!Extras
    BY <1>3, <1>5 DEF Serial!Extras
  <1>8. ASSUME late' = {} PROVE Serial!NoneAside' /\ told'
    <2>1. Serial!NoneAside /\ told
      BY <1>1, <1>8, SerialFacts
    <2>2. \A w \in Workers : ~Serial!Running(w)
      BY <1>1, <1>3, <1>8, NoneExtra
    <2> QED BY <1>1, <1>5, <2>1, <2>2 DEF Serial!NoneAside, Serial!Running
  <1>9. Serial!Cardinality(Serial!Extras') <= Serial!Cardinality(late')
    BY <1>1, <1>2, <1>7, ExtrasFit DEF Serial!DaemonTypeOK
  <1> QED BY <1>4, <1>6, <1>8, <1>9 DEF Serial!SerialInv, Serial!StatusTruthful

\* --status finds the worker that trades.
LEMMA BeginStatusInv == ASSUME Serial!SerialInv, Serial!BeginStatus PROVE Serial!SerialInv'
  <1>1. /\ ~Serial!Busy
        /\ told' = (Serial!FileAlive \/ \A w \in Workers : ~Serial!Serving(w))
        /\ status' = IF file # NoPid /\ ~Serial!FileAlive THEN "stale" ELSE "idle"
        /\ UNCHANGED <<file, worker, launch, command, stops, termed, late>>
    BY DEF Serial!BeginStatus
  <1>2. Serial!DaemonTypeOK /\ Serial!InTurn
    BY SerialFacts
  <1>3. /\ command.phase = "idle" /\ status = "idle" /\ \A m \in Workers : ~Serial!UnderWay(m)
        /\ \A w \in Workers : Serial!Minded(w) <=> file = w
        /\ ~Serial!FileAlive => \A w \in Workers : Serial!Running(w) => ~Serial!Minded(w)
    BY <1>1, Quiet
  <1>4. Serial!DaemonTypeOK'
    BY <1>1, <1>2 DEF Serial!DaemonTypeOK
  <1>5. /\ \A v \in Workers : Serial!Running(v)' <=> Serial!Running(v)
        /\ \A v \in Workers : Serial!Serving(v)' <=> Serial!Serving(v)
        /\ \A m \in Workers : ~Serial!UnderWay(m)'
    BY <1>1, <1>3 DEF Serial!Running, Serial!Serving, Serial!UnderWay
  <1>6. Serial!InTurn'
    BY <1>1, <1>2, <1>3, <1>5 DEF Serial!InTurn
  <1>7. Serial!Extras' \subseteq Serial!Extras
    <2>1. CASE status' = "idle"
      <3>1. \A w \in Workers : Serial!Minded(w)' <=> file = w
        BY <1>1, <1>3, <1>5, <2>1 DEF Serial!Minded, Serial!Busy
      <3> QED BY <1>3, <1>5, <3>1 DEF Serial!Extras
    <2>2. CASE status' # "idle"
      BY <1>1, <1>3, <1>5, <2>2 DEF Serial!Extras
    <2> QED BY <2>1, <2>2
  <1>8. ASSUME late' = {} PROVE Serial!NoneAside' /\ told'
    <2>1. Serial!NoneAside
      BY <1>1, <1>8, SerialFacts
    <2>2. \A w \in Workers : Serial!Serving(w) => Serial!FileAlive
      BY <2>1, DaemonConstants DEF Serial!NoneAside, Serial!FileAlive, Serial!Alive, Serial!Running
    <2> QED BY <1>1, <1>5, <2>1, <2>2 DEF Serial!NoneAside
  <1>9. Serial!Cardinality(Serial!Extras') <= Serial!Cardinality(late')
    BY <1>1, <1>2, <1>7, ExtrasFit DEF Serial!DaemonTypeOK
  <1> QED BY <1>4, <1>6, <1>8, <1>9 DEF Serial!SerialInv, Serial!StatusTruthful

LEMMA SerialStep == Serial!SerialInv /\ [Serial!DaemonNext]_daemonVars => Serial!SerialInv'
  <1>1. ASSUME Serial!SerialInv, UNCHANGED daemonVars PROVE Serial!SerialInv'
    BY <1>1 DEF daemonVars, Serial!SerialInv, Serial!DaemonTypeOK, Serial!InTurn,
                Serial!NoneAside, Serial!StatusTruthful, Serial!UnderWay, Serial!Extras,
                Serial!Minded, Serial!Busy, Serial!Running, Serial!Serving
  <1>2. ASSUME Serial!SerialInv, NEW l \in Workers,
               Serial!LaunchStep(l) \/ Serial!WorkerStep(l) \/ Serial!Crash(l)
        PROVE  Serial!SerialInv'
    BY <1>2, BeginLaunchInv, LaunchCleansInv, SpawnInv, LaunchReturnsInv, CheckFileInv,
       WriteFileInv, WorkerLeavesInv
       DEF Serial!LaunchStep, Serial!LaunchGoesOn, Serial!WorkerStep
  <1>3. ASSUME Serial!SerialInv, Serial!StopStep \/ Serial!StatusCleans PROVE Serial!SerialInv'
    BY <1>3, StopKillsInv, CommandReturnsInv DEF Serial!StopStep
  <1> QED BY <1>1, <1>2, <1>3, BeginStopInv, BeginStatusInv DEF Serial!DaemonNext

\* Of those that run all but one are extras.
LEMMA AtMostOneServer ==
  Serial!SerialInv => /\ Serial!OneServer
                      /\ late = {} => Serial!ServerIsListed /\ Serial!StatusTruthful
  <1> SUFFICES ASSUME Serial!SerialInv
               PROVE  /\ Serial!OneServer
                      /\ late = {} => Serial!ServerIsListed /\ Serial!StatusTruthful
    OBVIOUS
  <1>1. \E x : \A w \in Workers : Serial!Minded(w) => w = x
    <2>1. CASE \E l \in Workers : Serial!UnderWay(l)
      <3>1. PICK l \in Workers : Serial!UnderWay(l)
        BY <2>1
      <3> QED BY <3>1, LaunchAlone
    <2>2. CASE ~\E l \in Workers : Serial!UnderWay(l)
      <3>1. \A w \in Workers : Serial!Minded(w) => w = command.pid \/ (~Serial!Busy /\ w = file)
        BY <2>2 DEF Serial!Minded
      <3>2. \A w \in Workers : ~Serial!Busy /\ Serial!Minded(w) => w = file
        BY DEF Serial!Minded
      <3> QED BY <3>1, <3>2
    <2> QED BY <2>1, <2>2
  <1>2. PICK x : \A w \in Workers : Serial!Minded(w) => w = x
    BY <1>1
  <1>a. PICK E, R : E = Serial!Extras /\ R = Serial!RunningNow
    OBVIOUS
  <1>3. R \subseteq E \cup {x} /\ IsFiniteSet(E) /\ IsFiniteSet(late)
    <2>1. E \subseteq Workers /\ late \subseteq Workers /\ R \subseteq E \cup {x}
      BY <1>2, <1>a DEF Serial!Extras, Serial!RunningNow, Serial!SerialInv, Serial!DaemonTypeOK
    <2> QED BY <2>1, FS_Subset, DaemonConstants
  <1>4. /\ IsFiniteSet(E \cup {x})
        /\ Cardinality(E \cup {x}) = Cardinality(E) \/ Cardinality(E \cup {x}) = Cardinality(E) + 1
    BY <1>3, FS_AddElement
  <1>5. Cardinality(R) <= Cardinality(E \cup {x}) /\ IsFiniteSet(R)
    BY <1>3, <1>4, FS_Subset
  <1>6. Cardinality(E) <= Cardinality(late)
    BY <1>a, SerialSize DEF Serial!SerialInv
  <1>7. Cardinality(R) <= Cardinality(late) + 1
    BY <1>3, <1>4, <1>5, <1>6, FS_CardinalityType
  <1>8. Serial!OneServer
    BY <1>a, <1>7, SerialSize DEF Serial!OneServer
  <1>9. ASSUME late = {} PROVE Serial!ServerIsListed
    BY <1>9, NoneExtra DEF Serial!ServerIsListed, Serial!Minded
  <1> QED BY <1>8, <1>9, SerialFacts DEF Serial!StatusTruthful

-----------------------------------------------------------------------------
(* The suite MCServer                                                      *)

SuiteInv ==
  /\ part \in {"end", "serial", "race"}
  /\ part = "end"    => End!ShutdownInv
  /\ part = "serial" => Serial!SerialInv

LEMMA SuiteInvariant == Spec => []SuiteInv
  <1>1. Init => SuiteInv
    BY EndStart, SerialStart DEF Init, SuiteInv
  <1>2. SuiteInv /\ [Next]_vars => SuiteInv'
    <2> SUFFICES ASSUME SuiteInv, [Next]_vars PROVE SuiteInv'
      OBVIOUS
    <2>1. /\ part' = part
          /\ part = "end"    => [End!ShutdownNext]_shutdownVars
          /\ part = "serial" => [Serial!DaemonNext]_daemonVars
      BY DEF Next, vars
    <2> QED BY <2>1, EndStep, SerialStep DEF SuiteInv
  <1> QED BY <1>1, <1>2, PTL DEF Spec

\* launch_background_server, write_server_files: however many launches, stops and
\* status commands a user gives one after the other, and whatever crashes, there is one
\* server and one more at most for each launch that gave up on a worker still starting;
\* while none did, the file names the server and --status tells the truth.
THEOREM OneServerAlways == Spec => []OneServer
  <1>1. SuiteInv => OneServer
    BY AtMostOneServer DEF SuiteInv, OneServer
  <1> QED BY <1>1, SuiteInvariant, PTL

\* stop_server: for all timeouts, and however long handlers are and windows stay open,
\* a worker that --stop killed without --force was held up by handlers for the seconds
\* that --stop waits longer than the worker's own timeout.
THEOREM KilledOnlyAfterDelay == Spec => []KilledOnlyWhenHeld
  <1>1. SuiteInv => KilledOnlyWhenHeld
    BY DEF SuiteInv, KilledOnlyWhenHeld, End!ShutdownInv
  <1> QED BY <1>1, SuiteInvariant, PTL

-----------------------------------------------------------------------------
(* The spot feed                                                           *)

LEMMA SpotConstants ==
  /\ MaxAge \in Nat \ {0} /\ Timeout \in Nat \ {0} /\ ChanCap \in Nat \ {0}
  /\ Far \in Nat /\ Far > MaxAge /\ MaxBusy \in Nat
  /\ Spot!Past = -2 * MaxAge - 2 /\ Spot!Past \in Int /\ Spot!Past < 0
  /\ \A lead \in Spot!Leads : lead \in Spot!Past .. Far
  <1>1. /\ MaxAge \in Nat \ {0} /\ Timeout \in Nat \ {0} /\ ChanCap \in Nat \ {0}
        /\ Far \in Nat /\ Far > MaxAge /\ MaxBusy \in Nat
        /\ Behind \subseteq 0 .. 2 * MaxAge /\ Ahead \subseteq 0 .. Far
    BY FeedsSound DEF Spot!SpotAssumption
  <1>2. Spot!Past = -2 * MaxAge - 2 /\ Spot!Past \in Int /\ Spot!Past < 0
    BY <1>1 DEF Spot!Past
  <1>3. \A b \in Behind : -b \in Spot!Past .. Far
    BY <1>1, <1>2
  <1>4. \A lead \in Ahead : lead \in Spot!Past .. Far
    BY <1>1, <1>2
  <1>5. \A lead \in Spot!Leads : lead \in Spot!Past .. Far
    BY <1>3, <1>4 DEF Spot!Leads
  <1> QED BY <1>1, <1>2, <1>5

LEMMA SpotStart == Spot!Init => Spot!SpotInv
  <1>1. /\ Spot!Past \in Spot!Past .. Far /\ Spot!Past \in Spot!Past .. MaxAge
        /\ 0 \in 0 .. Timeout + 1 /\ 0 \in 0 .. MaxBusy
        /\ MaxAge + 1 \in 0 .. MaxAge + 1 /\ ~(MaxAge + 1 <= MaxAge)
    BY SpotConstants
  <1>2. <<>> \in Seq(Spot!Past .. Far)
    OBVIOUS
  <1> QED BY <1>1, <1>2 DEF Spot!Init, Spot!SpotInv, Spot!TypeOK, Spot!Fresh

\* A second passes: leads sink, to Past at most, and ages grow, to their cap.
LEMMA SpotTick == ASSUME Spot!SpotInv, Spot!Tick PROVE Spot!SpotInv'
  <1>1. \A lead \in Spot!Past .. Far : Spot!Sooner(lead) \in Spot!Past .. Far
    BY SpotConstants DEF Spot!Sooner
  <1>2. /\ chan \in Seq(Spot!Past .. Far) /\ chan' = [i \in 1 .. Len(chan) |-> Spot!Sooner(chan[i])]
        /\ last_payload \in Spot!Past .. Far /\ last_payload' = Spot!Sooner(last_payload)
        /\ quiet \in 0 .. Timeout + 1 /\ quiet' = Spot!Older(quiet, Timeout + 1)
        /\ event_at \in Spot!Past .. MaxAge /\ event_at' = Spot!Sooner(event_at)
        /\ received \in 0 .. MaxAge + 1 /\ received' = Spot!Older(received, MaxAge + 1)
        /\ busy \in 0 .. MaxBusy /\ busy' = IF chan = <<>> THEN 0 ELSE busy + 1
        /\ chan # <<>> => busy < MaxBusy
        /\ sound \in BOOLEAN /\ conn \in {"down", "up"} /\ sound' = sound /\ conn' = conn
        /\ received <= MaxAge => event_at >= -MaxAge - received
    BY DEF Spot!SpotInv, Spot!TypeOK, Spot!Tick, Spot!Fresh
  <1>3. chan' \in Seq(Spot!Past .. Far)
    <2>1. Len(chan) \in Nat /\ \A i \in 1 .. Len(chan) : chan[i] \in Spot!Past .. Far
      BY <1>2, ElementOfSeq, LenProperties
    <2>2. \A i \in 1 .. Len(chan) : Spot!Sooner(chan[i]) \in Spot!Past .. Far
      BY <1>1, <2>1
    <2> QED BY <1>2, <2>1, <2>2, IsASeq
  <1>4. last_payload' \in Spot!Past .. Far
    BY <1>1, <1>2
  <1>5. quiet' \in 0 .. Timeout + 1 /\ received' \in 0 .. MaxAge + 1
    BY <1>2, SpotConstants DEF Spot!Older
  <1>6. busy' \in 0 .. MaxBusy
    BY <1>2, SpotConstants
  <1>7. event_at' \in Spot!Past .. MaxAge
    BY <1>2, SpotConstants DEF Spot!Sooner
  <1>8. received' <= MaxAge => event_at' >= -MaxAge - received'
    BY <1>2, SpotConstants DEF Spot!Sooner, Spot!Older
  <1> QED BY <1>2, <1>3, <1>4, <1>5, <1>6, <1>7, <1>8
        DEF Spot!SpotInv, Spot!TypeOK, Spot!Fresh

\* A payload the subscription takes goes into the channel.
LEMMA SpotPayload ==
  ASSUME Spot!SpotInv, NEW lead \in Spot!Past .. Far, Spot!Payload(lead)
  PROVE  Spot!SpotInv'
  <1>1. chan' \in Seq(Spot!Past .. Far)
    BY AppendProperties DEF Spot!SpotInv, Spot!TypeOK, Spot!Payload
  <1>2. 0 \in 0 .. Timeout + 1
    BY SpotConstants
  <1> QED BY <1>1, <1>2 DEF Spot!SpotInv, Spot!TypeOK, Spot!Payload, Spot!Fresh

\* The handler takes what is no older and no further ahead than MaxAge.
LEMMA SpotHandled == ASSUME Spot!SpotInv, Spot!Handle PROVE Spot!SpotInv'
  <1>1. chan \in Seq(Spot!Past .. Far) /\ chan # <<>> /\ chan' = Tail(chan)
    BY DEF Spot!SpotInv, Spot!TypeOK, Spot!Handle
  <1>2. Head(chan) \in Spot!Past .. Far /\ chan' \in Seq(Spot!Past .. Far)
    BY <1>1, HeadTailProperties
  <1>3. /\ event_at' \in Spot!Past .. MaxAge /\ received' \in 0 .. MaxAge + 1
        /\ received' <= MaxAge => event_at' >= -MaxAge - received'
    <2>1. \/ UNCHANGED <<event_at, received>>
          \/ ~Spot!Refused(Head(chan)) /\ event_at' = Head(chan) /\ received' = 0
      BY DEF Spot!Handle
    <2>2. CASE UNCHANGED <<event_at, received>>
      BY <2>2 DEF Spot!SpotInv, Spot!TypeOK, Spot!Fresh
    <2>3. CASE ~Spot!Refused(Head(chan)) /\ event_at' = Head(chan) /\ received' = 0
      <3>1. Head(chan) >= -MaxAge /\ Head(chan) <= MaxAge
        BY <1>2, <2>3, SpotConstants DEF Spot!Refused
      <3> QED BY <1>2, <2>3, <3>1, SpotConstants
    <2> QED BY <2>1, <2>2, <2>3
  <1>4. 0 \in 0 .. MaxBusy
    BY SpotConstants
  <1> QED BY <1>2, <1>3, <1>4 DEF Spot!SpotInv, Spot!TypeOK, Spot!Handle, Spot!Fresh

LEMMA SpotStep == Spot!SpotInv /\ [Spot!Next]_spotVars => Spot!SpotInv'
  <1> SUFFICES ASSUME Spot!SpotInv, [Spot!Next]_spotVars PROVE Spot!SpotInv'
    OBVIOUS
  <1>1. CASE Spot!Connect
    <2>1. Spot!Past \in Spot!Past .. Far /\ 0 \in 0 .. Timeout + 1
      BY SpotConstants
    <2> QED BY <1>1, <2>1 DEF Spot!SpotInv, Spot!TypeOK, Spot!Connect, Spot!Fresh
  <1>2. CASE Spot!Disconnect \/ Spot!StaleReconnect \/ Spot!BecomeSound
    BY <1>2 DEF Spot!SpotInv, Spot!TypeOK, Spot!Fresh, Spot!Disconnect,
                Spot!StaleReconnect, Spot!BecomeSound
  <1>3. CASE Spot!BadPayload
    BY <1>3, SpotConstants, SpotPayload DEF Spot!BadPayload
  <1>4. CASE Spot!SoundPayload
    <2>1. 0 \in Spot!Past .. Far
      BY SpotConstants
    <2> QED BY <1>4, <2>1, SpotPayload DEF Spot!SoundPayload
  <1>5. CASE UNCHANGED spotVars
    BY <1>5 DEF spotVars, Spot!SpotInv, Spot!TypeOK, Spot!Fresh
  <1> QED BY <1>1, <1>2, <1>3, <1>4, <1>5, SpotTick, SpotHandled DEF Spot!Next

LEMMA SpotIsRecent == Spot!SpotInv => Spot!FreshIsRecent
  BY SpotConstants DEF Spot!SpotInv, Spot!TypeOK, Spot!FreshIsRecent, Spot!Fresh

-----------------------------------------------------------------------------
(* The ATR                                                                 *)

LEMMA AtrConstants == /\ Period \in Nat /\ Period >= 2 /\ StaleAfter \in Nat \ {0}
                      /\ Old \in Nat /\ Old > Period + StaleAfter
  BY FeedsSound DEF Atr!AtrAssumption

\* Bars stay bars, and as many, when they age.
LEMMA AgedBars ==
  ASSUME NEW bars \in Atr!Ages
  PROVE  /\ Atr!Aged(bars) \in Atr!Ages /\ Len(Atr!Aged(bars)) = Len(bars)
         /\ Atr!Aged(bars) = <<>> <=> bars = <<>>
  <1>1. /\ Len(bars) \in Nat /\ DOMAIN bars = 1 .. Len(bars)
        /\ \A i \in 1 .. Len(bars) : bars[i] \in 0 .. Old
    BY ElementOfSeq, LenProperties DEF Atr!Ages
  <1> DEFINE older(i) == IF bars[i] = Old THEN Old ELSE bars[i] + 1
  <1>2. \A i \in 1 .. Len(bars) : older(i) \in 0 .. Old
    BY <1>1, AtrConstants
  <1>3. Atr!Aged(bars) = [i \in 1 .. Len(bars) |-> older(i)]
    BY DEF Atr!Aged
  <1> HIDE DEF older
  <1>4. Atr!Aged(bars) \in Atr!Ages
    BY <1>1, <1>2, <1>3, IsASeq DEF Atr!Ages
  <1>5. Len(Atr!Aged(bars)) = Len(bars)
    BY <1>1, <1>3, <1>4, LenProperties DEF Atr!Ages
  <1>6. Atr!Aged(bars) = <<>> <=> bars = <<>>
    BY <1>4, <1>5, EmptySeq DEF Atr!Ages
  <1> QED BY <1>4, <1>5, <1>6

\* calculate_next_atr never keeps more bars than a period and one.
LEMMA KeptBars ==
  ASSUME NEW bars \in Atr!Ages
  PROVE  /\ Atr!Kept(bars) \in Atr!Ages
         /\ Len(Atr!Kept(bars)) = IF Len(bars) > Period + 1 THEN Period + 1 ELSE Len(bars)
  <1> DEFINE first == IF Len(bars) > Period + 1 THEN Len(bars) - Period ELSE 1
  <1>1. /\ Len(bars) \in Nat /\ \A i \in 1 .. Len(bars) : bars[i] \in 0 .. Old
    BY ElementOfSeq, LenProperties DEF Atr!Ages
  <1>2. /\ first \in Nat \ {0}
        /\ Len(bars) > Period + 1 => first = Len(bars) - Period
        /\ ~(Len(bars) > Period + 1) => first = 1
    BY <1>1, AtrConstants
  <1>3. Atr!Kept(bars) = SubSeq(bars, first, Len(bars))
    BY DEF Atr!Kept
  <1> DEFINE last == Len(bars)
  <1>4. /\ first \in Int /\ last \in Nat /\ first >= 1
        /\ last > Period + 1 => first = last - Period
        /\ ~(last > Period + 1) => first = 1
    BY <1>1, <1>2
  <1>5. Atr!Kept(bars) = SubSeq(bars, first, last)
    BY <1>3
  <1> HIDE DEF first
  <1>6. \A i \in first .. last : bars[i] \in 0 .. Old
    BY <1>1, <1>4
  <1> HIDE DEF last
  <1>7. /\ SubSeq(bars, first, last) \in Seq(0 .. Old)
        /\ Len(SubSeq(bars, first, last)) = IF first <= last THEN last - first + 1 ELSE 0
    BY <1>4, <1>6, SubSeqProperties
  <1>8. Atr!Kept(bars) \in Seq(0 .. Old)
    BY <1>7, <1>5
  <1>9. Len(Atr!Kept(bars)) = IF last > Period + 1 THEN Period + 1 ELSE last
    <2>1. Period \in Nat
      BY AtrConstants
    <2>2. last > Period + 1 => first <= last /\ last - first + 1 = Period + 1
      BY <1>4, <2>1
    <2>3. ~(last > Period + 1) => IF first <= last THEN last - first + 1 = last ELSE last = 0
      BY <1>4
    <2> QED BY <1>7, <1>5, <2>2, <2>3
  <1> QED BY <1>8, <1>9 DEF Atr!Ages, last

\* A long enough history is an ATR, and a shorter one is none.
LEMMA AtrOfBars ==
  ASSUME NEW bars \in Atr!Ages, Len(bars) <= Period + 1
  PROVE  /\ Atr!AtrOf(bars) \in Atr!Ages
         /\ Atr!AtrOf(bars) # <<>> => Len(Atr!AtrOf(bars)) = Period + 1
         /\ Len(bars) = Period + 1 => Atr!AtrOf(bars) = bars /\ bars # <<>>
  <1>1. Len(bars) \in Nat
    BY LenProperties DEF Atr!Ages
  <1>2. Len(bars) = Period + 1 => bars # <<>>
    BY <1>1, AtrConstants
  <1>3. <<>> \in Atr!Ages
    BY DEF Atr!Ages
  <1> QED BY <1>1, <1>2, <1>3, AtrConstants DEF Atr!AtrOf

\* What REST answers is a whole period of bars and the minute under way.
LEMMA RestIsWhole == Atr!RestBars \in Atr!Ages /\ Len(Atr!RestBars) = Period + 1
  <1> DEFINE age(i) == Period + 1 - i
             n      == Period + 1
  <1>1. n \in Nat /\ \A i \in 1 .. n : age(i) \in 0 .. Old
    BY AtrConstants
  <1>2. Atr!RestBars = [i \in 1 .. n |-> age(i)]
    BY DEF Atr!RestBars
  <1> HIDE DEF age, n
  <1>3. Atr!RestBars \in Seq(0 .. Old)
    BY <1>1, <1>2, IsASeq
  <1>4. DOMAIN Atr!RestBars = 1 .. n
    BY <1>2
  <1>5. Len(Atr!RestBars) = n
    BY <1>1, <1>3, <1>4, LenProperties
  <1> QED BY <1>3, <1>5 DEF Atr!Ages, n

LEMMA AtrStart == Atr!Init => Atr!AtrInv
  <1> SUFFICES ASSUME Atr!Init PROVE Atr!AtrInv
    OBVIOUS
  <1>1. <<>> \in Atr!Ages /\ Len(<<>>) = 0
    BY DEF Atr!Ages
  <1>2. /\ 0 <= Period + 1 /\ Old \in 0 .. Old /\ Old # 0
    BY AtrConstants
  <1>3. Atr!Tasks = {"tracker", "watchdog"} /\ "tracker" # "watchdog"
    BY DEF Atr!Tasks
  <1>4. Atr!TypeOK
    BY <1>1, <1>2, <1>3 DEF Atr!Init, Atr!TypeOK
  <1> QED BY <1>2, <1>3, <1>4 DEF Atr!Init, Atr!AtrInv, Atr!AtrIsOverThePeriod, Atr!Committing

\* A minute passes: every bar held anywhere is a minute older.
LEMMA AtrMinute == ASSUME Atr!AtrInv, Atr!Minute PROVE Atr!AtrInv'
  <1>1. /\ current_atr \in Atr!Ages /\ bar_history \in Atr!Ages /\ socket \in Atr!Ages
        /\ last_atr_tick \in 0 .. Old /\ \A task \in Atr!Tasks : got[task] \in Atr!Ages
        /\ current_atr' = Atr!Aged(current_atr) /\ bar_history' = Atr!Aged(bar_history)
        /\ last_atr_tick' = IF last_atr_tick = Old THEN Old ELSE last_atr_tick + 1
        /\ socket' \in {Append(Atr!Aged(socket), 1), Atr!Aged(socket)}
        /\ got' = [task \in Atr!Tasks |-> Atr!Aged(got[task])] /\ UNCHANGED <<down, pc>>
    BY DEF Atr!AtrInv, Atr!TypeOK, Atr!Minute
  <1>2. last_atr_tick' \in 0 .. Old /\ last_atr_tick' # 0
    BY <1>1, AtrConstants
  <1>3. socket' \in Atr!Ages
    <2>1. 1 \in 0 .. Old /\ Atr!Aged(socket) \in Seq(0 .. Old)
      BY <1>1, AgedBars, AtrConstants DEF Atr!Ages
    <2>2. Append(Atr!Aged(socket), 1) \in Seq(0 .. Old)
      BY <2>1, AppendProperties
    <2> QED BY <1>1, <2>1, <2>2 DEF Atr!Ages
  <1>4. /\ current_atr' \in Atr!Ages /\ Len(current_atr') = Len(current_atr)
        /\ current_atr' = <<>> <=> current_atr = <<>>
        /\ bar_history' \in Atr!Ages /\ Len(bar_history') = Len(bar_history)
    BY <1>1, AgedBars
  <1>5. \A task \in Atr!Tasks : got'[task] \in Atr!Ages /\ Len(got'[task]) = Len(got[task])
    BY <1>1, AgedBars
  <1>6. got' \in [Atr!Tasks -> Atr!Ages]
    BY <1>1, <1>5
  <1>7. Atr!TypeOK'
    BY <1>1, <1>2, <1>3, <1>4, <1>6 DEF Atr!AtrInv, Atr!TypeOK
  <1>8. "tracker" \in Atr!Tasks
    BY DEF Atr!Tasks
  <1> QED BY <1>1, <1>2, <1>4, <1>5, <1>7, <1>8
        DEF Atr!AtrInv, Atr!AtrIsOverThePeriod, Atr!Committing

\* refresh_from_rest: the bars come whole or not at all.
LEMMA AtrFetch ==
  ASSUME Atr!AtrInv, Atr!Fetch("tracker", "refresh", "refresh")
                     \/ Atr!Fetch("watchdog", "fetch", "wait")
  PROVE  Atr!AtrInv'
  <1>1. PICK task \in Atr!Tasks, point \in {"commit", "refresh", "wait"} :
          /\ pc[task] \in {"refresh", "fetch"} /\ pc' = [pc EXCEPT ![task] = point]
          /\ task = "tracker" => point # "wait"
          /\ task = "watchdog" => point # "refresh"
          /\ \/ point = "commit" /\ got' = [got EXCEPT ![task] = Atr!RestBars]
             \/ point # "commit" /\ got' = got
          /\ UNCHANGED <<current_atr, bar_history, last_atr_tick, socket, down>>
    BY DEF Atr!Fetch, Atr!Goto, Atr!Keep, Atr!Tasks
  <1>2. Atr!Tasks = {"tracker", "watchdog"} /\ "tracker" # "watchdog"
    BY DEF Atr!Tasks
  <1>3. got' \in [Atr!Tasks -> Atr!Ages]
    BY <1>1, RestIsWhole DEF Atr!AtrInv, Atr!TypeOK
  <1>4. DOMAIN pc' = Atr!Tasks /\ pc'[task] = point
        /\ \A other \in Atr!Tasks \ {task} : pc'[other] = pc[other]
    BY <1>1 DEF Atr!AtrInv, Atr!TypeOK
  <1>5. \A other \in Atr!Tasks : \/ other # task /\ got'[other] = got[other]
                                 \/ other = task /\ point = "commit" /\ Len(got'[other]) = Period + 1
                                 \/ other = task /\ point # "commit"
    BY <1>1, RestIsWhole DEF Atr!AtrInv, Atr!TypeOK
  <1>6. Atr!TypeOK'
    BY <1>1, <1>2, <1>3, <1>4 DEF Atr!AtrInv, Atr!TypeOK
  <1> QED BY <1>1, <1>2, <1>4, <1>5, <1>6
        DEF Atr!AtrInv, Atr!AtrIsOverThePeriod, Atr!Committing

\* commit_atr, under its three locks: the ATR it stores is over a whole period,
\* whatever the other task stored in between.
LEMMA AtrCommit ==
  ASSUME Atr!AtrInv, NEW task \in Atr!Tasks, Atr!CommitAtr(task)
  PROVE  Atr!AtrInv'
  <1>1. /\ pc[task] = "commit" /\ got[task] \in Atr!Ages /\ Len(got[task]) = Period + 1
        /\ current_atr' = Atr!AtrOf(got[task]) /\ pc' = [pc EXCEPT ![task] = "history"]
        /\ UNCHANGED <<bar_history, last_atr_tick, socket, down, got>>
    BY DEF Atr!AtrInv, Atr!TypeOK, Atr!CommitAtr, Atr!Goto, Atr!Committing
  <1>2. /\ current_atr' \in Atr!Ages /\ current_atr' # <<>> /\ Len(current_atr') = Period + 1
    BY <1>1, AtrOfBars, AtrConstants
  <1>3. Atr!Tasks = {"tracker", "watchdog"} /\ "tracker" # "watchdog"
    BY DEF Atr!Tasks
  <1>4. DOMAIN pc' = Atr!Tasks /\ pc'[task] = "history"
        /\ \A other \in Atr!Tasks \ {task} : pc'[other] = pc[other]
    BY <1>1 DEF Atr!AtrInv, Atr!TypeOK
  <1>5. Atr!TypeOK'
    BY <1>1, <1>2, <1>3, <1>4 DEF Atr!AtrInv, Atr!TypeOK
  <1> QED BY <1>1, <1>2, <1>3, <1>4, <1>5
        DEF Atr!AtrInv, Atr!AtrIsOverThePeriod, Atr!Committing

LEMMA AtrHistory ==
  ASSUME Atr!AtrInv, NEW task \in Atr!Tasks, Atr!CommitHistory(task)
  PROVE  Atr!AtrInv'
  <1>1. /\ pc[task] = "history" /\ got[task] \in Atr!Ages /\ Len(got[task]) = Period + 1
        /\ bar_history' = Atr!Kept(got[task]) /\ pc' = [pc EXCEPT ![task] = "fresh"]
        /\ UNCHANGED <<current_atr, last_atr_tick, socket, down, got>>
    BY DEF Atr!AtrInv, Atr!TypeOK, Atr!CommitHistory, Atr!Goto, Atr!Committing
  <1>2. bar_history' \in Atr!Ages /\ Len(bar_history') <= Period + 1
    BY <1>1, KeptBars, AtrConstants
  <1>3. Atr!Tasks = {"tracker", "watchdog"} /\ "tracker" # "watchdog"
    BY DEF Atr!Tasks
  <1>4. DOMAIN pc' = Atr!Tasks /\ pc'[task] = "fresh"
        /\ \A other \in Atr!Tasks \ {task} : pc'[other] = pc[other]
    BY <1>1 DEF Atr!AtrInv, Atr!TypeOK
  <1>5. Atr!TypeOK'
    BY <1>1, <1>2, <1>3, <1>4 DEF Atr!AtrInv, Atr!TypeOK
  <1> QED BY <1>1, <1>3, <1>4, <1>5
        DEF Atr!AtrInv, Atr!AtrIsOverThePeriod, Atr!Committing

LEMMA AtrFresh ==
  ASSUME Atr!AtrInv, NEW task \in Atr!Tasks,
         Atr!CommitFresh(task, IF task = "tracker" THEN "connect" ELSE "wait")
  PROVE  Atr!AtrInv'
  <1> DEFINE next == IF task = "tracker" THEN "connect" ELSE "wait"
  <1>1. /\ pc[task] = "fresh" /\ last_atr_tick' = 0 /\ pc' = [pc EXCEPT ![task] = next]
        /\ got' = [got EXCEPT ![task] = <<>>]
        /\ UNCHANGED <<current_atr, bar_history, socket, down>>
    BY DEF Atr!CommitFresh, Atr!Goto, Atr!Keep
  <1>2. current_atr # <<>> /\ 0 \in 0 .. Old
    BY <1>1, AtrConstants DEF Atr!AtrInv
  <1>3. Atr!Tasks = {"tracker", "watchdog"} /\ "tracker" # "watchdog"
    BY DEF Atr!Tasks
  <1>4. /\ got' \in [Atr!Tasks -> Atr!Ages]
        /\ \A other \in Atr!Tasks \ {task} : got'[other] = got[other]
    BY <1>1 DEF Atr!AtrInv, Atr!TypeOK, Atr!Ages
  <1>5. DOMAIN pc' = Atr!Tasks /\ pc'[task] = next
        /\ \A other \in Atr!Tasks \ {task} : pc'[other] = pc[other]
    BY <1>1 DEF Atr!AtrInv, Atr!TypeOK
  <1>6. Atr!TypeOK'
    BY <1>1, <1>2, <1>3, <1>4, <1>5 DEF Atr!AtrInv, Atr!TypeOK
  <1> QED BY <1>1, <1>2, <1>3, <1>4, <1>5, <1>6
        DEF Atr!AtrInv, Atr!AtrIsOverThePeriod, Atr!Committing

\* A candle of the stream goes into the history; with a whole period of them the
\* tracking task goes on to store the ATR.
LEMMA AtrCandle == ASSUME Atr!AtrInv, Atr!ReadCandle PROVE Atr!AtrInv'
  <1>1. /\ socket \in Atr!Ages /\ socket # <<>> /\ socket' = Tail(socket)
        /\ bar_history \in Atr!Ages /\ got \in [Atr!Tasks -> Atr!Ages]
        /\ bar_history' = Atr!Kept(Append(bar_history, Head(socket)))
        /\ pc["tracker"] = "read"
        /\ UNCHANGED <<current_atr, last_atr_tick, down>>
    BY DEF Atr!AtrInv, Atr!TypeOK, Atr!ReadCandle
  <1>2. socket' \in Atr!Ages /\ Append(bar_history, Head(socket)) \in Atr!Ages
    BY <1>1, HeadTailProperties, AppendProperties DEF Atr!Ages
  <1>3. bar_history' \in Atr!Ages /\ Len(bar_history') <= Period + 1
    <2>1. Len(Append(bar_history, Head(socket))) \in Nat
      BY <1>2, LenProperties DEF Atr!Ages
    <2> QED BY <1>1, <1>2, <2>1, KeptBars, AtrConstants
  <1>4. /\ Atr!AtrOf(bar_history') \in Atr!Ages
        /\ Atr!AtrOf(bar_history') # <<>> => Len(Atr!AtrOf(bar_history')) = Period + 1
    BY <1>3, AtrOfBars
  <1>5. \/ UNCHANGED <<pc, got>>
        \/ /\ Atr!AtrOf(bar_history') # <<>>
           /\ pc' = [pc EXCEPT !["tracker"] = "store"]
           /\ got' = [got EXCEPT !["tracker"] = Atr!AtrOf(bar_history')]
    BY DEF Atr!ReadCandle, Atr!Goto, Atr!Keep
  <1>6. Atr!Tasks = {"tracker", "watchdog"} /\ "tracker" # "watchdog"
    BY DEF Atr!Tasks
  <1>7. CASE UNCHANGED <<pc, got>>
    <2>1. Atr!TypeOK'
      BY <1>1, <1>2, <1>3, <1>7 DEF Atr!AtrInv, Atr!TypeOK
    <2> QED BY <1>1, <1>7, <2>1 DEF Atr!AtrInv, Atr!AtrIsOverThePeriod, Atr!Committing
  <1>8. CASE /\ Atr!AtrOf(bar_history') # <<>>
             /\ pc' = [pc EXCEPT !["tracker"] = "store"]
             /\ got' = [got EXCEPT !["tracker"] = Atr!AtrOf(bar_history')]
    <2>1. /\ got' \in [Atr!Tasks -> Atr!Ages] /\ Len(got'["tracker"]) = Period + 1
          /\ got'["watchdog"] = got["watchdog"]
      BY <1>1, <1>4, <1>6, <1>8
    <2>2. /\ DOMAIN pc' = Atr!Tasks /\ pc'["tracker"] = "store"
          /\ pc'["watchdog"] = pc["watchdog"]
      BY <1>6, <1>8 DEF Atr!AtrInv, Atr!TypeOK
    <2>3. Atr!TypeOK'
      BY <1>1, <1>2, <1>3, <2>1, <2>2 DEF Atr!AtrInv, Atr!TypeOK
    <2> QED BY <1>1, <1>6, <2>1, <2>2, <2>3
          DEF Atr!AtrInv, Atr!AtrIsOverThePeriod, Atr!Committing
  <1> QED BY <1>5, <1>7, <1>8

LEMMA AtrStored == ASSUME Atr!AtrInv, Atr!StoreAtr PROVE Atr!AtrInv'
  <1>1. /\ pc["tracker"] = "store" /\ got["tracker"] \in Atr!Ages
        /\ Len(got["tracker"]) = Period + 1
        /\ current_atr' = got["tracker"] /\ pc' = [pc EXCEPT !["tracker"] = "mark"]
        /\ got' = [got EXCEPT !["tracker"] = <<>>]
        /\ UNCHANGED <<bar_history, last_atr_tick, socket, down>>
    BY DEF Atr!AtrInv, Atr!TypeOK, Atr!StoreAtr, Atr!Goto, Atr!Keep, Atr!Tasks
  <1>2. current_atr' \in Atr!Ages /\ current_atr' # <<>> /\ Len(current_atr') = Period + 1
    BY <1>1, AtrOfBars, AtrConstants
  <1>3. Atr!Tasks = {"tracker", "watchdog"} /\ "tracker" # "watchdog"
    BY DEF Atr!Tasks
  <1>4. got' \in [Atr!Tasks -> Atr!Ages] /\ got'["watchdog"] = got["watchdog"]
    BY <1>1, <1>3 DEF Atr!AtrInv, Atr!TypeOK, Atr!Ages
  <1>5. /\ DOMAIN pc' = Atr!Tasks /\ pc'["tracker"] = "mark"
        /\ pc'["watchdog"] = pc["watchdog"]
    BY <1>1, <1>3 DEF Atr!AtrInv, Atr!TypeOK
  <1>6. Atr!TypeOK'
    BY <1>1, <1>2, <1>4, <1>5 DEF Atr!AtrInv, Atr!TypeOK
  <1> QED BY <1>1, <1>2, <1>3, <1>4, <1>5, <1>6
        DEF Atr!AtrInv, Atr!AtrIsOverThePeriod, Atr!Committing

LEMMA AtrMarked == ASSUME Atr!AtrInv, Atr!MarkFresh PROVE Atr!AtrInv'
  <1>1. Atr!Tasks = {"tracker", "watchdog"} /\ "tracker" # "watchdog"
    BY DEF Atr!Tasks
  <1>2. /\ pc["tracker"] = "mark" /\ last_atr_tick' = 0
        /\ pc' = [pc EXCEPT !["tracker"] = "read"]
        /\ UNCHANGED <<current_atr, bar_history, socket, down, got>>
    BY DEF Atr!MarkFresh, Atr!Goto
  <1>3. current_atr # <<>> /\ 0 \in 0 .. Old
    BY <1>1, <1>2, AtrConstants DEF Atr!AtrInv
  <1>4. /\ DOMAIN pc' = Atr!Tasks /\ pc'["tracker"] = "read"
        /\ pc'["watchdog"] = pc["watchdog"]
    BY <1>1, <1>2 DEF Atr!AtrInv, Atr!TypeOK
  <1>5. Atr!TypeOK'
    BY <1>2, <1>3, <1>4 DEF Atr!AtrInv, Atr!TypeOK
  <1> QED BY <1>1, <1>2, <1>3, <1>4, <1>5
        DEF Atr!AtrInv, Atr!AtrIsOverThePeriod, Atr!Committing

\* A task only moves on: connecting, failing, waking up.
LEMMA AtrMoves ==
  ASSUME Atr!AtrInv, Atr!Connect \/ Atr!StreamFails \/ Atr!Check
  PROVE  Atr!AtrInv'
  <1>1. Atr!Tasks = {"tracker", "watchdog"} /\ "tracker" # "watchdog"
    BY DEF Atr!Tasks
  <1>2. /\ socket' = socket \/ socket' = <<>>
        /\ \/ pc' = [pc EXCEPT !["tracker"] = "refresh"]
           \/ pc' = [pc EXCEPT !["tracker"] = "read"]
           \/ pc' = [pc EXCEPT !["watchdog"] = "fetch"]
        /\ UNCHANGED <<current_atr, bar_history, last_atr_tick, down, got>>
    BY DEF Atr!Connect, Atr!StreamFails, Atr!Check, Atr!Goto
  <1>3. socket' \in Atr!Ages
    <2>1. socket \in Seq(0 .. Old) /\ <<>> \in Seq(0 .. Old)
      BY DEF Atr!AtrInv, Atr!TypeOK, Atr!Ages
    <2> QED BY <1>2, <2>1 DEF Atr!Ages
  <1>4. /\ DOMAIN pc' = Atr!Tasks
        /\ pc'["tracker"] = pc["tracker"] \/ pc'["tracker"] \in {"refresh", "read"}
        /\ pc'["watchdog"] = pc["watchdog"] \/ pc'["watchdog"] = "fetch"
    BY <1>1, <1>2 DEF Atr!AtrInv, Atr!TypeOK
  <1>5. Atr!TypeOK'
    BY <1>2, <1>3, <1>4 DEF Atr!AtrInv, Atr!TypeOK
  <1> QED BY <1>1, <1>2, <1>4, <1>5
        DEF Atr!AtrInv, Atr!AtrIsOverThePeriod, Atr!Committing

LEMMA AtrStep == Atr!AtrInv /\ [Atr!Next]_atrVars => Atr!AtrInv'
  <1> SUFFICES ASSUME Atr!AtrInv, [Atr!Next]_atrVars PROVE Atr!AtrInv'
    OBVIOUS
  <1>1. CASE Atr!Breaks \/ \E source \in Atr!Sources : Atr!Recovers(source)
    <2>1. /\ down' \subseteq Atr!Sources
          /\ UNCHANGED <<current_atr, bar_history, last_atr_tick, socket, pc, got>>
      BY <1>1 DEF Atr!AtrInv, Atr!TypeOK, Atr!Breaks, Atr!Recovers
    <2> QED BY <2>1 DEF Atr!AtrInv, Atr!TypeOK, Atr!AtrIsOverThePeriod
  <1>2. CASE UNCHANGED atrVars
    BY <1>2 DEF atrVars, Atr!AtrInv, Atr!TypeOK, Atr!AtrIsOverThePeriod
  <1>3. CASE \E task \in Atr!Tasks : Atr!Commit(task)
    BY <1>3, AtrCommit, AtrHistory, AtrFresh DEF Atr!Commit
  <1>4. \/ Atr!Minute \/ Atr!StreamFails \/ Atr!Check \/ Atr!Connect
        \/ Atr!ReadCandle \/ Atr!StoreAtr \/ Atr!MarkFresh
        \/ Atr!Fetch("tracker", "refresh", "refresh") \/ Atr!Fetch("watchdog", "fetch", "wait")
        \/ (\E task \in Atr!Tasks : Atr!Commit(task))
        \/ Atr!Breaks \/ (\E source \in Atr!Sources : Atr!Recovers(source))
        \/ UNCHANGED atrVars
    BY DEF Atr!Next, Atr!Tracker, Atr!Watchdog, Atr!Tasks
  <1> QED BY <1>1, <1>2, <1>3, <1>4, AtrMinute, AtrMoves, AtrFetch, AtrCandle, AtrStored,
             AtrMarked

-----------------------------------------------------------------------------
(* The suite MCRefresh                                                     *)

RefreshInv ==
  /\ feed \in {"spot", "atr"}
  /\ feed = "spot" => Spot!SpotInv
  /\ feed = "atr"  => Atr!AtrInv

\* subscribe_chainlink and the SpotTick handler, for every age limit and channel and
\* whatever stamps a feed gone wrong puts on its payloads: a spot that counts as
\* fresh was stamped at most twice MaxAge ago.  VolatilityManager, for every period
\* and however its two tasks interleave at their locks: an ATR is over its whole
\* period, and what is marked as fresh is there.
THEOREM DataIsFresh == RefreshSpec => []ServesFreshData
  <1>1. RefreshInit => RefreshInv
    BY SpotStart, AtrStart DEF RefreshInit, RefreshInv
  <1>2. RefreshInv /\ [RefreshNext]_refreshVars => RefreshInv'
    <2> SUFFICES ASSUME RefreshInv, [RefreshNext]_refreshVars PROVE RefreshInv'
      OBVIOUS
    <2>1. /\ feed' = feed
          /\ feed = "spot" => [Spot!Next]_spotVars
          /\ feed = "atr"  => [Atr!Next]_atrVars
      BY DEF RefreshNext, refreshVars
    <2> QED BY <2>1, SpotStep, AtrStep DEF RefreshInv
  <1>3. RefreshInv => ServesFreshData
    BY SpotIsRecent DEF RefreshInv, ServesFreshData, Atr!AtrInv
  <1> QED BY <1>1, <1>2, <1>3, PTL DEF RefreshSpec

-----------------------------------------------------------------------------
(* Leads and turns                                                         *)

\* A set of numbers has a least one.
LEMMA LeastNumber ==
  ASSUME NEW S \in SUBSET Nat, S # {}
  PROVE  \E m \in S : \A n \in S : m <= n
  <1> DEFINE R == {ss \in Nat \X Nat : ss[1] < ss[2]}
  <1>1. IsWellFoundedOn(R, Nat)
    BY NatLessThanWellFounded DEF OpToRel
  <1>2. IsWellFoundedOn(R, S)
    <2> HIDE DEF R
    <2> QED BY <1>1, IsWellFoundedOnSubset
  <1>3. PICK m \in S : \A n \in S : <<n, m>> \notin R
    <2> HIDE DEF R
    <2> QED BY <1>2, WFMin
  <1>4. ASSUME NEW n \in S, n < m PROVE FALSE
    <2>1. <<n, m>> \in R
      BY <1>4
    <2> HIDE DEF R
    <2> QED BY <1>3, <2>1
  <1> QED BY <1>4

\* Who leads at n is decided by what comes up to n.
LEMMA LeadsOfPrefix ==
  ASSUME NEW s, NEW t, NEW n \in Nat, \A i \in 1 .. n : s[i] = t[i],
         NEW side, NEW gap
  PROVE  Cross!LeadsAt(s, n, side, gap) <=> Cross!LeadsAt(t, n, side, gap)
  <1>1. \A j \in 1 .. n : j .. n \subseteq 1 .. n
    OBVIOUS
  <1> QED BY <1>1 DEF Cross!LeadsAt

\* A lead goes on as long as no lead of the other side comes.
LEMMA LeadsNext ==
  ASSUME NEW s, NEW n \in Nat, NEW side \in Cross!Tokens, NEW gap,
         s[n + 1] \in Int
  PROVE  Cross!LeadsAt(s, n + 1, side, gap) <=>
           /\ s[n + 1] = 0 \/ Cross!Favours(side, s[n + 1])
           /\ \/ Cross!LeadsAt(s, n, side, gap)
              \/ Cross!Favours(side, s[n + 1]) /\ Cross!Size(s[n + 1]) >= gap
  <1>1. /\ 1 .. n + 1 = (1 .. n) \cup {n + 1}
        /\ \A j \in 1 .. n : j .. n + 1 = (j .. n) \cup {n + 1}
        /\ n + 1 .. n + 1 = {n + 1}
    OBVIOUS
  <1> QED BY <1>1 DEF Cross!LeadsAt

\* Only one side leads.
LEMMA OneLeads ==
  ASSUME NEW s, NEW n \in Nat, NEW gap, NEW g,
         NEW side \in Cross!Tokens, NEW other \in Cross!Tokens,
         \A i \in 1 .. n : s[i] \in Int,
         Cross!LeadsAt(s, n, side, gap), Cross!LeadsAt(s, n, other, g)
  PROVE  side = other
  <1>1. PICK i \in 1 .. n : /\ Cross!Favours(side, s[i])
                            /\ \A k \in i .. n : s[k] = 0 \/ Cross!Favours(side, s[k])
    BY DEF Cross!LeadsAt
  <1>2. PICK j \in 1 .. n : /\ Cross!Favours(other, s[j])
                            /\ \A k \in j .. n : s[k] = 0 \/ Cross!Favours(other, s[k])
    BY DEF Cross!LeadsAt
  <1>3. i \in j .. n \/ j \in i .. n
    OBVIOUS
  <1>4. s[i] \in Int /\ s[j] \in Int
    OBVIOUS
  <1> QED BY <1>1, <1>2, <1>3, <1>4 DEF Cross!Favours

\* There are as many turns as a number tells.
LEMMA TurnsAreFinite ==
  ASSUME NEW S, NEW s \in Seq(S), NEW gap
  PROVE  /\ Cross!Turns(s, gap) \subseteq 1 .. Len(s)
         /\ IsFiniteSet(Cross!Turns(s, gap)) /\ Cardinality(Cross!Turns(s, gap)) \in Nat
  <1>1. Len(s) \in Nat
    BY LenProperties
  <1>2. Cross!Turns(s, gap) \subseteq 1 .. Len(s)
    BY DEF Cross!Turns
  <1>3. IsFiniteSet(1 .. Len(s))
    BY <1>1, FS_Interval
  <1>4. IsFiniteSet(Cross!Turns(s, gap))
    BY <1>2, <1>3, FS_Subset
  <1> QED BY <1>2, <1>4, FS_CardinalityType

\* Whether a lead ends the one that stands.
TurnsAt(s, i, gap) ==
  \E side \in Cross!Tokens :
    Cross!LeadsAt(s, i - 1, side, gap) /\ s[i] # 0 /\ ~Cross!Favours(side, s[i])

\* One more lead adds at most itself to the turns.
LEMMA TurnsAppend ==
  ASSUME NEW S, NEW s \in Seq(S), NEW lead \in S, NEW gap
  PROVE  /\ Cross!Turns(Append(s, lead), gap) =
              IF TurnsAt(Append(s, lead), Len(s) + 1, gap)
              THEN Cross!Turns(s, gap) \cup {Len(s) + 1} ELSE Cross!Turns(s, gap)
         /\ Cardinality(Cross!Turns(Append(s, lead), gap)) =
              Cardinality(Cross!Turns(s, gap))
                + (IF TurnsAt(Append(s, lead), Len(s) + 1, gap) THEN 1 ELSE 0)
  <1> DEFINE t == Append(s, lead)
             n == Len(s) + 1
  <1>1. Len(s) \in Nat /\ Len(t) = n /\ \A i \in 1 .. Len(s) : t[i] = s[i]
    BY AppendProperties, LenProperties
  <1> HIDE DEF t
  <1>2. 1 .. Len(t) = (1 .. Len(s)) \cup {n} /\ n \notin 1 .. Len(s)
    BY <1>1
  <1>3. ASSUME NEW i \in 1 .. Len(s)
        PROVE  i \in Cross!Turns(t, gap) <=> i \in Cross!Turns(s, gap)
    <2>1. i - 1 \in Nat /\ (\A k \in 1 .. i - 1 : t[k] = s[k]) /\ t[i] = s[i]
      BY <1>1
    <2>2. \A side : Cross!LeadsAt(t, i - 1, side, gap) <=> Cross!LeadsAt(s, i - 1, side, gap)
      BY <2>1, LeadsOfPrefix
    <2>3. i \in 1 .. Len(t)
      BY <1>2
    <2> QED BY <2>1, <2>2, <2>3 DEF Cross!Turns
  <1>4. n \in Cross!Turns(t, gap) <=> TurnsAt(t, n, gap)
    BY <1>2 DEF Cross!Turns, TurnsAt
  <1>5. Cross!Turns(s, gap) \subseteq 1 .. Len(s) /\ Cross!Turns(t, gap) \subseteq 1 .. Len(t)
    BY DEF Cross!Turns
  <1>6. Cross!Turns(t, gap) = IF TurnsAt(t, n, gap) THEN Cross!Turns(s, gap) \cup {n}
                                                   ELSE Cross!Turns(s, gap)
    <2> HIDE DEF n
    <2> DEFINE old == Cross!Turns(s, gap)
               new == Cross!Turns(t, gap)
    <2>1. \A i \in 1 .. Len(s) : i \in new <=> i \in old
      BY <1>3
    <2> HIDE DEF old, new
    <2>2. new \subseteq (1 .. Len(s)) \cup {n} /\ old \subseteq 1 .. Len(s) /\ n \notin 1 .. Len(s)
      BY <1>2, <1>5 DEF old, new
    <2>3. n \in new <=> TurnsAt(t, n, gap)
      BY <1>4 DEF new
    <2>4. CASE TurnsAt(t, n, gap)
      <3>1. new = old \cup {n}
        BY <2>1, <2>2, <2>3, <2>4
      <3> QED BY <2>4, <3>1 DEF old, new
    <2>5. CASE ~TurnsAt(t, n, gap)
      <3>1. new = old
        BY <2>1, <2>2, <2>3, <2>5
      <3> QED BY <2>5, <3>1 DEF old, new
    <2> QED BY <2>4, <2>5
  <1>7. IsFiniteSet(Cross!Turns(s, gap)) /\ Cardinality(Cross!Turns(s, gap)) \in Nat
        /\ n \notin Cross!Turns(s, gap)
    BY <1>2, TurnsAreFinite
  <1>8. Cardinality(Cross!Turns(s, gap) \cup {n}) = Cardinality(Cross!Turns(s, gap)) + 1
    BY <1>7, FS_AddElement
  <1>9. Cardinality(Cross!Turns(t, gap)) =
          Cardinality(Cross!Turns(s, gap)) + (IF TurnsAt(t, n, gap) THEN 1 ELSE 0)
    BY <1>6, <1>7, <1>8
  <1> QED BY <1>6, <1>9 DEF t, n

-----------------------------------------------------------------------------
(* The tracker and its history                                             *)

LEMMA CrossConstants ==
  /\ \A q \in Quotes : q \in [bid : 1 .. 98, ask : 2 .. 99]
  /\ Prints \subseteq 1 .. 98
  /\ SignificantGap \in Nat \ {0} /\ 1 \in Nat \ {0} /\ MaxMoves \in Nat
  BY FeedsAssumption DEF Cross!MidAssumption

\* What a token's quotes in the client range over.
QuoteType == [bid : 0 .. 98, ask : 0 .. 99]

\* What leads range over.
Gaps == -100 .. 100

CrossState == [armed : BOOLEAN, current_side : Cross!Leaders, peak_lead_gap : 0 .. 100,
               cross_count : Nat, significant_cross_count : Nat]

\* What a state with nothing seen, or with the leads s seen, says of the lead there.
Knows(st, s, gap) ==
  /\ st.armed \/ (st = Cross!NoState /\ s = <<>>)
  /\ st.current_side # "NONE" => st.peak_lead_gap > 0
  /\ \A side \in Cross!Tokens :
       Cross!LeadsAt(s, Len(s), side, gap) <=> st.current_side = side /\ st.peak_lead_gap >= gap

\* A tick that ends the lead the state knows.
EndsLead(st, lead, gap) ==
  /\ st.armed /\ Cross!LeadSide(lead) # "NONE"
  /\ st.current_side # "NONE" /\ st.current_side # Cross!LeadSide(lead)
  /\ st.peak_lead_gap >= gap

\* What observe_tick leaves of the fields.
Observes(st, lead, new, side, size) ==
  /\ new \in CrossState /\ new.armed
  /\ side = "NONE" =>
       /\ st.armed => new = st
       /\ ~st.armed => new.current_side = "NONE" /\ new.peak_lead_gap = 0
  /\ side # "NONE" =>
       /\ new.current_side = side
       /\ new.peak_lead_gap =
            IF st.armed /\ st.current_side = side /\ st.peak_lead_gap >= size
            THEN st.peak_lead_gap ELSE size
  /\ ~st.armed => new.cross_count = 0 /\ new.significant_cross_count = 0
  /\ st.armed =>
       /\ new.cross_count = st.cross_count + (IF EndsLead(st, lead, 0) THEN 1 ELSE 0)
       /\ new.significant_cross_count = st.significant_cross_count
            + (IF EndsLead(st, lead, SignificantGap) THEN 1 ELSE 0)

LEMMA Observed ==
  ASSUME NEW st \in CrossState, NEW lead \in Gaps
  PROVE  Observes(st, lead, Cross!Observe(st, lead), Cross!LeadSide(lead), Cross!Size(lead))
  <1>a. PICK new : new = Cross!Observe(st, lead)
    OBVIOUS
  <1>b. PICK side : side = Cross!LeadSide(lead)
    OBVIOUS
  <1>c. PICK size : size = Cross!Size(lead)
    OBVIOUS
  <1> SUFFICES Observes(st, lead, new, side, size)
    BY <1>a, <1>b, <1>c
  <1>0. /\ st.armed \in BOOLEAN /\ st.current_side \in Cross!Leaders
        /\ st.peak_lead_gap \in 0 .. 100
        /\ st.cross_count \in Nat /\ st.significant_cross_count \in Nat
    BY DEF CrossState
  <1>1. /\ side \in Cross!Leaders /\ size \in 0 .. 100 /\ (side # "NONE" => size > 0)
        /\ SignificantGap \in Nat
    BY <1>b, <1>c, CrossConstants DEF Gaps, Cross!LeadSide, Cross!Size, Cross!Leaders
  <1>2. CASE ~st.armed
    <2>1. new = [armed |-> TRUE, current_side |-> side,
                 peak_lead_gap |-> IF side = "NONE" THEN 0 ELSE size,
                 cross_count |-> 0, significant_cross_count |-> 0]
      BY <1>a, <1>b, <1>c, <1>2 DEF Cross!Observe, Cross!Arm, Cross!NoState
    <2> QED BY <1>1, <1>2, <2>1 DEF CrossState, Observes
  <1>3. CASE st.armed /\ side = "NONE"
    <2>1. new = st
      BY <1>a, <1>b, <1>c, <1>3 DEF Cross!Observe
    <2> QED BY <1>b, <1>0, <1>1, <1>3, <2>1 DEF EndsLead, Observes
  <1>4. CASE st.armed /\ side # "NONE" /\ st.current_side = side
    <2>1. new = [st EXCEPT !.peak_lead_gap = IF st.peak_lead_gap >= size
                                              THEN st.peak_lead_gap ELSE size]
      BY <1>a, <1>b, <1>c, <1>4 DEF Cross!Observe
    <2> QED BY <1>b, <1>1, <1>4, <2>1 DEF CrossState, EndsLead, Observes
  <1>5. CASE st.armed /\ side # "NONE" /\ st.current_side # side /\ st.current_side = "NONE"
    <2>1. new = [st EXCEPT !.current_side = side, !.peak_lead_gap = size]
      BY <1>a, <1>b, <1>c, <1>5 DEF Cross!Observe
    <2>2. /\ new.armed = st.armed /\ new.current_side = side /\ new.peak_lead_gap = size
          /\ new.cross_count = st.cross_count
          /\ new.significant_cross_count = st.significant_cross_count
          /\ new \in CrossState
      BY <1>0, <1>1, <2>1 DEF CrossState
    <2>3. ~EndsLead(st, lead, 0) /\ ~EndsLead(st, lead, SignificantGap)
      BY <1>b, <1>5 DEF EndsLead
    <2> QED BY <1>0, <1>5, <2>2, <2>3 DEF Observes
  <1>6. CASE st.armed /\ side # "NONE" /\ st.current_side # side /\ st.current_side # "NONE"
    <2> DEFINE next == IF st.peak_lead_gap >= SignificantGap THEN st.significant_cross_count + 1
                       ELSE st.significant_cross_count
    <2>1. new = [st EXCEPT !.current_side = side, !.peak_lead_gap = size,
                           !.cross_count = st.cross_count + 1, !.significant_cross_count = next]
      BY <1>a, <1>b, <1>c, <1>6 DEF Cross!Observe, Cross!Cross, Cross!NewPeak
    <2>2. next \in Nat /\ st.cross_count + 1 \in Nat
      BY <1>0
    <2> HIDE DEF next
    <2>3. /\ new.armed = st.armed /\ new.current_side = side /\ new.peak_lead_gap = size
          /\ new.cross_count = st.cross_count + 1
          /\ new.significant_cross_count = next
          /\ new \in CrossState
      BY <1>0, <1>1, <2>1, <2>2 DEF CrossState
    <2>4. /\ EndsLead(st, lead, 0)
          /\ EndsLead(st, lead, SignificantGap) <=> st.peak_lead_gap >= SignificantGap
      BY <1>b, <1>0, <1>1, <1>6 DEF EndsLead
    <2> QED BY <1>0, <1>6, <2>3, <2>4 DEF next, Observes
  <1> QED BY <1>2, <1>3, <1>4, <1>5, <1>6

\* The lead a state knows stays known as ticks come, and a tick ends it where the
\* lead turns.
LEMMA KnownLead ==
  ASSUME NEW st \in CrossState, NEW lead \in Gaps, NEW s \in Seq(Gaps),
         NEW gap \in Nat \ {0}, Knows(st, s, gap), Knows(st, s, 1)
  PROVE  /\ Knows(Cross!Observe(st, lead), Append(s, lead), gap)
         /\ TurnsAt(Append(s, lead), Len(s) + 1, gap) <=> EndsLead(st, lead, gap)
  <1> DEFINE t == Append(s, lead)
             n == Len(s)
  <1>a. PICK new : new = Cross!Observe(st, lead)
    OBVIOUS
  <1>b. PICK side : side = Cross!LeadSide(lead)
    OBVIOUS
  <1>c. PICK size : size = Cross!Size(lead)
    OBVIOUS
  <1>1. /\ n \in Nat /\ Len(t) = n + 1 /\ t[n + 1] = lead /\ (\A i \in 1 .. n : t[i] = s[i])
        /\ (n + 1) - 1 = n /\ t # <<>>
    BY AppendProperties, LenProperties
  <1>2. /\ new \in CrossState /\ new.armed
        /\ side = "NONE" =>
             /\ st.armed => new = st
             /\ ~st.armed => new.current_side = "NONE" /\ new.peak_lead_gap = 0
        /\ side # "NONE" =>
             /\ new.current_side = side
             /\ new.peak_lead_gap =
                  IF st.armed /\ st.current_side = side /\ st.peak_lead_gap >= size
                  THEN st.peak_lead_gap ELSE size
    <2>1. Observes(st, lead, new, side, size)
      BY <1>a, <1>b, <1>c, Observed
    <2> QED BY <2>1 DEF Observes
  <1>3. /\ side = "NONE" <=> lead = 0
        /\ \A x \in Cross!Tokens : Cross!Favours(x, lead) <=> side = x
        /\ size \in Nat /\ (lead # 0 => size > 0)
        /\ side \in Cross!Tokens \cup {"NONE"} /\ "NONE" \notin Cross!Tokens
    BY <1>b, <1>c DEF Gaps, Cross!LeadSide, Cross!Favours, Cross!Tokens, Cross!Size
  <1>4. ASSUME NEW x \in Cross!Tokens
        PROVE  /\ Cross!LeadsAt(t, n, x, gap) <=> st.current_side = x /\ st.peak_lead_gap >= gap
               /\ Cross!LeadsAt(t, n + 1, x, gap) <=>
                    /\ side \in {"NONE", x}
                    /\ (st.current_side = x /\ st.peak_lead_gap >= gap) \/ (side = x /\ size >= gap)
    <2>1. Cross!LeadsAt(t, n, x, gap) <=> Cross!LeadsAt(s, n, x, gap)
      BY <1>1, LeadsOfPrefix
    <2>2. Cross!LeadsAt(t, n, x, gap) <=> st.current_side = x /\ st.peak_lead_gap >= gap
      BY <2>1 DEF Knows
    <2>r. lead \in Int
      BY DEF Gaps
    <2> HIDE DEF t, n
    <2>3. t[n + 1] \in Int
      BY <1>1, <2>r, Zenon
    <2>4. Cross!LeadsAt(t, n + 1, x, gap) <=>
            /\ t[n + 1] = 0 \/ Cross!Favours(x, t[n + 1])
            /\ \/ Cross!LeadsAt(t, n, x, gap)
               \/ Cross!Favours(x, t[n + 1]) /\ Cross!Size(t[n + 1]) >= gap
      BY <1>1, <2>3, LeadsNext
    <2> QED BY <1>c, <1>1, <1>3, <2>2, <2>4
  <1>5. /\ st.armed \/ st.current_side = "NONE"
        /\ st.current_side # "NONE" => st.peak_lead_gap > 0
        /\ st.current_side \in Cross!Tokens \cup {"NONE"} /\ st.peak_lead_gap \in Nat
    <2>1. st.armed \/ st = Cross!NoState
      BY DEF Knows
    <2>2. Cross!NoState.current_side = "NONE"
      BY DEF Cross!NoState
    <2>3. st.current_side \in Cross!Leaders /\ st.peak_lead_gap \in 0 .. 100
      BY DEF CrossState
    <2>4. st.peak_lead_gap \in Nat
      <3>1. PICK peak : peak = st.peak_lead_gap
        OBVIOUS
      <3>2. peak \in 0 .. 100
        BY <2>3, <3>1
      <3>3. peak \in Nat
        BY <3>2
      <3> QED BY <3>1, <3>3, Zenon
    <2>6. st.current_side \in Cross!Tokens \cup {"NONE"}
      BY <2>3 DEF Cross!Leaders, Cross!Tokens
    <2>5. st.current_side # "NONE" => st.peak_lead_gap > 0
      BY DEF Knows
    <2> QED BY <2>1, <2>2, <2>4, <2>5, <2>6
  <1> HIDE DEF t, n
  <1>6. TurnsAt(t, n + 1, gap) <=> EndsLead(st, lead, gap)
    <2>1. TurnsAt(t, n + 1, gap) <=>
            \E x \in Cross!Tokens : Cross!LeadsAt(t, n, x, gap) /\ lead # 0 /\ ~Cross!Favours(x, lead)
      BY <1>1 DEF TurnsAt
    <2>2. TurnsAt(t, n + 1, gap) <=>
            \E x \in Cross!Tokens :
              (st.current_side = x /\ st.peak_lead_gap >= gap) /\ side # "NONE" /\ side # x
      BY <2>1, <1>3, <1>4
    <2> QED BY <1>b, <1>3, <1>5, <2>2 DEF EndsLead
  <1>7. /\ new.current_side # "NONE" => new.peak_lead_gap > 0
        /\ \A x \in Cross!Tokens :
             Cross!LeadsAt(t, n + 1, x, gap) <=> new.current_side = x /\ new.peak_lead_gap >= gap
    <2>1. CASE side = "NONE"
      BY <1>2, <1>3, <1>4, <1>5, <2>1
    <2>2. CASE side # "NONE"
      BY <1>2, <1>3, <1>4, <1>5, <2>2
    <2> QED BY <2>1, <2>2
  <1>8. Knows(new, t, gap)
    BY <1>1, <1>2, <1>7 DEF Knows
  <1> QED BY <1>a, <1>6, <1>8 DEF t, n

\* Nothing seen, nothing known.
LEMMA NothingKnown ==
  ASSUME NEW gap \in Nat \ {0}
  PROVE  Knows(Cross!NoState, <<>>, gap) /\ Cardinality(Cross!Turns(<<>>, gap)) = 0
  <1>1. Len(<<>>) = 0
    OBVIOUS
  <1>2. Cross!Turns(<<>>, gap) = {} /\ \A side : ~Cross!LeadsAt(<<>>, Len(<<>>), side, gap)
    BY <1>1 DEF Cross!Turns, Cross!LeadsAt
  <1>3. Cardinality({}) = 0
    BY FS_EmptySet
  <1>4. Cross!NoState.current_side = "NONE" /\ "NONE" \notin Cross!Tokens
    BY DEF Cross!NoState, Cross!Tokens
  <1> QED BY <1>2, <1>3, <1>4 DEF Knows

\* The invariant in these terms.
Tracked(st, s) ==
  /\ st \in CrossState /\ s \in Seq(Gaps)
  /\ Knows(st, s, 1) /\ Knows(st, s, SignificantGap)
  /\ st.cross_count = Cardinality(Cross!Turns(s, 1))
  /\ st.significant_cross_count = Cardinality(Cross!Turns(s, SignificantGap))

TrackerParts ==
  /\ path \in Seq(Quotes) /\ Len(path) \in 1 .. MaxMoves + 1
  /\ book \in [Cross!Tokens -> 1 .. Len(path)] /\ base \in [Cross!Tokens -> 1 .. Len(path)]
  /\ quote \in [Cross!Tokens -> QuoteType] /\ due \in BOOLEAN
  /\ calm \in CrossState /\ disturbed \in Nat
  /\ Tracked(state, seen)

LEMMA SameCardinality == ASSUME NEW S PROVE Cross!Cardinality(S) = Cardinality(S)
  BY DEF Cross!Cardinality, Cardinality

LEMMA TrackedKnown == Cross!TrackerInv <=> TrackerParts
  <1>1. ASSUME Cross!TrackerInv PROVE TrackerParts
    <2>1. /\ Len(path) \in 1 .. MaxMoves + 1
          /\ book \in [Cross!Tokens -> 1 .. Len(path)] /\ base \in [Cross!Tokens -> 1 .. Len(path)]
          /\ Cross!TypeOK /\ Cross!CountsMatchHistory
          /\ Cross!LeadKept(1) /\ Cross!LeadKept(SignificantGap)
          /\ state.armed \/ (state = Cross!NoState /\ seen = <<>>)
          /\ state.current_side # "NONE" => state.peak_lead_gap > 0
      BY <1>1 DEF Cross!TrackerInv
    <2>2. /\ path \in Seq(Quotes) /\ due \in BOOLEAN /\ quote \in [Cross!Tokens -> QuoteType]
          /\ state \in CrossState /\ calm \in CrossState /\ disturbed \in Nat
          /\ seen \in Seq(Gaps)
      BY <2>1 DEF Cross!TypeOK, Cross!States, CrossState, QuoteType, Gaps
    <2>3. Knows(state, seen, 1) /\ Knows(state, seen, SignificantGap)
      BY <2>1 DEF Knows, Cross!LeadKept
    <2>4. /\ state.cross_count = Cardinality(Cross!Turns(seen, 1))
          /\ state.significant_cross_count = Cardinality(Cross!Turns(seen, SignificantGap))
      BY <2>1, SameCardinality DEF Cross!CountsMatchHistory
    <2> QED BY <2>1, <2>2, <2>3, <2>4 DEF TrackerParts, Tracked
  <1>2. ASSUME TrackerParts PROVE Cross!TrackerInv
    <2>0. /\ path \in Seq(Quotes) /\ Len(path) \in 1 .. MaxMoves + 1
          /\ book \in [Cross!Tokens -> 1 .. Len(path)]
          /\ base \in [Cross!Tokens -> 1 .. Len(path)]
          /\ quote \in [Cross!Tokens -> QuoteType] /\ due \in BOOLEAN
          /\ calm \in CrossState /\ disturbed \in Nat
          /\ state \in CrossState /\ seen \in Seq(Gaps)
          /\ Knows(state, seen, 1) /\ Knows(state, seen, SignificantGap)
          /\ state.cross_count = Cardinality(Cross!Turns(seen, 1))
          /\ state.significant_cross_count = Cardinality(Cross!Turns(seen, SignificantGap))
      BY <1>2 DEF TrackerParts, Tracked
    <2>1. /\ book \in [Cross!Tokens -> 1 .. MaxMoves + 1]
          /\ base \in [Cross!Tokens -> 1 .. MaxMoves + 1]
      <3>1. 1 .. Len(path) \subseteq 1 .. MaxMoves + 1
        BY <2>0, CrossConstants
      <3> QED BY <2>0, <3>1
    <2>3. Cross!TypeOK
      BY <2>0, <2>1 DEF Cross!TypeOK, Cross!States, CrossState, QuoteType, Gaps
    <2>5. /\ Cross!LeadKept(1) /\ Cross!LeadKept(SignificantGap)
          /\ state.armed \/ (state = Cross!NoState /\ seen = <<>>)
          /\ state.current_side # "NONE" => state.peak_lead_gap > 0
      BY <2>0 DEF Knows, Cross!LeadKept
    <2>6. state.peak_lead_gap \in 0 .. 100
      BY <2>0 DEF CrossState
    <2>7. state.current_side # "NONE" => state.peak_lead_gap >= 1
      <3>1. state.current_side # "NONE" => state.peak_lead_gap > 0
        BY <2>5
      <3> QED BY <2>6, <3>1
    <2>8. \A side \in Cross!Tokens :
            state.current_side = side <=> Cross!LeadsAt(seen, Len(seen), side, 1)
      <3>1. "NONE" \notin Cross!Tokens
        BY DEF Cross!Tokens
      <3> QED BY <2>5, <2>7, <3>1 DEF Cross!LeadKept
    <2>9. Cross!CountsMatchHistory
      BY <2>0, <2>8, SameCardinality DEF Cross!CountsMatchHistory
    <2> QED BY <2>0, <2>3, <2>5, <2>9 DEF Cross!TrackerInv
  <1> QED BY <1>1, <1>2

\* A lead that is known is one of a cent or more.
LEMMA AnyLead ==
  ASSUME NEW st \in CrossState, NEW lead, st.current_side # "NONE" => st.peak_lead_gap > 0
  PROVE  EndsLead(st, lead, 1) <=> EndsLead(st, lead, 0)
  <1>1. st.peak_lead_gap \in 0 .. 100
    BY DEF CrossState
  <1> QED BY <1>1 DEF EndsLead

\* A tick that is tracked.
LEMMA TickTracked ==
  ASSUME NEW st, NEW s, Tracked(st, s), NEW lead \in Gaps
  PROVE  Tracked(Cross!Observe(st, lead), Append(s, lead))
  <1>a. PICK new : new = Cross!Observe(st, lead)
    OBVIOUS
  <1>b. PICK t : t = Append(s, lead)
    OBVIOUS
  <1>1. /\ st \in CrossState /\ s \in Seq(Gaps)
        /\ Knows(st, s, 1) /\ Knows(st, s, SignificantGap)
        /\ st.cross_count = Cardinality(Cross!Turns(s, 1))
        /\ st.significant_cross_count = Cardinality(Cross!Turns(s, SignificantGap))
    BY DEF Tracked
  <1>2. /\ Knows(new, t, 1) /\ Knows(new, t, SignificantGap)
        /\ TurnsAt(t, Len(s) + 1, 1) <=> EndsLead(st, lead, 1)
        /\ TurnsAt(t, Len(s) + 1, SignificantGap) <=> EndsLead(st, lead, SignificantGap)
    BY <1>a, <1>b, <1>1, KnownLead, CrossConstants
  <1>3. t \in Seq(Gaps)
    BY <1>b, <1>1, AppendProperties
  <1>4. ASSUME NEW gap
        PROVE  /\ Cardinality(Cross!Turns(t, gap)) = Cardinality(Cross!Turns(s, gap))
                    + (IF TurnsAt(t, Len(s) + 1, gap) THEN 1 ELSE 0)
               /\ Cardinality(Cross!Turns(s, gap)) \in Nat
    BY <1>b, <1>1, TurnsAppend, TurnsAreFinite
  <1>5. Observes(st, lead, new, Cross!LeadSide(lead), Cross!Size(lead))
    BY <1>a, <1>1, Observed
  <1>6. EndsLead(st, lead, 1) <=> EndsLead(st, lead, 0)
    BY <1>1, AnyLead DEF Knows
  <1>7. new \in CrossState
    BY <1>5 DEF Observes
  <1>8. CASE st.armed
    <2>1. /\ new.cross_count = st.cross_count + (IF EndsLead(st, lead, 0) THEN 1 ELSE 0)
          /\ new.significant_cross_count = st.significant_cross_count
               + (IF EndsLead(st, lead, SignificantGap) THEN 1 ELSE 0)
      BY <1>5, <1>8 DEF Observes
    <2>2. /\ new.cross_count = Cardinality(Cross!Turns(t, 1))
          /\ new.significant_cross_count = Cardinality(Cross!Turns(t, SignificantGap))
      BY <1>1, <1>2, <1>4, <1>6, <2>1
    <2> QED BY <1>a, <1>b, <1>2, <1>3, <1>7, <2>2 DEF Tracked
  <1>9. CASE ~st.armed
    <2>1. st = Cross!NoState
      BY <1>1, <1>9 DEF Knows
    <2>2. st.cross_count = 0 /\ st.significant_cross_count = 0
      BY <2>1 DEF Cross!NoState
    <2>3. new.cross_count = 0 /\ new.significant_cross_count = 0
      BY <1>5, <1>9 DEF Observes
    <2>4. ~TurnsAt(t, Len(s) + 1, 1) /\ ~TurnsAt(t, Len(s) + 1, SignificantGap)
      BY <1>2, <1>9 DEF EndsLead
    <2>5. /\ Cardinality(Cross!Turns(t, 1)) = Cardinality(Cross!Turns(s, 1))
          /\ Cardinality(Cross!Turns(t, SignificantGap)) =
               Cardinality(Cross!Turns(s, SignificantGap))
      BY <1>4, <2>4
    <2>6. /\ new.cross_count = Cardinality(Cross!Turns(t, 1))
          /\ new.significant_cross_count = Cardinality(Cross!Turns(t, SignificantGap))
      BY <1>1, <2>2, <2>3, <2>5
    <2> QED BY <1>a, <1>b, <1>2, <1>3, <1>7, <2>6 DEF Tracked
  <1> QED BY <1>8, <1>9

\* The quotes of the market's own books, and those a price leaves.
LEMMA OwnQuotes ==
  ASSUME path \in Seq(Quotes), NEW t \in Cross!Tokens, NEW i \in 1 .. Len(path)
  PROVE  Cross!Own(t, i) \in QuoteType
  <1>1. PICK q : q = path[i]
    OBVIOUS
  <1>2. q \in Quotes
    BY <1>1, ElementOfSeq
  <1>3. q \in [bid : 1 .. 98, ask : 2 .. 99]
    BY <1>2, CrossConstants
  <1>4. PICK low, high : low = q.bid /\ high = q.ask
    OBVIOUS
  <1>5. low \in 1 .. 98 /\ high \in 2 .. 99
    BY <1>3, <1>4
  <1>6. 100 - high \in 0 .. 98 /\ 100 - low \in 0 .. 99 /\ low \in 0 .. 98 /\ high \in 0 .. 99
    BY <1>5
  <1>7. q \in QuoteType /\ [bid |-> 100 - high, ask |-> 100 - low] \in QuoteType
    BY <1>3, <1>4, <1>6 DEF QuoteType
  <1> QED BY <1>1, <1>4, <1>7 DEF Cross!Own

LEMMA PrintedQuotes ==
  ASSUME NEW q \in QuoteType, NEW price \in Prints
  PROVE  Cross!Printed(q, price) \in QuoteType
  <1>1. price \in 1 .. 98 /\ q.ask \in 0 .. 99
    BY CrossConstants DEF QuoteType
  <1>2. price \in 0 .. 98 /\ price + 1 \in 0 .. 99
    BY <1>1
  <1> QED BY <1>1, <1>2 DEF Cross!Printed, QuoteType

LEMMA LeadRange ==
  ASSUME NEW q \in [Cross!Tokens -> QuoteType]
  PROVE  Cross!LeadOf(q) \in Gaps
  <1>1. PICK a, b, c, d : /\ a = q["UP"].bid /\ b = q["UP"].ask
                          /\ c = q["DOWN"].bid /\ d = q["DOWN"].ask
    OBVIOUS
  <1>2. a \in 0 .. 98 /\ b \in 0 .. 99 /\ c \in 0 .. 98 /\ d \in 0 .. 99
    BY <1>1 DEF Cross!Tokens, QuoteType
  <1>3. PICK twice : twice = (a + b) - (c + d)
    OBVIOUS
  <1>4. twice \in -197 .. 197
    BY <1>2, <1>3
  <1>5. (IF twice < 0 THEN -((-twice) \div 2) ELSE twice \div 2) \in Gaps
    BY <1>4 DEF Gaps
  <1> QED BY <1>1, <1>3, <1>5 DEF Cross!LeadOf

LEMMA TrackerStart == Cross!Init => TrackerParts
  <1> SUFFICES ASSUME Cross!Init PROVE TrackerParts
    OBVIOUS
  <1>1. PICK q \in Quotes : path = <<q>>
    BY DEF Cross!Init
  <1>2. path \in Seq(Quotes) /\ Len(path) = 1
    BY <1>1
  <1>3. /\ Len(path) \in 1 .. MaxMoves + 1
        /\ book \in [Cross!Tokens -> 1 .. Len(path)] /\ base \in [Cross!Tokens -> 1 .. Len(path)]
    BY <1>2, CrossConstants DEF Cross!Init
  <1>4. quote \in [Cross!Tokens -> QuoteType]
    <2>1. \A t \in Cross!Tokens : Cross!Own(t, 1) \in QuoteType
      BY <1>2, OwnQuotes
    <2> QED BY <2>1 DEF Cross!Init
  <1>5. Cross!NoState \in CrossState /\ Cross!NoState.cross_count = 0
        /\ Cross!NoState.significant_cross_count = 0
    BY DEF Cross!NoState, CrossState, Cross!Leaders
  <1>6. Tracked(Cross!NoState, <<>>)
    BY <1>5, NothingKnown, CrossConstants DEF Tracked
  <1> QED BY <1>2, <1>3, <1>4, <1>5, <1>6 DEF Cross!Init, TrackerParts

\* The messages: each is a tick of some books and quotes.
LEMMA TickOf ==
  ASSUME TrackerParts, Cross!BookMessage \/ Cross!PriceMessage \/ Cross!Reconnect
  PROVE  \E b \in [Cross!Tokens -> 1 .. Len(path)], q \in [Cross!Tokens -> QuoteType] :
           Cross!TickWith(b, q)
  <1>1. /\ path \in Seq(Quotes) /\ book \in [Cross!Tokens -> 1 .. Len(path)]
        /\ quote \in [Cross!Tokens -> QuoteType]
    BY DEF TrackerParts
  <1>2. CASE Cross!BookMessage
    <2>1. PICK token \in Cross!Tokens, at \in 1 .. Len(path) :
            Cross!TickWith([book EXCEPT ![token] = at],
                           [quote EXCEPT ![token] = Cross!Own(token, at)])
      BY <1>2 DEF Cross!BookMessage
    <2>2. Cross!Own(token, at) \in QuoteType
      BY <1>1, OwnQuotes
    <2>3. PICK b, q : /\ b = [book EXCEPT ![token] = at]
                      /\ q = [quote EXCEPT ![token] = Cross!Own(token, at)]
      OBVIOUS
    <2>4. b \in [Cross!Tokens -> 1 .. Len(path)] /\ q \in [Cross!Tokens -> QuoteType]
      BY <1>1, <2>2, <2>3
    <2> QED BY <2>1, <2>3, <2>4
  <1>3. CASE Cross!PriceMessage
    <2>1. PICK token \in Cross!Tokens, price \in Prints :
            Cross!TickWith(book, [quote EXCEPT ![token] = Cross!Printed(quote[token], price)])
      BY <1>3 DEF Cross!PriceMessage
    <2>2. Cross!Printed(quote[token], price) \in QuoteType
      BY <1>1, PrintedQuotes
    <2>3. PICK q : q = [quote EXCEPT ![token] = Cross!Printed(quote[token], price)]
      OBVIOUS
    <2>4. q \in [Cross!Tokens -> QuoteType]
      BY <1>1, <2>2, <2>3
    <2> QED BY <1>1, <2>1, <2>3, <2>4
  <1>4. CASE Cross!Reconnect
    <2>1. PICK b \in [Cross!Tokens -> 1 .. Len(path)], failed \in SUBSET Cross!Tokens :
            Cross!TickWith(b, [t \in Cross!Tokens |-> IF t \in failed THEN Cross!Empty
                                                     ELSE Cross!Own(t, b[t])])
      BY <1>4 DEF Cross!Reconnect
    <2>2. \A t \in Cross!Tokens : Cross!Own(t, b[t]) \in QuoteType
      BY <1>1, OwnQuotes
    <2>3. Cross!Empty \in QuoteType
      BY DEF Cross!Empty, QuoteType
    <2> QED BY <2>1, <2>2, <2>3
  <1> QED BY <1>2, <1>3, <1>4

\* Every step of the tracker keeps what it knows.
LEMMA TrackerStep ==
  ASSUME TrackerParts, Cross!Next \/ UNCHANGED crossVars
  PROVE  TrackerParts'
  <1>1. /\ path \in Seq(Quotes) /\ Len(path) \in 1 .. MaxMoves + 1
        /\ book \in [Cross!Tokens -> 1 .. Len(path)] /\ base \in [Cross!Tokens -> 1 .. Len(path)]
        /\ quote \in [Cross!Tokens -> QuoteType] /\ due \in BOOLEAN
        /\ calm \in CrossState /\ disturbed \in Nat
        /\ Tracked(state, seen)
    BY DEF TrackerParts
  <1>2. SUFFICES /\ path' \in Seq(Quotes) /\ Len(path') \in 1 .. MaxMoves + 1
                 /\ book' \in [Cross!Tokens -> 1 .. Len(path')]
                 /\ base' \in [Cross!Tokens -> 1 .. Len(path')]
                 /\ quote' \in [Cross!Tokens -> QuoteType] /\ due' \in BOOLEAN
                 /\ calm' \in CrossState /\ disturbed' \in Nat
                 /\ Tracked(state', seen')
    BY DEF TrackerParts
  <1>3. CASE Cross!BookMessage \/ Cross!PriceMessage \/ Cross!Reconnect
    <2>1. PICK b \in [Cross!Tokens -> 1 .. Len(path)], q \in [Cross!Tokens -> QuoteType] :
            Cross!TickWith(b, q)
      BY <1>3, TickOf
    <2>2. PICK lead : lead = Cross!LeadOf(q)
      OBVIOUS
    <2>3. lead \in Gaps
      BY <2>2, LeadRange
    <2>4. Tracked(Cross!Observe(state, lead), Append(seen, lead))
      BY <1>1, <2>3, TickTracked
    <2>5. Cross!Observe(calm, lead) \in CrossState
      BY <1>1, <2>3, Observed DEF Observes
    <2>6. /\ path' = path /\ book' = b /\ quote' = q /\ due' = due
          /\ Tracked(state', seen')
          /\ calm' \in {calm, Cross!Observe(calm, lead)} /\ base' \in {base, b}
          /\ disturbed' \in {disturbed, disturbed + 1}
      BY <1>1, <2>1, <2>2, <2>4 DEF Cross!TickWith
    <2> QED BY <1>1, <2>5, <2>6
  <1>4. CASE Cross!Move
    <2>1. PICK q \in Quotes : path' = Append(path, q)
      BY <1>4 DEF Cross!Move
    <2>2. path' \in Seq(Quotes) /\ Len(path') = Len(path) + 1
      BY <1>1, <2>1, AppendProperties
    <2>3. /\ Len(path) <= MaxMoves /\ book' = book /\ base' = base /\ quote' = quote
          /\ due' = due /\ state' = state /\ seen' = seen
          /\ calm' = calm /\ disturbed' = disturbed
      BY <1>4 DEF Cross!Move
    <2>4. Len(path') \in 1 .. MaxMoves + 1 /\ 1 .. Len(path) \subseteq 1 .. Len(path')
      BY <1>1, <2>2, <2>3, CrossConstants
    <2>5. /\ book' \in [Cross!Tokens -> 1 .. Len(path')]
          /\ base' \in [Cross!Tokens -> 1 .. Len(path')]
      BY <1>1, <2>3, <2>4
    <2> QED BY <1>1, <2>2, <2>3, <2>4, <2>5
  <1>5. CASE Cross!BecomeDue
    BY <1>1, <1>5 DEF Cross!BecomeDue
  <1>6. CASE Cross!RemoveWindow
    <2>1. Cross!NoState \in CrossState /\ Cross!NoState.cross_count = 0
          /\ Cross!NoState.significant_cross_count = 0
      BY DEF Cross!NoState, CrossState, Cross!Leaders
    <2>2. Tracked(Cross!NoState, <<>>)
      BY <2>1, NothingKnown, CrossConstants DEF Tracked
    <2>3. [token \in Cross!Tokens |-> 1] \in [Cross!Tokens -> 1 .. Len(path)]
      BY <1>1
    <2> QED BY <1>1, <1>6, <2>1, <2>2, <2>3 DEF Cross!RemoveWindow
  <1>7. CASE UNCHANGED crossVars
    BY <1>1, <1>7 DEF crossVars
  <1> QED BY <1>3, <1>4, <1>5, <1>6, <1>7 DEF Cross!Next

-----------------------------------------------------------------------------
(* The tracker and the course of the market                                *)

\* A lead of the course goes on, or ends in a turn.
LEMMA LeadGoesOn ==
  ASSUME NEW s, Len(s) \in Nat, NEW m \in Nat, NEW k \in Nat, m <= k, k <= Len(s),
         NEW side \in Cross!Tokens, NEW gap, Cross!LeadsAt(s, m, side, gap)
  PROVE  Cross!LeadsAt(s, k, side, gap) \/ \E i \in m + 1 .. k : i \in Cross!Turns(s, gap)
  <1> DEFINE Goes(i) == s[i] = 0 \/ Cross!Favours(side, s[i])
             Ends    == {i \in Nat : i > m /\ i <= k /\ ~Goes(i)}
  <1>1. PICK j \in 1 .. m : /\ Cross!Favours(side, s[j]) /\ Cross!Size(s[j]) >= gap
                            /\ \A i \in j .. m : Goes(i)
    BY DEF Cross!LeadsAt
  <1>2. ASSUME NEW n \in Nat, m <= n, \A i \in m + 1 .. n : Goes(i)
        PROVE  Cross!LeadsAt(s, n, side, gap)
    <2>1. j \in 1 .. n /\ \A i \in j .. n : i \in j .. m \/ i \in m + 1 .. n
      BY <1>2
    <2>2. \A i \in j .. n : Goes(i)
      <3> HIDE DEF Goes
      <3> QED BY <1>1, <1>2, <2>1
    <2> QED BY <1>1, <2>1, <2>2 DEF Cross!LeadsAt
  <1>3. CASE Ends = {}
    <2>1. \A i \in m + 1 .. k : Goes(i)
      <3>1. \A i \in m + 1 .. k : i \in Nat /\ i > m /\ i <= k
        OBVIOUS
      <3> HIDE DEF Goes
      <3> QED BY <1>3, <3>1
    <2> HIDE DEF Goes
    <2> QED BY <1>2, <2>1
  <1>4. CASE Ends # {}
    <2>1. PICK first \in Ends : \A i \in Ends : first <= i
      <3>1. Ends \in SUBSET Nat
        OBVIOUS
      <3> HIDE DEF Ends
      <3> QED BY <1>4, <3>1, LeastNumber
    <2>2. first \in Nat /\ first > m /\ first <= k /\ ~Goes(first)
      BY <2>1
    <2> HIDE DEF Goes
    <2>3. first - 1 \in Nat /\ m <= first - 1 /\ first \in m + 1 .. k /\ first \in 1 .. Len(s)
      BY <2>2
    <2>4. \A i \in m + 1 .. first - 1 : Goes(i)
      <3>1. \A i \in m + 1 .. first - 1 : i \in Nat /\ i > m /\ i <= k /\ ~(first <= i)
        BY <2>2
      <3> QED BY <2>1, <3>1
    <2>5. Cross!LeadsAt(s, first - 1, side, gap)
      BY <1>2, <2>3, <2>4
    <2>6. first \in Cross!Turns(s, gap)
      BY <2>2, <2>3, <2>5 DEF Cross!Turns, Goes
    <2> QED BY <2>3, <2>6
  <1> QED BY <1>3, <1>4

\* The turns up to a point.
UpTo(s, gap, m) == Cardinality(Cross!Turns(s, gap) \cap (1 .. m))

LEMMA TurnsCounted ==
  ASSUME NEW s, NEW gap, NEW m \in Nat, NEW k \in Nat, m <= k
  PROVE  /\ UpTo(s, gap, m) \in Nat /\ UpTo(s, gap, k) \in Nat
         /\ UpTo(s, gap, m) <= UpTo(s, gap, k)
         /\ (\E i \in m + 1 .. k : i \in Cross!Turns(s, gap)) => UpTo(s, gap, m) + 1 <= UpTo(s, gap, k)
  <1> DEFINE M == Cross!Turns(s, gap) \cap (1 .. m)
             K == Cross!Turns(s, gap) \cap (1 .. k)
  <1>1. IsFiniteSet(1 .. k) /\ K \subseteq 1 .. k /\ M \subseteq K
    BY FS_Interval
  <1>2. \A i \in m + 1 .. k : i \in 1 .. k /\ i \notin 1 .. m
    OBVIOUS
  <1>3. \A i \in m + 1 .. k : i \in Cross!Turns(s, gap) => i \in K /\ i \notin M
    BY <1>2
  <1> HIDE DEF M, K
  <1>4. IsFiniteSet(K)
    BY <1>1, FS_Subset
  <1>5. IsFiniteSet(M) /\ Cardinality(M) <= Cardinality(K)
        /\ (Cardinality(K) = Cardinality(M) => K = M)
    BY <1>1, <1>4, FS_Subset
  <1>6. Cardinality(M) \in Nat /\ Cardinality(K) \in Nat
    BY <1>4, <1>5, FS_CardinalityType
  <1>7. (\E i \in m + 1 .. k : i \in Cross!Turns(s, gap)) => Cardinality(M) + 1 <= Cardinality(K)
    <2>1. SUFFICES ASSUME \E i \in m + 1 .. k : i \in Cross!Turns(s, gap)
                   PROVE  Cardinality(M) + 1 <= Cardinality(K)
      OBVIOUS
    <2>2. K # M
      BY <1>3, <2>1
    <2>3. Cardinality(K) # Cardinality(M)
      BY <1>5, <2>2
    <2> QED BY <1>5, <1>6, <2>3
  <1>8. UpTo(s, gap, m) = Cardinality(M) /\ UpTo(s, gap, k) = Cardinality(K)
    BY DEF UpTo, M, K
  <1> QED BY <1>5, <1>6, <1>7, <1>8

\* NotAhead, of the course s as far as m.
Counted(s, m, st, count, gap) ==
  /\ count <= UpTo(s, gap, m)
  /\ st.current_side # "NONE" /\ st.peak_lead_gap >= gap =>
       Cross!LeadsAt(s, m, st.current_side, gap) \/ count + 1 <= UpTo(s, gap, m)

\* What is counted stays counted as the books go on.
LEMMA CourseGoesOn ==
  ASSUME NEW s, Len(s) \in Nat, NEW m \in Nat, NEW k \in Nat, m <= k, k <= Len(s),
         NEW st \in CrossState, NEW count \in Nat, NEW gap,
         Counted(s, m, st, count, gap)
  PROVE  Counted(s, k, st, count, gap)
  <1>1. PICK low, high : low = UpTo(s, gap, m) /\ high = UpTo(s, gap, k)
    OBVIOUS
  <1>2. /\ low \in Nat /\ high \in Nat /\ low <= high
        /\ (\E i \in m + 1 .. k : i \in Cross!Turns(s, gap)) => low + 1 <= high
    BY <1>1, TurnsCounted
  <1>3. count <= low
    BY <1>1 DEF Counted
  <1>4. count <= high
    BY <1>2, <1>3
  <1>5. ASSUME st.current_side # "NONE", st.peak_lead_gap >= gap
        PROVE  Cross!LeadsAt(s, k, st.current_side, gap) \/ count + 1 <= high
    <2>1. st.current_side \in Cross!Tokens
      BY <1>5 DEF CrossState, Cross!Leaders, Cross!Tokens
    <2>2. CASE Cross!LeadsAt(s, m, st.current_side, gap)
      <3>1. Cross!LeadsAt(s, k, st.current_side, gap) \/ low + 1 <= high
        BY <1>2, <2>1, <2>2, LeadGoesOn
      <3>2. low + 1 <= high => count + 1 <= high
        BY <1>2, <1>3
      <3> QED BY <3>1, <3>2
    <2>3. CASE ~Cross!LeadsAt(s, m, st.current_side, gap)
      <3>1. count + 1 <= low
        BY <1>1, <1>5, <2>3 DEF Counted
      <3> QED BY <1>2, <3>1
    <2> QED BY <2>2, <2>3
  <1> QED BY <1>1, <1>4, <1>5 DEF Counted

\* A tick whose lead the course had at p, or more: a lead it ends has ended by there.
LEMMA CourseCounted ==
  ASSUME NEW s, Len(s) \in Nat, \A i \in 1 .. Len(s) : s[i] \in Int,
         NEW m \in Nat, NEW p \in Nat \ {0}, NEW k \in Nat, m <= p, p <= k, k <= Len(s),
         NEW st \in CrossState, st.armed \/ st = Cross!NoState,
         NEW gap \in Nat \ {0}, NEW count \in Nat, Counted(s, m, st, count, gap),
         NEW lead \in Gaps, lead # 0, Cross!Favours(Cross!LeadSide(lead), s[p]),
         Cross!Size(s[p]) >= Cross!Size(lead),
         NEW next, next = IF st.armed THEN count + (IF EndsLead(st, lead, gap) THEN 1 ELSE 0)
                          ELSE 0
  PROVE  Counted(s, k, Cross!Observe(st, lead), next, gap)
  <1>a. PICK new : new = Cross!Observe(st, lead)
    OBVIOUS
  <1>b. PICK side : side = Cross!LeadSide(lead)
    OBVIOUS
  <1>c. PICK size : size = Cross!Size(lead)
    OBVIOUS
  <1>d. PICK low, high : low = UpTo(s, gap, m) /\ high = UpTo(s, gap, p)
    OBVIOUS
  <1>1. /\ side # "NONE" /\ side \in Cross!Tokens /\ size \in Nat
        /\ \A x \in Cross!Tokens : x # side => ~(s[p] = 0 \/ Cross!Favours(x, s[p]))
    <2>1. s[p] \in Int
      OBVIOUS
    <2> QED BY <1>b, <1>c, <2>1 DEF Gaps, Cross!LeadSide, Cross!Favours, Cross!Tokens, Cross!Size
  <1>2. /\ new \in CrossState /\ new.current_side = side
        /\ new.peak_lead_gap =
             IF st.armed /\ st.current_side = side /\ st.peak_lead_gap >= size
             THEN st.peak_lead_gap ELSE size
    <2>1. Observes(st, lead, new, side, size)
      BY <1>a, <1>b, <1>c, Observed
    <2> QED BY <1>1, <2>1 DEF Observes
  <1>3. size >= gap => Cross!LeadsAt(s, p, side, gap)
    <2>1. SUFFICES ASSUME size >= gap PROVE Cross!LeadsAt(s, p, side, gap)
      OBVIOUS
    <2>2. PICK own : own = Cross!Size(s[p])
      OBVIOUS
    <2>3. s[p] \in Int
      OBVIOUS
    <2>4. own \in Nat /\ own >= size
      BY <1>c, <2>2, <2>3 DEF Cross!Size
    <2>5. own >= gap
      BY <1>1, <2>1, <2>4
    <2>6. p \in 1 .. p /\ p .. p = {p}
      OBVIOUS
    <2> QED BY <1>b, <2>2, <2>5, <2>6 DEF Cross!LeadsAt
  <1>4. /\ low \in Nat /\ high \in Nat /\ low <= high
        /\ (\E i \in m + 1 .. p : i \in Cross!Turns(s, gap)) => low + 1 <= high
    BY <1>d, TurnsCounted
  <1>5. count <= low
    BY <1>d DEF Counted
  <1>6. next \in Nat /\ next <= high
    <2>1. CASE ~(st.armed /\ EndsLead(st, lead, gap))
      BY <1>4, <1>5, <2>1
    <2>2. CASE st.armed /\ EndsLead(st, lead, gap)
      <3>1. next = count + 1
        BY <2>2
      <3>2. st.current_side # "NONE" /\ st.current_side # side /\ st.peak_lead_gap >= gap
        BY <1>b, <2>2 DEF EndsLead
      <3>3. st.current_side \in Cross!Tokens
        BY <3>2 DEF CrossState, Cross!Leaders, Cross!Tokens
      <3>4. CASE Cross!LeadsAt(s, m, st.current_side, gap)
        <4>1. ~Cross!LeadsAt(s, p, st.current_side, gap)
          <5>1. ~(s[p] = 0 \/ Cross!Favours(st.current_side, s[p]))
            BY <1>1, <3>2, <3>3
          <5>2. \A j \in 1 .. p : p \in j .. p
            OBVIOUS
          <5> QED BY <5>1, <5>2 DEF Cross!LeadsAt
        <4>2. p <= Len(s)
          OBVIOUS
        <4>3. \E i \in m + 1 .. p : i \in Cross!Turns(s, gap)
          BY <3>3, <3>4, <4>1, <4>2, LeadGoesOn
        <4>4. low + 1 <= high
          BY <1>4, <4>3
        <4> QED BY <1>4, <1>5, <3>1, <4>4
      <3>5. CASE ~Cross!LeadsAt(s, m, st.current_side, gap)
        <4>1. count + 1 <= low
          BY <1>d, <3>2, <3>5 DEF Counted
        <4> QED BY <1>4, <3>1, <4>1
      <3> QED BY <3>4, <3>5
    <2> QED BY <2>1, <2>2
  <1>7. CASE size >= gap
    <2>1. Counted(s, p, new, next, gap)
      BY <1>d, <1>2, <1>3, <1>6, <1>7 DEF Counted
    <2> QED BY <1>a, <1>2, <1>6, <2>1, CourseGoesOn
  <1>8. CASE ~(size >= gap) /\ new.peak_lead_gap >= gap
    <2>1. st.armed /\ st.current_side = side /\ st.peak_lead_gap >= gap
          /\ new.peak_lead_gap = st.peak_lead_gap
      BY <1>2, <1>8
    <2>2. next = count
      BY <1>b, <2>1 DEF EndsLead
    <2>3. Counted(s, m, new, next, gap)
      BY <1>2, <2>1, <2>2 DEF Counted
    <2>4. m <= k
      OBVIOUS
    <2> QED BY <1>a, <1>2, <1>6, <2>3, <2>4, CourseGoesOn
  <1>9. CASE ~(new.peak_lead_gap >= gap)
    <2>1. Counted(s, p, new, next, gap)
      BY <1>d, <1>6, <1>9 DEF Counted
    <2> QED BY <1>a, <1>2, <1>6, <2>1, CourseGoesOn
  <1> QED BY <1>7, <1>8, <1>9

\* The course as a sequence of leads.
LeadsOf(p) == [i \in 1 .. Len(p) |-> p[i].bid + p[i].ask - 100]
LEMMA CourseOfPath ==
  ASSUME NEW p \in Seq(Quotes), NEW s, s = LeadsOf(p)
  PROVE  s \in Seq(Int) /\ Len(s) = Len(p) /\ Len(s) \in Nat
         /\ \A i \in 1 .. Len(s) : /\ s[i] = p[i].bid + p[i].ask - 100 /\ s[i] \in Int
                                  /\ p[i].bid \in 1 .. 98 /\ p[i].ask \in 2 .. 99
  <1> DEFINE Of(q) == q.bid + q.ask - 100
  <1>1. Len(p) \in Nat
    BY LenProperties
  <1>2. \A q \in Quotes : q.bid \in 1 .. 98 /\ q.ask \in 2 .. 99 /\ Of(q) \in Int
    <2>1. ASSUME NEW q \in Quotes
          PROVE  q.bid \in 1 .. 98 /\ q.ask \in 2 .. 99 /\ Of(q) \in Int
      <3>1. q \in [bid : 1 .. 98, ask : 2 .. 99]
        BY CrossConstants
      <3>2. PICK low, high : low = q.bid /\ high = q.ask
        OBVIOUS
      <3>3. low \in 1 .. 98 /\ high \in 2 .. 99
        BY <3>1, <3>2
      <3>4. low + high - 100 \in Int
        BY <3>3
      <3> QED BY <3>2, <3>3, <3>4, Zenon
    <2> QED BY <2>1
  <1>3. \A i \in 1 .. Len(p) : p[i] \in Quotes
    BY ElementOfSeq
  <1>4. s = [i \in 1 .. Len(p) |-> Of(p[i])]
    BY DEF LeadsOf
  <1> HIDE DEF Of
  <1>5. PICK n : n = Len(p)
    OBVIOUS
  <1>6. n \in Nat /\ s = [i \in 1 .. n |-> Of(p[i])] /\ \A i \in 1 .. n : Of(p[i]) \in Int
    BY <1>1, <1>2, <1>3, <1>4, <1>5
  <1>7. s \in [1 .. n -> Int] /\ \A i \in 1 .. n : s[i] = Of(p[i])
    BY <1>6
  <1>8. s \in Seq(Int)
    BY <1>6, <1>7, SeqDef
  <1>9. Len(s) \in Nat /\ 1 .. Len(s) = 1 .. n
    BY <1>7, <1>8, LenProperties
  <1>10. Len(s) = n
    <2>1. PICK l : l = Len(s)
      OBVIOUS
    <2>2. l \in Nat /\ 1 .. l = 1 .. n
      BY <1>9, <2>1, Zenon
    <2>3. l = n
      BY <1>6, <2>2
    <2> QED BY <2>1, <2>3
  <1>11. \A i \in 1 .. n : s[i] = Of(p[i]) /\ s[i] \in Int
                          /\ p[i].bid \in 1 .. 98 /\ p[i].ask \in 2 .. 99
    BY <1>2, <1>3, <1>5, <1>6, <1>7
  <1> QED BY <1>1, <1>5, <1>8, <1>10, <1>11 DEF Of

\* Two books that have moved on are both as far as the newer one was.
LEMMA BooksMoveOn ==
  ASSUME NEW n \in Nat, NEW a \in [Cross!Tokens -> 1 .. n],
         NEW b \in [Cross!Tokens -> 1 .. n], \A t \in Cross!Tokens : b[t] >= a[t],
         Cross!Together(a), Cross!Together(b), a # b,
         NEW t \in Cross!Tokens, NEW u \in Cross!Tokens
  PROVE  a[u] <= b[t]
  <1>1. "UP" \in Cross!Tokens /\ "DOWN" \in Cross!Tokens /\ t \in {"UP", "DOWN"}
        /\ u \in {"UP", "DOWN"}
    BY DEF Cross!Tokens
  <1>a. PICK au, ad, bu, bd : au = a["UP"] /\ ad = a["DOWN"] /\ bu = b["UP"] /\ bd = b["DOWN"]
    OBVIOUS
  <1>2. au \in Nat /\ ad \in Nat /\ bu \in Nat /\ bd \in Nat
    BY <1>1, <1>a
  <1>3. bu >= au /\ bd >= ad
    BY <1>1, <1>a
  <1>4. au <= ad + 1 /\ ad <= au + 1 /\ bu <= bd + 1 /\ bd <= bu + 1
    BY <1>1, <1>a DEF Cross!Together
  <1>5. ~(au = bu /\ ad = bd)
    <2>1. SUFFICES ASSUME au = bu, ad = bd PROVE FALSE
      OBVIOUS
    <2>2. \A x \in Cross!Tokens : a[x] = b[x]
      BY <1>a, <2>1 DEF Cross!Tokens
    <2> QED BY <2>2
  <1>6. au <= bu /\ ad <= bd /\ au <= bd /\ ad <= bu
    BY <1>2, <1>3, <1>4, <1>5
  <1> QED BY <1>1, <1>a, <1>6

\* One of the two mids leads as clearly as their tick says.
LEMMA OneOfTwo ==
  ASSUME NEW x \in Int, NEW y \in Int, NEW twice \in Int, twice = x + y,
         NEW lead \in Int, lead # 0,
         lead = IF twice < 0 THEN -((-twice) \div 2) ELSE twice \div 2
  PROVE  \E z \in {x, y} : /\ Cross!Favours(Cross!LeadSide(lead), z)
                          /\ Cross!Size(z) >= Cross!Size(lead)
  <1>1. CASE twice >= 0
    <2>1. lead = twice \div 2
      BY <1>1
    <2>2. lead > 0 /\ 2 * lead <= twice
      BY <1>1, <2>1
    <2>3. x >= lead \/ y >= lead
      BY <2>2
    <2> QED BY <2>2, <2>3 DEF Cross!Favours, Cross!LeadSide, Cross!Size
  <1>2. CASE twice < 0
    <2>1. PICK size \in Int : size = (-twice) \div 2 /\ lead = -size
      BY <1>2
    <2>2. size > 0 /\ 2 * size <= -twice
      BY <1>2, <2>1
    <2>3. lead < 0 /\ (x <= lead \/ y <= lead)
      BY <2>1, <2>2
    <2> QED BY <2>3 DEF Cross!Favours, Cross!LeadSide, Cross!Size
  <1> QED BY <1>1, <1>2

\* The lead of a pair of the market's own books.
LEMMA OwnLead ==
  ASSUME path \in Seq(Quotes), NEW b \in [Cross!Tokens -> 1 .. Len(path)],
         NEW q, \A t \in Cross!Tokens : q[t] = Cross!Own(t, b[t]),
         NEW lead, lead = Cross!LeadOf(q), lead # 0, lead \in Int,
         NEW s, s = LeadsOf(path)
  PROVE  \E t \in Cross!Tokens : /\ Cross!Favours(Cross!LeadSide(lead), s[b[t]])
                                /\ Cross!Size(s[b[t]]) >= Cross!Size(lead)
  <1>1. PICK i, j : i = b["UP"] /\ j = b["DOWN"]
    OBVIOUS
  <1>2. i \in 1 .. Len(path) /\ j \in 1 .. Len(path)
    BY <1>1 DEF Cross!Tokens
  <1>r. i \in 1 .. Len(s) /\ j \in 1 .. Len(s)
    BY <1>2, CourseOfPath
  <1>3. /\ s[i] = path[i].bid + path[i].ask - 100
        /\ s[j] = path[j].bid + path[j].ask - 100
        /\ path[i].bid \in 1 .. 98 /\ path[i].ask \in 2 .. 99
        /\ path[j].bid \in 1 .. 98 /\ path[j].ask \in 2 .. 99
    <2>1. \A k \in 1 .. Len(s) : /\ s[k] = path[k].bid + path[k].ask - 100
                                /\ path[k].bid \in 1 .. 98 /\ path[k].ask \in 2 .. 99
      BY CourseOfPath
    <2> QED BY <1>r, <2>1, Zenon
  <1>4. /\ q["UP"] = path[i]
        /\ q["DOWN"] = [bid |-> 100 - path[j].ask, ask |-> 100 - path[j].bid]
    BY <1>1 DEF Cross!Own, Cross!Tokens
  <1>5. PICK c, d, e, f : c = path[i].bid /\ d = path[i].ask /\ e = path[j].bid /\ f = path[j].ask
    OBVIOUS
  <1>6. PICK x, y, twice : x = s[i] /\ y = s[j] /\ twice = (c + d) - ((100 - f) + (100 - e))
    OBVIOUS
  <1>7. /\ c \in 1 .. 98 /\ d \in 2 .. 99 /\ e \in 1 .. 98 /\ f \in 2 .. 99
        /\ x = c + d - 100 /\ y = e + f - 100
    BY <1>3, <1>5, <1>6, Zenon
  <1>8. x \in Int /\ y \in Int /\ twice \in Int /\ twice = x + y
    BY <1>6, <1>7
  <1>9. lead = IF twice < 0 THEN -((-twice) \div 2) ELSE twice \div 2
    BY <1>4, <1>5, <1>6 DEF Cross!LeadOf
  <1>10. \E z \in {x, y} : /\ Cross!Favours(Cross!LeadSide(lead), z)
                          /\ Cross!Size(z) >= Cross!Size(lead)
    BY <1>8, <1>9, OneOfTwo
  <1> QED BY <1>1, <1>6, <1>10 DEF Cross!Tokens

\* Explained, of a state and of what it would be without the disturbed ticks.
Excuses(st, still, count, without, d, gap) ==
  /\ count <= without + 2 * d
  /\ st.current_side # "NONE" /\ st.peak_lead_gap >= gap =>
       \/ still.current_side = st.current_side /\ still.peak_lead_gap >= gap
       \/ count + 1 <= without + 2 * d

\* A count after one more tick.
CountAfter(st, lead, count, gap) ==
  IF st.armed THEN count + (IF EndsLead(st, lead, gap) THEN 1 ELSE 0) ELSE 0

LEMMA TickExplained ==
  ASSUME NEW st \in CrossState, NEW still \in CrossState, NEW lead \in Gaps,
         NEW count \in Nat, NEW without \in Nat, NEW d \in Nat, NEW gap \in Nat,
         ~st.armed => count = 0 /\ st.current_side = "NONE",
         ~still.armed => without = 0 /\ still.current_side = "NONE",
         still.armed => st.armed,
         Excuses(st, still, count, without, d, gap)
  PROVE  /\ Excuses(Cross!Observe(st, lead), still,
                    CountAfter(st, lead, count, gap), without, d + 1, gap)
         /\ Excuses(Cross!Observe(st, lead), Cross!Observe(still, lead),
                    CountAfter(st, lead, count, gap), CountAfter(still, lead, without, gap), d, gap)
  <1>a. PICK new, calmer : new = Cross!Observe(st, lead) /\ calmer = Cross!Observe(still, lead)
    OBVIOUS
  <1>b. PICK side, size : side = Cross!LeadSide(lead) /\ size = Cross!Size(lead)
    OBVIOUS
  <1>c. PICK next, nextw : /\ next = CountAfter(st, lead, count, gap)
                           /\ nextw = CountAfter(still, lead, without, gap)
    OBVIOUS
  <1>1. Observes(st, lead, new, side, size) /\ Observes(still, lead, calmer, side, size)
    BY <1>a, <1>b, Observed
  <1>2. size \in Nat /\ st.peak_lead_gap \in Nat /\ still.peak_lead_gap \in Nat
    BY <1>b DEF Gaps, Cross!Size, CrossState
  <1>3. /\ next = count + (IF EndsLead(st, lead, gap) THEN 1 ELSE 0)
        /\ nextw = without + (IF EndsLead(still, lead, gap) THEN 1 ELSE 0)
    BY <1>c DEF CountAfter, EndsLead
  <1>4. next \in Nat /\ nextw \in Nat /\ next <= count + 1 /\ without <= nextw
    BY <1>3
  <1>5. count <= without + 2 * d
    BY DEF Excuses
  <1>6. next + 1 <= without + 2 * (d + 1)
    BY <1>4, <1>5
  <1>7. Excuses(new, still, next, without, d + 1, gap)
    BY <1>4, <1>6 DEF Excuses
  <1>8. Excuses(new, calmer, next, nextw, d, gap)
    <2>1. CASE side = "NONE"
      <3>1. next = count /\ nextw = without
        BY <1>b, <1>3, <2>1 DEF EndsLead
      <3>2. CASE new.current_side = "NONE"
        BY <1>5, <3>1, <3>2 DEF Excuses
      <3>3. CASE new.current_side # "NONE"
        <4>1. new = st
          BY <1>1, <2>1, <3>3 DEF Observes
        <4>2. calmer.current_side = still.current_side
              /\ (still.current_side # "NONE" => calmer.peak_lead_gap = still.peak_lead_gap)
          BY <1>1, <2>1 DEF Observes
        <4> QED BY <3>1, <3>3, <4>1, <4>2 DEF Excuses
      <3> QED BY <3>2, <3>3
    <2>2. CASE side # "NONE"
      <3>1. /\ new.current_side = side /\ calmer.current_side = side
            /\ new.peak_lead_gap = IF st.armed /\ st.current_side = side /\ st.peak_lead_gap >= size
                                   THEN st.peak_lead_gap ELSE size
            /\ calmer.peak_lead_gap =
                 IF still.armed /\ still.current_side = side /\ still.peak_lead_gap >= size
                 THEN still.peak_lead_gap ELSE size
        BY <1>1, <2>2 DEF Observes
      <3>2. calmer.peak_lead_gap \in Nat /\ calmer.peak_lead_gap >= size
        BY <1>2, <3>1
      <3>3. CASE ~EndsLead(st, lead, gap)
        <4>1. next = count
          BY <1>3, <3>3
        <4>2. ASSUME new.peak_lead_gap >= gap, ~(calmer.peak_lead_gap >= gap)
              PROVE  count + 1 <= without + 2 * d
          <5>1. ~(size >= gap)
            BY <1>2, <3>2, <4>2
          <5>2. st.current_side = side /\ st.peak_lead_gap >= gap
            BY <3>1, <4>2, <5>1
          <5>3. ~(still.current_side = side /\ still.peak_lead_gap >= gap)
            <6>1. SUFFICES ASSUME still.current_side = side, still.peak_lead_gap >= gap
                           PROVE  FALSE
              OBVIOUS
            <6>2. still.armed
              BY <2>2, <6>1
            <6>3. still.peak_lead_gap >= size
              BY <1>2, <5>1, <6>1
            <6> QED BY <3>1, <4>2, <6>1, <6>2, <6>3
          <5> QED BY <2>2, <5>2, <5>3 DEF Excuses
        <4>3. count <= nextw + 2 * d
              /\ (count + 1 <= without + 2 * d => count + 1 <= nextw + 2 * d)
          BY <1>4, <1>5
        <4> QED BY <3>1, <4>1, <4>2, <4>3 DEF Excuses
      <3>4. CASE EndsLead(st, lead, gap)
        <4>1. /\ st.current_side # "NONE" /\ st.current_side # side
              /\ st.peak_lead_gap >= gap /\ next = count + 1
          BY <1>b, <1>3, <3>4 DEF EndsLead
        <4>2. count + 1 <= nextw + 2 * d
          <5>1. CASE still.current_side = st.current_side /\ still.peak_lead_gap >= gap
            <6>1. still.armed
              BY <4>1, <5>1
            <6>2. EndsLead(still, lead, gap)
              BY <1>b, <2>2, <4>1, <5>1, <6>1 DEF EndsLead
            <6>3. nextw = without + 1
              BY <1>3, <6>2
            <6> QED BY <1>5, <6>3
          <5>2. CASE ~(still.current_side = st.current_side /\ still.peak_lead_gap >= gap)
            <6>1. count + 1 <= without + 2 * d
              BY <4>1, <5>2 DEF Excuses
            <6> QED BY <1>4, <6>1
          <5> QED BY <5>1, <5>2
        <4>3. new.peak_lead_gap = size
          BY <3>1, <4>1
        <4>4. new.peak_lead_gap >= gap => calmer.peak_lead_gap >= gap
          BY <1>2, <3>2, <4>3
        <4> QED BY <3>1, <4>1, <4>2, <4>4 DEF Excuses
      <3> QED BY <3>3, <3>4
    <2> QED BY <2>1, <2>2
  <1> QED BY <1>a, <1>c, <1>7, <1>8

\* A tick seen before changes nothing.
Known(st, lead) ==
  Cross!LeadSide(lead) # "NONE" =>
    st.current_side = Cross!LeadSide(lead) /\ st.peak_lead_gap >= Cross!Size(lead)

LEMMA SeenBefore ==
  ASSUME NEW st \in CrossState, st.armed, NEW lead \in Gaps, Known(st, lead)
  PROVE  Cross!Observe(st, lead) = st
  <1>1. CASE Cross!LeadSide(lead) = "NONE"
    BY <1>1 DEF Cross!Observe
  <1>2. CASE Cross!LeadSide(lead) # "NONE"
    <2>1. st.current_side = Cross!LeadSide(lead) /\ st.peak_lead_gap >= Cross!Size(lead)
      BY <1>2 DEF Known
    <2>2. Cross!Observe(st, lead) = [st EXCEPT !.peak_lead_gap = st.peak_lead_gap]
      BY <1>2, <2>1 DEF Cross!Observe
    <2> QED BY <2>2 DEF CrossState
  <1> QED BY <1>1, <1>2

LEMMA NowKnown ==
  ASSUME NEW st \in CrossState, NEW lead \in Gaps
  PROVE  Known(Cross!Observe(st, lead), lead)
  <1>1. PICK new, side, size : /\ new = Cross!Observe(st, lead)
                               /\ side = Cross!LeadSide(lead) /\ size = Cross!Size(lead)
    OBVIOUS
  <1>2. Observes(st, lead, new, side, size)
    BY <1>1, Observed
  <1>3. size \in Nat
    BY <1>1 DEF Gaps, Cross!Size
  <1>4. size >= size
    BY <1>3
  <1> QED BY <1>1, <1>2, <1>4 DEF Known, Observes

\* The invariant in these terms.
OwnAt(b) == [t \in Cross!Tokens |-> Cross!Own(t, b[t])]
Ones     == [token \in Cross!Tokens |-> 1]
CalmParts(st, s, m) ==
  /\ st.current_side # "NONE" => st.peak_lead_gap > 0
  /\ Counted(s, m, st, st.cross_count, 1)
  /\ Counted(s, m, st, st.significant_cross_count, SignificantGap)
Pair(st, still, d) ==
  /\ still.armed => st.armed
  /\ Excuses(st, still, st.cross_count, still.cross_count, d, 1)
  /\ Excuses(st, still, st.significant_cross_count, still.significant_cross_count, d,
             SignificantGap)
CourseParts ==
  /\ Cross!Together(base)
  /\ IF calm.armed THEN Known(calm, Cross!LeadOf(OwnAt(base)))
                   ELSE calm = Cross!NoState /\ base = Ones
  /\ CalmParts(calm, Cross!Course, Cross!Reached)
  /\ Pair(state, calm, disturbed)

LEMMA CourseKnown == Cross!CourseInv <=> CourseParts
  <1>1. ASSUME NEW gap, NEW count
        PROVE  Cross!NotAhead(count, gap) <=>
                 Counted(Cross!Course, Cross!Reached, calm, count, gap)
    <2>1. Cross!TurnsBy(gap) = UpTo(Cross!Course, gap, Cross!Reached)
      BY SameCardinality DEF Cross!TurnsBy, UpTo
    <2> QED BY <2>1 DEF Cross!NotAhead, Counted
  <1>2. ASSUME NEW gap, NEW count, NEW without
        PROVE  Cross!Explained(count, without, gap) <=>
                 Excuses(state, calm, count, without, disturbed, gap)
    BY DEF Cross!Explained, Excuses
  <1>3. Cross!LastKnown <=> IF calm.armed THEN Known(calm, Cross!LeadOf(OwnAt(base)))
                            ELSE calm = Cross!NoState /\ base = Ones
    BY DEF Cross!LastKnown, Known, OwnAt, Ones
  <1> QED BY <1>1, <1>2, <1>3 DEF Cross!CourseInv, CourseParts, CalmParts, Pair

\* Where the newer of the two books is.
Newer(b) == IF b["UP"] >= b["DOWN"] THEN b["UP"] ELSE b["DOWN"]

LEMMA NewerOf ==
  ASSUME NEW n \in Nat, NEW b \in [Cross!Tokens -> 1 .. n]
  PROVE  /\ Newer(b) \in 1 .. n /\ Newer(b) \in Nat
         /\ \A t \in Cross!Tokens : b[t] \in 1 .. n /\ b[t] <= Newer(b)
         /\ \E t \in Cross!Tokens : Newer(b) = b[t]
  <1>a. PICK u, d : u = b["UP"] /\ d = b["DOWN"]
    OBVIOUS
  <1>1. u \in 1 .. n /\ d \in 1 .. n
    BY <1>a DEF Cross!Tokens
  <1>2. Newer(b) = IF u >= d THEN u ELSE d
    BY <1>a DEF Newer
  <1>3. Newer(b) \in {u, d} /\ u <= Newer(b) /\ d <= Newer(b) /\ Newer(b) \in Nat
    BY <1>1, <1>2
  <1> QED BY <1>a, <1>1, <1>3 DEF Cross!Tokens

\* A lead that is known keeps its size.
LEMMA PeakStays ==
  ASSUME NEW st \in CrossState, NEW lead \in Gaps,
         st.current_side # "NONE" => st.peak_lead_gap > 0
  PROVE  LET new == Cross!Observe(st, lead) IN
         new.current_side # "NONE" => new.peak_lead_gap > 0
  <1>1. PICK new, side, size : /\ new = Cross!Observe(st, lead)
                               /\ side = Cross!LeadSide(lead) /\ size = Cross!Size(lead)
    OBVIOUS
  <1>2. Observes(st, lead, new, side, size)
    BY <1>1, Observed
  <1>3. size \in Nat /\ (side # "NONE" => size > 0) /\ st.peak_lead_gap \in Nat
    BY <1>1 DEF Cross!LeadSide, Cross!Size, Gaps, CrossState
  <1>4. new.current_side # "NONE" => new.peak_lead_gap > 0
    BY <1>2, <1>3 DEF Observes
  <1> QED BY <1>1, <1>4

\* What calm knows after an undisturbed tick, of the books b and the lead.
LEMMA CalmTick ==
  ASSUME path \in Seq(Quotes), NEW a \in [Cross!Tokens -> 1 .. Len(path)],
         NEW b \in [Cross!Tokens -> 1 .. Len(path)], NEW st \in CrossState,
         Cross!Together(a), Cross!Together(b), \A t \in Cross!Tokens : b[t] >= a[t],
         NEW q, \A t \in Cross!Tokens : q[t] = Cross!Own(t, b[t]),
         NEW lead \in Gaps, lead = Cross!LeadOf(q), NEW s, s = LeadsOf(path),
         IF st.armed THEN Known(st, Cross!LeadOf(OwnAt(a))) ELSE st = Cross!NoState /\ a = Ones,
         CalmParts(st, s, Newer(a))
  PROVE  CalmParts(Cross!Observe(st, lead), s, Newer(b))
  <1>a. PICK n, m, k : n = Len(path) /\ m = Newer(a) /\ k = Newer(b)
    OBVIOUS
  <1>b. PICK new : new = Cross!Observe(st, lead)
    OBVIOUS
  <1>1. /\ n \in Nat /\ Len(s) = n /\ \A i \in 1 .. n : s[i] \in Int
    BY <1>a, CourseOfPath
  <1>2. /\ m \in 1 .. n /\ m \in Nat /\ k \in 1 .. n /\ k \in Nat
        /\ \A t \in Cross!Tokens : b[t] \in 1 .. n /\ b[t] <= k
        /\ \E t \in Cross!Tokens : m = a[t]
    BY <1>a, <1>1, NewerOf
  <1>3. /\ st.current_side # "NONE" => st.peak_lead_gap > 0
        /\ Counted(s, m, st, st.cross_count, 1)
        /\ Counted(s, m, st, st.significant_cross_count, SignificantGap)
    BY <1>a DEF CalmParts
  <1>4. CASE b = a /\ st.armed
    <2>1. lead = Cross!LeadOf(OwnAt(a))
      BY <1>4 DEF Cross!LeadOf, OwnAt, Cross!Tokens
    <2>2. new = st
      BY <1>b, <1>4, <2>1, SeenBefore
    <2> QED BY <1>b, <1>4, <2>2
  <1>5. CASE ~(b = a /\ st.armed)
    <2>1. \A t \in Cross!Tokens : m <= b[t]
      <3>1. CASE b # a
        BY <1>1, <1>2, <1>a, <3>1, BooksMoveOn
      <3>2. CASE b = a
        <4>1. m = 1
          BY <1>2, <1>5, <3>2 DEF Ones
        <4> QED BY <1>2, <4>1
      <3> QED BY <3>1, <3>2
    <2>2. m <= k /\ k <= Len(s) /\ Len(s) \in Nat
      <3>1. b["UP"] \in 1 .. n /\ b["UP"] <= k /\ m <= b["UP"]
        BY <1>2, <2>1 DEF Cross!Tokens
      <3>2. PICK up : up = b["UP"]
        OBVIOUS
      <3>3. up \in 1 .. n /\ up <= k /\ m <= up
        BY <3>1, <3>2, Zenon
      <3> QED BY <1>1, <1>2, <3>3
    <2>3. /\ st.cross_count \in Nat /\ st.significant_cross_count \in Nat
          /\ SignificantGap \in Nat \ {0} /\ 1 \in Nat \ {0}
          /\ st.armed \/ st = Cross!NoState
      BY CrossConstants DEF CrossState
    <2>4. Observes(st, lead, new, Cross!LeadSide(lead), Cross!Size(lead))
      BY <1>b, Observed
    <2>5. CASE lead = 0
      <3>1. Cross!LeadSide(lead) = "NONE"
        BY <2>5 DEF Cross!LeadSide
      <3>2. CASE st.armed
        <4>1. new = st
          BY <2>4, <3>1, <3>2 DEF Observes
        <4>2. /\ Counted(s, k, st, st.cross_count, 1)
              /\ Counted(s, k, st, st.significant_cross_count, SignificantGap)
          BY <1>2, <1>3, <2>2, <2>3, CourseGoesOn
        <4> QED BY <1>a, <1>b, <1>3, <4>1, <4>2 DEF CalmParts
      <3>3. CASE ~st.armed
        <4>1. new.cross_count = 0 /\ new.significant_cross_count = 0 /\ new.current_side = "NONE"
          BY <2>4, <3>1, <3>3 DEF Observes
        <4>2. ASSUME NEW gap PROVE 0 <= UpTo(s, gap, k)
          <5>1. k <= k
            BY <1>2
          <5>2. UpTo(s, gap, k) \in Nat
            BY <1>2, <5>1, TurnsCounted
          <5> QED BY <5>2
        <4> QED BY <1>a, <1>b, <4>1, <4>2 DEF CalmParts, Counted
      <3> QED BY <3>2, <3>3
    <2>6. CASE lead # 0
      <3>1. PICK t \in Cross!Tokens : /\ Cross!Favours(Cross!LeadSide(lead), s[b[t]])
                                     /\ Cross!Size(s[b[t]]) >= Cross!Size(lead)
        <4>1. lead \in Int
          BY DEF Gaps
        <4> QED BY <2>6, <4>1, OwnLead
      <3>2. PICK p : p = b[t]
        OBVIOUS
      <3>3. p \in Nat \ {0} /\ p <= k /\ m <= p
        BY <1>1, <1>2, <2>1, <3>2
      <3>4. Cross!Favours(Cross!LeadSide(lead), s[p]) /\ Cross!Size(s[p]) >= Cross!Size(lead)
        BY <3>1, <3>2
      <3>5. \A i \in 1 .. Len(s) : s[i] \in Int
        BY <1>1
      <3>6. new.cross_count = IF st.armed
              THEN st.cross_count + (IF EndsLead(st, lead, 1) THEN 1 ELSE 0) ELSE 0
        <4>1. EndsLead(st, lead, 1) <=> EndsLead(st, lead, 0)
          BY <1>3, AnyLead
        <4> QED BY <2>4, <4>1 DEF Observes
      <3>7. new.significant_cross_count = IF st.armed
              THEN st.significant_cross_count
                     + (IF EndsLead(st, lead, SignificantGap) THEN 1 ELSE 0)
              ELSE 0
        BY <2>4 DEF Observes
      <3>8. Counted(s, k, Cross!Observe(st, lead), new.cross_count, 1)
        BY <1>2, <1>3, <2>2, <2>3, <2>6, <3>3, <3>4, <3>5, <3>6, CourseCounted
      <3>9. Counted(s, k, Cross!Observe(st, lead), new.significant_cross_count, SignificantGap)
        BY <1>2, <1>3, <2>2, <2>3, <2>6, <3>3, <3>4, <3>5, <3>7, CourseCounted
      <3>10. new.current_side # "NONE" => new.peak_lead_gap > 0
        BY <1>b, <1>3, PeakStays
      <3> QED BY <1>a, <1>b, <3>8, <3>9, <3>10 DEF CalmParts
    <2> QED BY <2>5, <2>6
  <1> QED BY <1>4, <1>5

\* What a tick makes of the two states, disturbed or not.
LEMMA PairTick ==
  ASSUME NEW st \in CrossState, NEW still \in CrossState, NEW lead \in Gaps, NEW d \in Nat,
         st.armed \/ st = Cross!NoState, still.armed \/ still = Cross!NoState,
         st.current_side # "NONE" => st.peak_lead_gap > 0,
         still.current_side # "NONE" => still.peak_lead_gap > 0,
         Pair(st, still, d)
  PROVE  /\ Pair(Cross!Observe(st, lead), still, d + 1)
         /\ Pair(Cross!Observe(st, lead), Cross!Observe(still, lead), d)
  <1>a. PICK new, calmer : new = Cross!Observe(st, lead) /\ calmer = Cross!Observe(still, lead)
    OBVIOUS
  <1>1. /\ ~st.armed => st.cross_count = 0 /\ st.significant_cross_count = 0
                        /\ st.current_side = "NONE"
        /\ ~still.armed => still.cross_count = 0 /\ still.significant_cross_count = 0
                           /\ still.current_side = "NONE"
    BY DEF Cross!NoState
  <1>2. /\ st.cross_count \in Nat /\ st.significant_cross_count \in Nat
        /\ still.cross_count \in Nat /\ still.significant_cross_count \in Nat
        /\ SignificantGap \in Nat /\ 1 \in Nat
    BY CrossConstants DEF CrossState
  <1>3. /\ still.armed => st.armed
        /\ Excuses(st, still, st.cross_count, still.cross_count, d, 1)
        /\ Excuses(st, still, st.significant_cross_count, still.significant_cross_count, d,
                  SignificantGap)
    BY DEF Pair
  <1>4. ASSUME NEW x \in CrossState, NEW y, y = Cross!Observe(x, lead),
               x.current_side # "NONE" => x.peak_lead_gap > 0
        PROVE  /\ y.armed
               /\ y.cross_count = CountAfter(x, lead, x.cross_count, 1)
               /\ y.significant_cross_count =
                    CountAfter(x, lead, x.significant_cross_count, SignificantGap)
    <2>1. Observes(x, lead, y, Cross!LeadSide(lead), Cross!Size(lead))
      BY <1>4, Observed
    <2>2. EndsLead(x, lead, 1) <=> EndsLead(x, lead, 0)
      BY <1>4, AnyLead
    <2> QED BY <2>1, <2>2 DEF Observes, CountAfter
  <1>5. /\ new.armed /\ calmer.armed
        /\ new.cross_count = CountAfter(st, lead, st.cross_count, 1)
        /\ new.significant_cross_count =
             CountAfter(st, lead, st.significant_cross_count, SignificantGap)
        /\ calmer.cross_count = CountAfter(still, lead, still.cross_count, 1)
        /\ calmer.significant_cross_count =
             CountAfter(still, lead, still.significant_cross_count, SignificantGap)
    BY <1>a, <1>4
  <1>6. /\ Excuses(new, still, new.cross_count, still.cross_count, d + 1, 1)
        /\ Excuses(new, calmer, new.cross_count, calmer.cross_count, d, 1)
    BY <1>a, <1>1, <1>2, <1>3, <1>5, TickExplained
  <1>7. /\ Excuses(new, still, new.significant_cross_count, still.significant_cross_count, d + 1,
                  SignificantGap)
        /\ Excuses(new, calmer, new.significant_cross_count, calmer.significant_cross_count, d,
                  SignificantGap)
    BY <1>a, <1>1, <1>2, <1>3, <1>5, TickExplained
  <1> QED BY <1>a, <1>5, <1>6, <1>7 DEF Pair

\* A tick of any books and quotes, observed or not.
LEMMA CourseTick ==
  ASSUME TrackerParts, CourseParts,
         NEW b \in [Cross!Tokens -> 1 .. Len(path)], NEW q \in [Cross!Tokens -> QuoteType],
         Cross!TickWith(b, q)
  PROVE  CourseParts'
  <1>a. PICK s : s = Cross!Course
    OBVIOUS
  <1>b. PICK lead : lead = Cross!LeadOf(q)
    OBVIOUS
  <1>1. /\ path \in Seq(Quotes) /\ base \in [Cross!Tokens -> 1 .. Len(path)]
        /\ state \in CrossState /\ calm \in CrossState /\ disturbed \in Nat
        /\ state.armed \/ state = Cross!NoState
        /\ state.current_side # "NONE" => state.peak_lead_gap > 0
    BY DEF TrackerParts, Tracked, Knows
  <1>2. s = LeadsOf(path) /\ lead \in Gaps
    BY <1>a, <1>b, LeadRange DEF Cross!Course, LeadsOf
  <1>3. /\ Cross!Together(base)
        /\ IF calm.armed THEN Known(calm, Cross!LeadOf(OwnAt(base)))
                         ELSE calm = Cross!NoState /\ base = Ones
        /\ CalmParts(calm, s, Newer(base))
        /\ Pair(state, calm, disturbed)
    BY <1>a DEF CourseParts, Cross!Reached, Newer
  <1>4. /\ Pair(Cross!Observe(state, lead), calm, disturbed + 1)
        /\ Pair(Cross!Observe(state, lead), Cross!Observe(calm, lead), disturbed)
    <2>1. /\ calm.armed \/ calm = Cross!NoState
          /\ calm.current_side # "NONE" => calm.peak_lead_gap > 0
      BY <1>3 DEF CalmParts
    <2> QED BY <1>1, <1>2, <1>3, <2>1, PairTick
  <1>5. path' = path /\ Cross!Course' = s
    BY <1>a DEF Cross!TickWith, Cross!Course
  <1>6. ASSUME NEW c, base' = c
        PROVE  /\ Cross!Together(base)' <=> Cross!Together(c)
               /\ Cross!Reached' = Newer(c) /\ OwnAt(base)' = OwnAt(c)
    BY <1>5, <1>6 DEF Cross!Together, Cross!Reached, Newer, OwnAt, Cross!Own
  <1>7. CASE base' = base /\ calm' = calm /\ Pair(state', calm, disturbed')
    <2>1. /\ Cross!Together(base)' /\ Cross!Reached' = Newer(base)
          /\ OwnAt(base)' = OwnAt(base)
      BY <1>3, <1>6, <1>7
    <2>2. Cross!LeadOf(OwnAt(base))' = Cross!LeadOf(OwnAt(base))
      BY <2>1 DEF Cross!LeadOf
    <2> QED BY <1>3, <1>5, <1>7, <2>1, <2>2 DEF CourseParts, Known
  <1>8. CASE ~due
    <2>1. UNCHANGED <<state, calm, base, disturbed>>
      BY <1>8 DEF Cross!TickWith
    <2> QED BY <1>3, <1>7, <2>1
  <1>9. CASE due /\ ~Cross!Undisturbed(b, q)
    <2>1. /\ state' = Cross!Observe(state, lead) /\ disturbed' = disturbed + 1
          /\ calm' = calm /\ base' = base
      BY <1>b, <1>9 DEF Cross!TickWith
    <2> QED BY <1>4, <1>7, <2>1
  <1>10. CASE due /\ Cross!Undisturbed(b, q)
    <2>1. /\ state' = Cross!Observe(state, lead) /\ disturbed' = disturbed
          /\ calm' = Cross!Observe(calm, lead) /\ base' = b
      BY <1>b, <1>10 DEF Cross!TickWith
    <2>2. /\ \A t \in Cross!Tokens : q[t] = Cross!Own(t, b[t])
          /\ \A t \in Cross!Tokens : b[t] >= base[t]
          /\ Cross!Together(b)
      BY <1>10 DEF Cross!Undisturbed
    <2>3. CalmParts(calm', s, Newer(b))
      BY <1>b, <1>1, <1>2, <1>3, <2>1, <2>2, CalmTick
    <2>4. calm'.armed
      BY <1>1, <1>2, <2>1, Observed DEF Observes
    <2>5. Known(calm', lead)
      BY <1>1, <1>2, <2>1, NowKnown
    <2>6. Cross!Together(base)' /\ Cross!Reached' = Newer(b) /\ OwnAt(base)' = OwnAt(b)
      BY <1>6, <2>1, <2>2
    <2>7. Cross!LeadOf(OwnAt(base))' = lead
      BY <1>b, <2>2, <2>6 DEF Cross!LeadOf, OwnAt, Cross!Tokens
    <2>8. Pair(state', calm', disturbed')
      BY <1>4, <2>1
    <2> QED BY <1>5, <2>3, <2>4, <2>5, <2>6, <2>7, <2>8 DEF CourseParts, Known
  <1> QED BY <1>8, <1>9, <1>10

\* The market moves: the course up to the books stays as it was.
LEMMA CourseMoves ==
  ASSUME NEW s \in Seq(Int), NEW e \in Int, NEW m \in Nat, m <= Len(s), NEW gap,
         NEW st, NEW count, Counted(s, m, st, count, gap)
  PROVE  Counted(Append(s, e), m, st, count, gap)
  <1>a. PICK t : t = Append(s, e)
    OBVIOUS
  <1>1. Len(s) \in Nat /\ \A i \in 1 .. Len(s) : t[i] = s[i]
    BY <1>a, AppendProperties, LenProperties
  <1>2. \A i \in 1 .. m : t[i] = s[i]
    BY <1>1
  <1>3. \A side : Cross!LeadsAt(t, m, side, gap) <=> Cross!LeadsAt(s, m, side, gap)
    BY <1>2, LeadsOfPrefix
  <1>4. Cross!Turns(t, gap) \cap (1 .. m) = Cross!Turns(s, gap) \cap (1 .. m)
    <2>1. Cross!Turns(t, gap) \in {Cross!Turns(s, gap), Cross!Turns(s, gap) \cup {Len(s) + 1}}
      BY <1>a, TurnsAppend
    <2>2. Len(s) + 1 \notin 1 .. m
      BY <1>1
    <2> QED BY <2>1, <2>2
  <1> QED BY <1>a, <1>3, <1>4 DEF Counted, UpTo

LEMMA NothingCounted ==
  ASSUME NEW s, NEW m \in Nat, NEW d \in Nat
  PROVE  /\ CalmParts(Cross!NoState, s, m)
         /\ Pair(Cross!NoState, Cross!NoState, d)
  <1>1. /\ Cross!NoState.cross_count = 0 /\ Cross!NoState.significant_cross_count = 0
        /\ Cross!NoState.current_side = "NONE"
    BY DEF Cross!NoState
  <1>2. ASSUME NEW gap PROVE 0 <= UpTo(s, gap, m)
    <2>1. m <= m
      OBVIOUS
    <2>2. UpTo(s, gap, m) \in Nat
      BY <2>1, TurnsCounted
    <2> QED BY <2>2
  <1>3. CalmParts(Cross!NoState, s, m)
    BY <1>1, <1>2 DEF CalmParts, Counted
  <1>4. Pair(Cross!NoState, Cross!NoState, d)
    BY <1>1 DEF Pair, Excuses
  <1> QED BY <1>3, <1>4

LEMMA TogetherAtFirst == Cross!Together(Ones) /\ Newer(Ones) = 1
  BY DEF Cross!Together, Ones, Newer, Cross!Tokens

LEMMA CourseStart == Cross!Init => CourseParts
  <1> SUFFICES ASSUME Cross!Init PROVE CourseParts
    OBVIOUS
  <1>1. state = Cross!NoState /\ calm = Cross!NoState /\ base = Ones /\ disturbed = 0
    BY DEF Cross!Init, Ones
  <1>2. ~Cross!NoState.armed
    BY DEF Cross!NoState
  <1>3. Cross!Together(base) /\ Cross!Reached = 1
    BY <1>1, TogetherAtFirst DEF Cross!Reached, Newer
  <1>4. CalmParts(calm, Cross!Course, 1) /\ Pair(state, calm, disturbed)
    BY <1>1, NothingCounted
  <1> QED BY <1>1, <1>2, <1>3, <1>4 DEF CourseParts

\* Every step of the tracker keeps its counts within the course.
LEMMA CourseStep ==
  ASSUME TrackerParts, CourseParts, Cross!Next \/ UNCHANGED crossVars
  PROVE  CourseParts'
  <1>a. PICK n : n = Len(path)
    OBVIOUS
  <1>1. /\ path \in Seq(Quotes) /\ n \in Nat /\ base \in [Cross!Tokens -> 1 .. n]
        /\ disturbed \in Nat
    BY <1>a, LenProperties DEF TrackerParts
  <1>2. /\ Cross!Together(base)
        /\ IF calm.armed THEN Known(calm, Cross!LeadOf(OwnAt(base)))
                         ELSE calm = Cross!NoState /\ base = Ones
        /\ CalmParts(calm, Cross!Course, Cross!Reached)
        /\ Pair(state, calm, disturbed)
    BY DEF CourseParts
  <1>3. CASE Cross!Move
    <2>1. PICK q \in Quotes : path' = Append(path, q)
      BY <1>3 DEF Cross!Move
    <2>2. base' = base /\ state' = state /\ calm' = calm /\ disturbed' = disturbed
      BY <1>3 DEF Cross!Move
    <2>3. PICK s, t : s = Cross!Course /\ t = Cross!Course'
      OBVIOUS
    <2>4. s = LeadsOf(path) /\ t = LeadsOf(path')
      BY <2>3 DEF Cross!Course, LeadsOf
    <2>5. /\ s \in Seq(Int) /\ Len(s) = n
          /\ \A i \in 1 .. n : s[i] = path[i].bid + path[i].ask - 100
      BY <1>a, <1>1, <2>4, CourseOfPath
    <2>6. /\ path' \in Seq(Quotes) /\ Len(path') = n + 1 /\ path'[n + 1] = q
          /\ \A i \in 1 .. n : path'[i] = path[i]
      BY <1>a, <1>1, <2>1, AppendProperties
    <2>7. /\ t \in Seq(Int) /\ Len(t) = n + 1
          /\ \A i \in 1 .. n + 1 : t[i] = path'[i].bid + path'[i].ask - 100 /\ t[i] \in Int
      BY <2>4, <2>6, CourseOfPath
    <2>8. PICK e : e = t[n + 1]
      OBVIOUS
    <2>9. e \in Int
      BY <1>1, <2>7, <2>8
    <2>10. t = Append(s, e)
      <3>1. /\ Append(s, e) \in Seq(Int) /\ Len(Append(s, e)) = n + 1 /\ Append(s, e)[n + 1] = e
            /\ \A i \in 1 .. n : Append(s, e)[i] = s[i]
        BY <2>5, <2>9, AppendProperties
      <3>2. ASSUME NEW i \in 1 .. n + 1 PROVE t[i] = Append(s, e)[i]
        <4>1. CASE i = n + 1
          BY <2>8, <3>1, <4>1
        <4>2. CASE i # n + 1
          <5>1. i \in 1 .. n
            BY <1>1, <4>2
          <5>2. t[i] = path'[i].bid + path'[i].ask - 100 /\ s[i] = path[i].bid + path[i].ask - 100
            BY <2>5, <2>7, <5>1, Zenon
          <5>3. path'[i] = path[i] /\ Append(s, e)[i] = s[i]
            BY <2>6, <3>1, <5>1, Zenon
          <5> QED BY <5>2, <5>3, Zenon
        <4> QED BY <4>1, <4>2
      <3> QED BY <2>7, <3>1, <3>2, SeqEqual
    <2>11. PICK m : m = Cross!Reached
      OBVIOUS
    <2>12. m \in Nat /\ m <= Len(s) /\ Cross!Reached' = m
      <3>1. Cross!Reached = Newer(base) /\ Cross!Reached' = Newer(base)
        BY <2>2 DEF Cross!Reached, Newer
      <3>2. Newer(base) \in 1 .. n
        BY <1>1, NewerOf
      <3> QED BY <1>1, <2>5, <2>11, <3>1, <3>2
    <2>13. CalmParts(calm, t, m)
      <3>1. /\ calm.current_side # "NONE" => calm.peak_lead_gap > 0
            /\ Counted(s, m, calm, calm.cross_count, 1)
            /\ Counted(s, m, calm, calm.significant_cross_count, SignificantGap)
        BY <1>2, <2>3, <2>11 DEF CalmParts
      <3>2. /\ Counted(t, m, calm, calm.cross_count, 1)
            /\ Counted(t, m, calm, calm.significant_cross_count, SignificantGap)
        BY <2>5, <2>9, <2>10, <2>12, <3>1, CourseMoves
      <3> QED BY <3>1, <3>2 DEF CalmParts
    <2>14. Cross!Together(base)'
      BY <1>2, <2>2 DEF Cross!Together
    <2>15. OwnAt(base)' = OwnAt(base)
      <3>1. \A x \in Cross!Tokens : path'[base[x]] = path[base[x]]
        BY <1>1, <2>6
      <3> QED BY <2>2, <3>1 DEF OwnAt, Cross!Own
    <2>16. Cross!LeadOf(OwnAt(base))' = Cross!LeadOf(OwnAt(base))
      BY <2>15 DEF Cross!LeadOf
    <2> QED BY <1>2, <2>2, <2>3, <2>11, <2>12, <2>13, <2>14, <2>16 DEF CourseParts, Known
  <1>4. ASSUME UNCHANGED <<path, state, calm, base, disturbed>> PROVE CourseParts'
    <2>1. /\ Cross!Course' = Cross!Course /\ Cross!Reached' = Cross!Reached
          /\ Cross!Together(base)' /\ OwnAt(base)' = OwnAt(base)
      BY <1>2, <1>4 DEF Cross!Course, Cross!Reached, Cross!Together, OwnAt, Cross!Own
    <2>2. Cross!LeadOf(OwnAt(base))' = Cross!LeadOf(OwnAt(base))
      BY <2>1 DEF Cross!LeadOf
    <2> QED BY <1>2, <1>4, <2>1, <2>2 DEF CourseParts, Known
  <1>5. CASE Cross!BecomeDue
    BY <1>4, <1>5 DEF Cross!BecomeDue
  <1>6. CASE Cross!RemoveWindow
    <2>1. /\ state' = Cross!NoState /\ calm' = Cross!NoState /\ base' = Ones /\ disturbed' = 0
      BY <1>6 DEF Cross!RemoveWindow, Ones
    <2>2. ~Cross!NoState.armed
      BY DEF Cross!NoState
    <2>3. Cross!Together(base)' /\ Cross!Reached' = 1
      <3>1. Cross!Together(Ones) /\ Newer(Ones) = 1
        BY TogetherAtFirst
      <3> QED BY <2>1, <3>1 DEF Cross!Together, Cross!Reached, Newer
    <2>4. CalmParts(calm', Cross!Course', 1) /\ Pair(state', calm', disturbed')
      BY <2>1, NothingCounted
    <2> QED BY <2>1, <2>2, <2>3, <2>4 DEF CourseParts
  <1>7. CASE Cross!BookMessage \/ Cross!PriceMessage \/ Cross!Reconnect
    <2>1. PICK b \in [Cross!Tokens -> 1 .. Len(path)], q \in [Cross!Tokens -> QuoteType] :
            Cross!TickWith(b, q)
      BY <1>7, TickOf
    <2> QED BY <2>1, CourseTick
  <1>8. CASE UNCHANGED crossVars
    BY <1>4, <1>8 DEF crossVars
  <1> QED BY <1>3, <1>5, <1>6, <1>7, <1>8 DEF Cross!Next

\* All turns counted are turns of the course, but for two a disturbed tick.
LEMMA CourseBounds ==
  ASSUME TrackerParts, CourseParts
  PROVE  Cross!CrossesExplained
  <1>a. PICK s, m : s = Cross!Course /\ m = Cross!Reached
    OBVIOUS
  <1>1. /\ path \in Seq(Quotes) /\ state \in CrossState /\ calm \in CrossState
        /\ Len(path) \in Nat /\ base \in [Cross!Tokens -> 1 .. Len(path)] /\ disturbed \in Nat
    BY LenProperties DEF TrackerParts, Tracked
  <1>2. s \in Seq(Int)
    BY <1>a, <1>1, CourseOfPath DEF Cross!Course, LeadsOf
  <1>3. m \in Nat
    BY <1>a, <1>1, NewerOf DEF Cross!Reached, Newer
  <1>4. ASSUME NEW gap, NEW count \in Nat, NEW without \in Nat,
               Counted(s, m, calm, without, gap),
               Excuses(state, calm, count, without, disturbed, gap)
        PROVE  count <= Cross!Cardinality(Cross!Turns(s, gap)) + 2 * disturbed
    <2>1. PICK low, all : low = UpTo(s, gap, m) /\ all = Cardinality(Cross!Turns(s, gap))
      OBVIOUS
    <2>2. IsFiniteSet(Cross!Turns(s, gap)) /\ all \in Nat
      BY <1>2, <2>1, TurnsAreFinite
    <2>3. low <= all
      BY <2>1, <2>2, FS_Subset DEF UpTo
    <2>4. m <= m
      BY <1>3
    <2>5. low \in Nat
      BY <1>3, <2>1, <2>4, TurnsCounted
    <2>6. without <= low
      BY <1>4, <2>1 DEF Counted
    <2>7. count <= without + 2 * disturbed
      BY <1>4 DEF Excuses
    <2>8. count <= all + 2 * disturbed
      BY <1>1, <2>2, <2>3, <2>5, <2>6, <2>7
    <2> QED BY <2>1, <2>8, SameCardinality
  <1>5. /\ state.cross_count \in Nat /\ state.significant_cross_count \in Nat
        /\ calm.cross_count \in Nat /\ calm.significant_cross_count \in Nat
    BY <1>1 DEF CrossState
  <1>6. /\ Counted(s, m, calm, calm.cross_count, 1)
        /\ Counted(s, m, calm, calm.significant_cross_count, SignificantGap)
        /\ Excuses(state, calm, state.cross_count, calm.cross_count, disturbed, 1)
        /\ Excuses(state, calm, state.significant_cross_count, calm.significant_cross_count,
                  disturbed, SignificantGap)
    BY <1>a DEF CourseParts, CalmParts, Pair
  <1>7. /\ state.cross_count <= Cross!Cardinality(Cross!Turns(s, 1)) + 2 * disturbed
        /\ state.significant_cross_count
             <= Cross!Cardinality(Cross!Turns(s, SignificantGap)) + 2 * disturbed
    BY <1>4, <1>5, <1>6
  <1> QED BY <1>a, <1>7 DEF Cross!CrossesExplained

-----------------------------------------------------------------------------
(* The tape of one token                                                   *)

LEMMA BookConstants ==
  /\ TradePrices \subseteq 1 .. 98 /\ TradeSizes \subseteq Nat
  /\ TapeWindow \in Nat \ {0} /\ MinUsd \in Nat /\ MaxClock \in Nat
  /\ \A bids \in BookBids, asks \in BookAsks : Book!Uncrossed(Book!FromBook(bids, asks))
  BY FeedsAssumption DEF Book!FeedAssumption, Book!BooksAssumption

\* prune stops before a print that is not outdated, and not earlier than it must.
LEMMA PruneStops ==
  ASSUME NEW tape, NEW now, pruned \in Nat, Len(tape) \in Nat, pruned < Len(tape),
         ~Book!Outdated(tape[Len(tape)], now)
  PROVE  /\ Book!Prune(tape, now) \in pruned .. Len(tape) - 1
         /\ \A i \in pruned + 1 .. Book!Prune(tape, now) : Book!Outdated(tape[i], now)
         /\ ~Book!Outdated(tape[Book!Prune(tape, now) + 1], now)
  <1> DEFINE Fresh == {k \in Nat : k > pruned /\ k <= Len(tape) /\ ~Book!Outdated(tape[k], now)}
             Stops(n) == /\ \A i \in pruned + 1 .. n : Book!Outdated(tape[i], now)
                         /\ n < Len(tape) => ~Book!Outdated(tape[n + 1], now)
  <1>1. Fresh \in SUBSET Nat /\ Len(tape) \in Fresh
    OBVIOUS
  <1>2. PICK first \in Fresh : \A k \in Fresh : first <= k
    <2> HIDE DEF Fresh
    <2> QED BY <1>1, LeastNumber
  <1>3. first \in Nat /\ first > pruned /\ first <= Len(tape) /\ ~Book!Outdated(tape[first], now)
    BY <1>2
  <1>4. ASSUME NEW i \in pruned + 1 .. first - 1 PROVE Book!Outdated(tape[i], now)
    <2>1. i \in Nat /\ i > pruned /\ i <= Len(tape) /\ i < first
      BY <1>3
    <2>2. i \notin Fresh
      <3> HIDE DEF Fresh
      <3> QED BY <1>2, <1>3, <2>1
    <2> QED BY <2>1, <2>2
  <1>5. first - 1 \in pruned .. Len(tape) /\ (first - 1) + 1 = first
    BY <1>3
  <1>6. Stops(first - 1)
    BY <1>3, <1>4, <1>5
  <1>7. PICK n : n = Book!Prune(tape, now)
    OBVIOUS
  <1>8. n \in pruned .. Len(tape) /\ Stops(n)
    <2>1. n = CHOOSE k \in pruned .. Len(tape) : Stops(k)
      BY <1>7 DEF Book!Prune
    <2>2. \E k \in pruned .. Len(tape) : Stops(k)
      BY <1>5, <1>6
    <2> HIDE DEF Stops
    <2> QED BY <2>1, <2>2
  <1>9. n # Len(tape)
    <2>1. SUFFICES ASSUME n = Len(tape) PROVE FALSE
      OBVIOUS
    <2>2. Len(tape) \in pruned + 1 .. n
      BY <2>1
    <2> QED BY <1>8, <2>2
  <1>10. n \in pruned .. Len(tape) - 1 /\ n < Len(tape)
    BY <1>8, <1>9
  <1> QED BY <1>7, <1>8, <1>10

\* The invariants without the definitions of the prints' ranges.
BookParts == Book!TapeInv /\ Book!SpreadStaysOpen

LEMMA TradeOpens ==
  ASSUME Book!Uncrossed(prices), NEW price \in TradePrices
  PROVE  Book!Uncrossed(Book!AtTrade(price))
  <1>a. PICK ask : ask = prices.ask
    OBVIOUS
  <1>b. PICK above : above = Book!AskAbove(price, ask)
    OBVIOUS
  <1>1. price \in 1 .. 98 /\ ask \in 0 .. 99
    BY <1>a, BookConstants DEF Book!Uncrossed
  <1>2. above \in 0 .. 99 /\ above > price /\ price \in 0 .. 98
    BY <1>b, <1>1 DEF Book!AskAbove
  <1>3. Book!AtTrade(price).bid = price /\ Book!AtTrade(price).ask = above
    BY <1>a, <1>b DEF Book!AtTrade
  <1> QED BY <1>2, <1>3 DEF Book!Uncrossed

LEMMA BookStart == Book!Init => BookParts
  <1> SUFFICES ASSUME Book!Init PROVE BookParts
    OBVIOUS
  <1>1. Book!Uncrossed(Book!NoPrices)
    BY DEF Book!Uncrossed, Book!NoPrices
  <1>2. Book!Uncrossed(prices)
    BY <1>1, BookConstants DEF Book!Init
  <1>3. clock = 0 /\ printed = <<>> /\ pruned = 0 /\ Len(printed) = 0
    BY DEF Book!Init
  <1>4. printed \in Seq(Book!TapePrint) /\ clock \in 0 .. MaxClock /\ pruned \in 0 .. Len(printed)
    BY <1>3, BookConstants
  <1>5. Book!TypeOK
    BY <1>2, <1>4 DEF Book!TypeOK, Book!Uncrossed
  <1>6. Book!PrintsInOrder /\ Book!PrunedOutdated /\ Book!TapeStaysShort
    BY <1>3 DEF Book!PrintsInOrder, Book!PrunedOutdated, Book!TapeStaysShort, Book!Kept
  <1> QED BY <1>2, <1>5, <1>6 DEF BookParts, Book!TapeInv, Book!SpreadStaysOpen

LEMMA StaysOutdated ==
  ASSUME NEW at \in Nat, NEW now \in Nat, NEW later \in Nat, NEW width \in Nat,
         at < now - width, later >= now
  PROVE  at < later - width
  OBVIOUS

\* The prints stay: only time, or quotes, change.
LEMMA TapeKept ==
  ASSUME BookParts, UNCHANGED <<printed, pruned>>, clock' \in Nat, clock' >= clock,
         clock' <= MaxClock, Book!Uncrossed(prices')
  PROVE  BookParts'
  <1>1. /\ clock \in 0 .. MaxClock /\ printed \in Seq(Book!TapePrint) /\ pruned \in 0 .. Len(printed)
    BY DEF BookParts, Book!TapeInv, Book!TypeOK
  <1>2. Len(printed) \in Nat
    BY <1>1, LenProperties
  <1>3. \A i \in 1 .. Len(printed) : printed[i].at \in Nat
    <2>1. \A i \in 1 .. Len(printed) : printed[i] \in Book!TapePrint
      BY <1>1, ElementOfSeq
    <2> QED BY <2>1 DEF Book!TapePrint
  <1>4. Book!TypeOK'
    BY <1>1, BookConstants DEF Book!TypeOK, Book!Uncrossed
  <1>5. Book!PrintsInOrder'
    <2>1. /\ \A i \in 1 .. Len(printed) : printed[i].at <= clock
          /\ \A i, j \in 1 .. Len(printed) : i <= j => printed[i].at <= printed[j].at
      BY DEF BookParts, Book!TapeInv, Book!PrintsInOrder
    <2>2. ASSUME NEW i \in 1 .. Len(printed) PROVE printed[i].at <= clock'
      <3>1. PICK at : at = printed[i].at
        OBVIOUS
      <3>2. at \in Nat /\ at <= clock
        BY <1>3, <2>1, <3>1
      <3>3. clock \in Nat
        BY <1>1, BookConstants
      <3> QED BY <3>1, <3>2, <3>3
    <2> QED BY <2>1, <2>2 DEF Book!PrintsInOrder
  <1>6. Book!PrunedOutdated'
    <2>1. ASSUME NEW i \in 1 .. pruned PROVE Book!Outdated(printed[i], clock')
      <3>1. i \in 1 .. Len(printed)
        BY <1>1, <1>2
      <3>2. PICK at : at = printed[i].at
        OBVIOUS
      <3>3. at \in Nat
        BY <1>3, <3>1, <3>2
      <3>4. at < clock - TapeWindow
        BY <3>2 DEF BookParts, Book!TapeInv, Book!PrunedOutdated, Book!Outdated
      <3>5. clock \in Nat
        BY <1>1, BookConstants
      <3>6. TapeWindow \in Nat /\ clock' \in Nat /\ clock' >= clock
        BY BookConstants
      <3>7. at < clock' - TapeWindow
        BY <3>3, <3>4, <3>5, <3>6, StaysOutdated
      <3> QED BY <3>2, <3>7 DEF Book!Outdated
    <2> QED BY <2>1 DEF Book!PrunedOutdated
  <1>7. Book!TapeStaysShort'
    BY DEF BookParts, Book!TapeInv, Book!TapeStaysShort, Book!Kept
  <1> QED BY <1>4, <1>5, <1>6, <1>7 DEF BookParts, Book!TapeInv, Book!SpreadStaysOpen

\* One more print, of now; the outdated ones in front go.
LEMMA PrintRecorded ==
  ASSUME BookParts, NEW usd \in Nat, printed' = Append(printed, [at |-> clock, usd |-> usd]),
         pruned' = Book!Prune(printed', clock), clock' = clock, Book!Uncrossed(prices')
  PROVE  BookParts'
  <1>a. PICK tape : tape = printed'
    OBVIOUS
  <1>b. PICK n : n = Len(printed)
    OBVIOUS
  <1>c. PICK front : front = Book!Prune(tape, clock)
    OBVIOUS
  <1>1. /\ clock \in 0 .. MaxClock /\ printed \in Seq(Book!TapePrint) /\ pruned \in 0 .. n
    BY <1>b DEF BookParts, Book!TapeInv, Book!TypeOK
  <1>2. n \in Nat /\ clock \in Nat
    BY <1>1, <1>b, LenProperties, BookConstants
  <1>3. [at |-> clock, usd |-> usd] \in Book!TapePrint
    BY <1>2 DEF Book!TapePrint
  <1>4. /\ tape \in Seq(Book!TapePrint) /\ Len(tape) = n + 1
        /\ \A i \in 1 .. n : tape[i] = printed[i]
        /\ tape[n + 1] = [at |-> clock, usd |-> usd]
    BY <1>a, <1>b, <1>1, <1>3, AppendProperties
  <1>5. tape[n + 1].at = clock /\ \A i \in 1 .. n + 1 : tape[i].at \in Nat
    <2>1. \A i \in 1 .. Len(tape) : tape[i] \in Book!TapePrint
      BY <1>4, ElementOfSeq
    <2> QED BY <1>4, <2>1 DEF Book!TapePrint
  <1>6. ~Book!Outdated(tape[n + 1], clock)
    <2>1. ~(clock < clock - TapeWindow)
      BY <1>2, BookConstants
    <2> QED BY <1>5, <2>1 DEF Book!Outdated
  <1>7. /\ front \in pruned .. n
        /\ \A i \in pruned + 1 .. front : Book!Outdated(tape[i], clock)
        /\ ~Book!Outdated(tape[front + 1], clock)
    <2>1. pruned \in Nat /\ Len(tape) \in Nat /\ pruned < Len(tape)
      BY <1>1, <1>2, <1>4
    <2>2. Len(tape) - 1 = n
      BY <1>2, <1>4
    <2> QED BY <1>c, <1>4, <1>6, <2>1, <2>2, PruneStops
  <1>8. pruned' = front
    BY <1>a, <1>c
  <1>9. Book!TypeOK'
    <2>1. front \in 0 .. Len(tape)
      BY <1>1, <1>2, <1>4, <1>7
    <2> QED BY <1>a, <1>1, <1>4, <1>8, <2>1 DEF Book!TypeOK, Book!Uncrossed
  <1>10. /\ \A i \in 1 .. n + 1 : tape[i].at <= clock
         /\ \A i, j \in 1 .. n + 1 : i <= j => tape[i].at <= tape[j].at
    <2>1. /\ \A i \in 1 .. n : printed[i].at <= clock
          /\ \A i, j \in 1 .. n : i <= j => printed[i].at <= printed[j].at
      BY <1>b DEF BookParts, Book!TapeInv, Book!PrintsInOrder
    <2>2. ASSUME NEW i \in 1 .. n + 1 PROVE tape[i].at <= clock
      <3>1. CASE i = n + 1
        BY <1>2, <1>5, <3>1
      <3>2. CASE i # n + 1
        <4>1. i \in 1 .. n
          BY <1>2, <3>2
        <4> QED BY <1>4, <2>1, <4>1
      <3> QED BY <3>1, <3>2
    <2>3. ASSUME NEW i \in 1 .. n + 1, NEW j \in 1 .. n + 1, i <= j
          PROVE  tape[i].at <= tape[j].at
      <3>1. CASE j = n + 1
        BY <1>5, <2>2, <3>1
      <3>2. CASE j # n + 1
        <4>1. i \in 1 .. n /\ j \in 1 .. n
          BY <1>2, <2>3, <3>2
        <4> QED BY <1>4, <2>1, <2>3, <4>1
      <3> QED BY <3>1, <3>2
    <2> QED BY <2>2, <2>3
  <1>11. Book!PrintsInOrder'
    BY <1>a, <1>4, <1>10 DEF Book!PrintsInOrder
  <1>12. Book!PrunedOutdated'
    <2>1. ASSUME NEW i \in 1 .. front PROVE Book!Outdated(tape[i], clock)
      <3>1. CASE i \in 1 .. pruned
        <4>1. i \in 1 .. n
          BY <1>1, <1>2, <3>1
        <4>2. Book!Outdated(printed[i], clock)
          BY <3>1 DEF BookParts, Book!TapeInv, Book!PrunedOutdated
        <4> QED BY <1>4, <4>1, <4>2
      <3>2. CASE i \notin 1 .. pruned
        <4>1. i \in pruned + 1 .. front
          BY <1>1, <1>2, <1>7, <3>2
        <4> QED BY <1>7, <4>1
      <3> QED BY <3>1, <3>2
    <2> QED BY <1>a, <1>8, <2>1 DEF Book!PrunedOutdated
  <1>13. Book!TapeStaysShort'
    <2>1. ASSUME NEW i \in front + 1 .. n + 1 PROVE tape[i].at >= clock - TapeWindow
      <3>1. front + 1 \in 1 .. n + 1 /\ i \in 1 .. n + 1 /\ front + 1 <= i
        BY <1>1, <1>2, <1>7
      <3>2. PICK at, least : at = tape[i].at /\ least = tape[front + 1].at
        OBVIOUS
      <3>3. at \in Nat /\ least \in Nat /\ least <= at
        BY <1>5, <1>10, <3>1, <3>2
      <3>4. ~(least < clock - TapeWindow)
        BY <1>7, <3>2 DEF Book!Outdated
      <3>5. at >= clock - TapeWindow
        BY <1>2, <3>3, <3>4, BookConstants
      <3> QED BY <3>2, <3>5
    <2> QED BY <1>a, <1>4, <1>5, <1>8, <2>1 DEF Book!TapeStaysShort, Book!Kept
  <1> QED BY <1>9, <1>11, <1>12, <1>13 DEF BookParts, Book!TapeInv, Book!SpreadStaysOpen

LEMMA BookStep ==
  ASSUME BookParts, Book!Next \/ UNCHANGED bookVars
  PROVE  BookParts'
  <1>1. clock \in 0 .. MaxClock /\ Book!Uncrossed(prices)
    BY DEF BookParts, Book!TapeInv, Book!TypeOK, Book!SpreadStaysOpen
  <1>2. clock \in Nat /\ clock <= MaxClock
    BY <1>1, BookConstants
  <1>3. CASE Book!PassTime
    <2>1. clock' \in Nat /\ clock' >= clock /\ clock' <= MaxClock
      BY <1>2, <1>3, BookConstants DEF Book!PassTime
    <2> QED BY <1>1, <1>3, <2>1, TapeKept DEF Book!PassTime
  <1>4. CASE Book!BookMessage
    <2>1. Book!Uncrossed(prices')
      BY <1>4, BookConstants DEF Book!BookMessage
    <2>2. UNCHANGED <<clock, printed, pruned>>
      BY <1>4 DEF Book!BookMessage
    <2>3. clock' \in Nat /\ clock' >= clock /\ clock' <= MaxClock
      BY <1>2, <2>2
    <2> QED BY <2>1, <2>2, <2>3, TapeKept
  <1>5. CASE Book!TradeMessage
    <2>1. PICK price \in TradePrices, worth \in TradeSizes :
            /\ prices' = Book!AtTrade(price) /\ clock' = clock
            /\ Book!RecordBuy(Book!TradeUsd(worth)) \/ UNCHANGED <<printed, pruned>>
      BY <1>5 DEF Book!TradeMessage
    <2>2. Book!Uncrossed(prices')
      BY <1>1, <2>1, TradeOpens
    <2>3. Book!TradeUsd(worth) \in Nat
      BY BookConstants DEF Book!TradeUsd, Book!Larger
    <2>4. clock' \in Nat /\ clock' >= clock /\ clock' <= MaxClock
      BY <1>2, <2>1
    <2>5. CASE UNCHANGED <<printed, pruned>>
      BY <2>2, <2>4, <2>5, TapeKept
    <2>6. CASE ~UNCHANGED <<printed, pruned>>
      <3>1. /\ printed' = Append(printed, [at |-> clock, usd |-> Book!TradeUsd(worth)])
            /\ pruned' = Book!Prune(printed', clock)
        BY <2>1, <2>6 DEF Book!RecordBuy
      <3> QED BY <2>1, <2>2, <2>3, <3>1, PrintRecorded
    <2> QED BY <2>5, <2>6
  <1>6. CASE UNCHANGED bookVars
    <2>1. UNCHANGED <<printed, pruned>> /\ clock' = clock /\ prices' = prices
      BY <1>6 DEF bookVars
    <2>2. clock' \in Nat /\ clock' >= clock /\ clock' <= MaxClock
      BY <1>2, <2>1
    <2> QED BY <1>1, <2>1, <2>2, TapeKept
  <1>7. CASE Book!BeginSweep \/ Book!NextClip
    <2>1. UNCHANGED <<printed, pruned>> /\ clock' = clock /\ prices' = prices
      BY <1>7 DEF Book!BeginSweep, Book!NextClip
    <2>2. clock' \in Nat /\ clock' >= clock /\ clock' <= MaxClock
      BY <1>2, <2>1
    <2> QED BY <1>1, <2>1, <2>2, TapeKept
  <1> QED BY <1>3, <1>4, <1>5, <1>6, <1>7 DEF Book!Next

\* What was pruned was outdated, and is so ever after: the prints of the window are
\* among those kept.
LEMMA TapeIsExact == BookParts => Book!SnapshotIsExact
  <1> SUFFICES ASSUME BookParts PROVE Book!SnapshotIsExact
    OBVIOUS
  <1>1. /\ clock \in 0 .. MaxClock /\ printed \in Seq(Book!TapePrint) /\ pruned \in 0 .. Len(printed)
    BY DEF BookParts, Book!TapeInv, Book!TypeOK
  <1>2. Len(printed) \in Nat
    BY <1>1, LenProperties
  <1>3. ASSUME NEW i \in Book!Within(clock) PROVE i \in Book!Kept(printed)
    <2>1. i \in 1 .. Len(printed) /\ printed[i].at >= clock - TapeWindow
      BY DEF Book!Within
    <2>2. printed[i] \in Book!TapePrint
      BY <1>1, <2>1, ElementOfSeq
    <2>3. PICK at : at = printed[i].at
      OBVIOUS
    <2>4. at \in Nat /\ at >= clock - TapeWindow
      BY <2>1, <2>2, <2>3 DEF Book!TapePrint
    <2>5. ~(at < clock - TapeWindow)
      BY <1>1, <2>4, BookConstants
    <2>6. i \notin 1 .. pruned
      BY <2>3, <2>5 DEF BookParts, Book!TapeInv, Book!PrunedOutdated, Book!Outdated
    <2> QED BY <1>1, <1>2, <2>1, <2>6 DEF Book!Kept
  <1>4. Book!Within(clock) \cap Book!Kept(printed) = Book!Within(clock)
    BY <1>3
  <1> QED BY <1>4 DEF Book!SnapshotIsExact, Book!Snapshot

-----------------------------------------------------------------------------
(* Sums along a sequence, and the depth of a book                          *)

\* The recursion of Sums defines a function.
LEMMA SumsExist ==
  ASSUME NEW f, NEW n \in Nat
  PROVE  \E g : g = [i \in 0 .. n |-> IF i = 0 THEN 0 ELSE g[i - 1] + f[i]]
  <1> DEFINE Grows(g, k) == g = [i \in 0 .. k |-> IF i = 0 THEN 0 ELSE g[i - 1] + f[i]]
             None == {k \in Nat : ~\E g : Grows(g, k)}
  <1> SUFFICES ASSUME None # {} PROVE FALSE
    OBVIOUS
  <1>1. PICK k \in None : \A j \in None : k <= j
    <2>1. None \in SUBSET Nat
      OBVIOUS
    <2> HIDE DEF None
    <2> QED BY <2>1, LeastNumber
  <1>2. k \in Nat /\ ~\E g : Grows(g, k)
    OBVIOUS
  <1>3. k # 0
    <2>1. Grows([i \in 0 .. 0 |-> 0], 0)
      OBVIOUS
    <2> HIDE DEF Grows
    <2> QED BY <1>2, <2>1
  <1>4. k - 1 \in Nat /\ k - 1 \notin None
    <2>1. k - 1 \in Nat /\ ~(k <= k - 1)
      BY <1>2, <1>3
    <2> HIDE DEF None
    <2> QED BY <1>1, <2>1
  <1>5. PICK g : Grows(g, k - 1)
    <2> HIDE DEF Grows
    <2> QED BY <1>4
  <1> DEFINE h == [i \in 0 .. k |-> IF i = k THEN g[k - 1] + f[k] ELSE g[i]]
  <1>6. /\ g[0] = 0 /\ \A i \in 1 .. k - 1 : g[i] = g[i - 1] + f[i]
    BY <1>4, <1>5
  <1>7. \A i \in 0 .. k : h[i] = IF i = 0 THEN 0 ELSE h[i - 1] + f[i]
    <2> SUFFICES ASSUME NEW i \in 0 .. k PROVE h[i] = IF i = 0 THEN 0 ELSE h[i - 1] + f[i]
      OBVIOUS
    <2>1. CASE i = 0
      BY <1>2, <1>3, <1>6, <2>1
    <2>2. CASE i = k
      <3>1. k - 1 \in 0 .. k /\ k - 1 # k
        BY <1>2, <1>3
      <3>2. h[k - 1] = g[k - 1]
        BY <3>1
      <3> QED BY <1>3, <2>2, <3>2
    <2>3. CASE i # 0 /\ i # k
      <3>1. i \in 1 .. k - 1 /\ i - 1 \in 0 .. k /\ i - 1 # k
        BY <1>2, <2>3
      <3>2. h[i - 1] = g[i - 1] /\ h[i] = g[i]
        BY <2>3, <3>1
      <3> QED BY <1>6, <2>3, <3>1, <3>2
    <2> QED BY <2>1, <2>2, <2>3
  <1>8. Grows(h, k)
    <2>1. h = [i \in 0 .. k |-> h[i]]
      OBVIOUS
    <2> HIDE DEF h
    <2> QED BY <1>7, <2>1
  <1> HIDE DEF Grows
  <1> QED BY <1>2, <1>8

\* What Sums adds up.
LEMMA SumsAre ==
  ASSUME NEW f, Len(f) \in Nat, \A i \in 1 .. Len(f) : f[i] \in Int
  PROVE  /\ Book!Sums(f)[0] = 0
         /\ \A i \in 1 .. Len(f) : Book!Sums(f)[i] = Book!Sums(f)[i - 1] + f[i]
         /\ \A i \in 0 .. Len(f) : Book!Sums(f)[i] \in Int
         /\ Book!Total(f) = Book!Sums(f)[Len(f)]
  <1>a. PICK n \in Nat : n = Len(f)
    OBVIOUS
  <1>b. PICK s : s = Book!Sums(f)
    OBVIOUS
  <1>1. s = [i \in 0 .. n |-> IF i = 0 THEN 0 ELSE s[i - 1] + f[i]]
    <2>1. s = CHOOSE g : g = [i \in 0 .. n |-> IF i = 0 THEN 0 ELSE g[i - 1] + f[i]]
      BY <1>a, <1>b DEF Book!Sums
    <2>2. \E g : g = [i \in 0 .. n |-> IF i = 0 THEN 0 ELSE g[i - 1] + f[i]]
      BY SumsExist
    <2> QED BY <2>1, <2>2
  <1>2. s[0] = 0 /\ \A i \in 1 .. n : s[i] = s[i - 1] + f[i]
    BY <1>1
  <1>3. \A i \in 0 .. n : s[i] \in Int
    <2> DEFINE Odd == {i \in Nat : i <= n /\ s[i] \notin Int}
    <2> SUFFICES ASSUME Odd # {} PROVE FALSE
      OBVIOUS
    <2>1. PICK i \in Odd : \A j \in Odd : i <= j
      <3>1. Odd \in SUBSET Nat
        OBVIOUS
      <3> HIDE DEF Odd
      <3> QED BY <3>1, LeastNumber
    <2>2. i \in Nat /\ i <= n /\ s[i] \notin Int
      OBVIOUS
    <2>3. i \in 1 .. n /\ i - 1 \in Nat /\ i - 1 <= n /\ ~(i <= i - 1)
      BY <1>2, <2>2
    <2>4. s[i - 1] \in Int
      <3>1. i - 1 \notin Odd
        <4> HIDE DEF Odd
        <4> QED BY <2>1, <2>3
      <3> QED BY <2>3, <3>1
    <2>5. f[i] \in Int
      BY <1>a, <2>3
    <2> QED BY <1>2, <2>2, <2>3, <2>4, <2>5
  <1> QED BY <1>a, <1>b, <1>2, <1>3 DEF Book!Total

\* Members of a finite set have one of the highest rank.
LEMMA Highest ==
  ASSUME NEW S, IsFiniteSet(S), S # {}, NEW rank, \A x \in S : rank[x] \in Int
  PROVE  \E x \in S : \A y \in S : rank[y] <= rank[x]
  <1> DEFINE Top(A) == \E x \in A : \A y \in A : rank[y] <= rank[x]
             Sizes == {n \in Nat : \E A \in SUBSET S : A # {} /\ Cardinality(A) = n /\ ~Top(A)}
  <1>1. \A A \in SUBSET S : IsFiniteSet(A) /\ Cardinality(A) \in Nat
    BY FS_Subset, FS_CardinalityType
  <1> SUFFICES ASSUME ~Top(S) PROVE FALSE
    OBVIOUS
  <1>2. Cardinality(S) \in Sizes
    <2> HIDE DEF Top
    <2> QED BY <1>1
  <1>3. PICK n \in Sizes : \A k \in Sizes : n <= k
    <2>1. Sizes \in SUBSET Nat /\ Sizes # {}
      BY <1>2
    <2> HIDE DEF Sizes
    <2> QED BY <2>1, LeastNumber
  <1>4. PICK A \in SUBSET S : A # {} /\ Cardinality(A) = n /\ ~Top(A)
    <2> HIDE DEF Top
    <2> QED BY <1>3
  <1>5. PICK a \in A : TRUE
    BY <1>4
  <1> DEFINE B == A \ {a}
  <1>6. IsFiniteSet(A) /\ n \in Nat /\ B \in SUBSET S
    BY <1>1, <1>4
  <1>7. Cardinality(B) = n - 1
    BY <1>4, <1>5, <1>6, FS_RemoveElement
  <1>8. CASE B = {}
    <2>1. \A y \in A : y = a
      BY <1>8
    <2>2. rank[a] \in Int
      OBVIOUS
    <2> QED BY <1>4, <2>1, <2>2
  <1>9. CASE B # {}
    <2>1. Cardinality(B) \in Nat /\ ~(n <= Cardinality(B))
      BY <1>1, <1>6, <1>7
    <2>2. Cardinality(B) \notin Sizes
      <3> HIDE DEF Sizes, B
      <3> QED BY <1>3, <2>1
    <2>3. Top(B)
      <3> HIDE DEF Top, B
      <3> QED BY <1>6, <1>9, <2>1, <2>2
    <2>4. PICK b \in B : \A y \in B : rank[y] <= rank[b]
      BY <2>3
    <2>5. \A y \in A : rank[y] \in Int
      OBVIOUS
    <2>6. a \in A /\ b \in A /\ \A y \in A : y = a \/ y \in B
      BY <1>5, <2>4
    <2>7. CASE rank[a] <= rank[b]
      BY <1>4, <2>4, <2>5, <2>6, <2>7
    <2>8. CASE ~(rank[a] <= rank[b])
      <3>1. ASSUME NEW y \in A PROVE rank[y] <= rank[a]
        <4>1. CASE y = a
          BY <2>5, <2>6, <4>1
        <4>2. CASE y \in B
          BY <2>4, <2>5, <2>6, <2>8, <4>2
        <4> QED BY <2>6, <4>1, <4>2
      <3> QED BY <1>4, <2>6, <3>1
    <2> QED BY <2>7, <2>8
  <1> QED BY <1>8, <1>9

\* A finite set has an enumeration by rank.
LEMMA RankedExists ==
  ASSUME NEW S, IsFiniteSet(S), NEW rank, \A x \in S : rank[x] \in Int,
         \A x, y \in S : rank[x] = rank[y] => x = y
  PROVE  \E s \in [1 .. Cardinality(S) -> S] :
           \A i, j \in 1 .. Cardinality(S) : i < j => rank[s[i]] < rank[s[j]]
  <1> DEFINE Lists(s, A, n) == /\ s \in [1 .. n -> A]
                               /\ \A i, j \in 1 .. n : i < j => rank[s[i]] < rank[s[j]]
             Listed(A) == \E s : Lists(s, A, Cardinality(A))
             Sizes == {n \in Nat : \E A \in SUBSET S : Cardinality(A) = n /\ ~Listed(A)}
  <1>1. \A A \in SUBSET S : IsFiniteSet(A) /\ Cardinality(A) \in Nat
    BY FS_Subset, FS_CardinalityType
  <1> SUFFICES Listed(S)
    OBVIOUS
  <1> SUFFICES ASSUME ~Listed(S) PROVE FALSE
    OBVIOUS
  <1>2. Cardinality(S) \in Sizes
    <2> HIDE DEF Listed
    <2> QED BY <1>1
  <1>3. PICK n \in Sizes : \A k \in Sizes : n <= k
    <2>1. Sizes \in SUBSET Nat /\ Sizes # {}
      BY <1>2
    <2> HIDE DEF Sizes
    <2> QED BY <2>1, LeastNumber
  <1>4. PICK A \in SUBSET S : Cardinality(A) = n /\ ~Listed(A)
    <2> HIDE DEF Listed
    <2> QED BY <1>3
  <1>5. IsFiniteSet(A) /\ n \in Nat
    BY <1>1, <1>4
  <1>6. CASE A = {}
    <2>1. n = 0
      BY <1>4, <1>6, FS_EmptySet
    <2>2. Lists([i \in 1 .. 0 |-> i], A, 0)
      OBVIOUS
    <2> HIDE DEF Lists
    <2> QED BY <1>4, <2>1, <2>2
  <1>7. CASE A # {}
    <2>1. \A x \in A : rank[x] \in Int
      OBVIOUS
    <2>2. PICK top \in A : \A y \in A : rank[y] <= rank[top]
      <3> HIDE DEF Listed
      <3> QED BY <1>5, <1>7, <2>1, Highest
    <2> DEFINE B == A \ {top}
    <2>3. Cardinality(B) = n - 1 /\ B \in SUBSET S
      BY <1>4, <1>5, FS_RemoveElement
    <2>4. n - 1 \in Nat /\ ~(n <= n - 1)
      BY <1>1, <1>5, <2>3
    <2>5. Listed(B)
      <3>1. n - 1 \notin Sizes
        <4> HIDE DEF Sizes
        <4> QED BY <1>3, <2>4
      <3> HIDE DEF Listed, B
      <3> QED BY <2>3, <2>4, <3>1
    <2>6. PICK t : Lists(t, B, n - 1)
      <3> HIDE DEF Lists, B
      <3> QED BY <2>3, <2>5
    <2> DEFINE s == [i \in 1 .. n |-> IF i = n THEN top ELSE t[i]]
    <2>7. \A i \in 1 .. n : i # n => i \in 1 .. n - 1
      BY <1>5
    <2>8. \A i \in 1 .. n - 1 : t[i] \in A /\ t[i] # top
      BY <2>6
    <2>9. s \in [1 .. n -> A]
      <3>1. \A i \in 1 .. n : (IF i = n THEN top ELSE t[i]) \in A
        BY <2>7, <2>8
      <3> QED BY <3>1
    <2>10. ASSUME NEW i \in 1 .. n, NEW j \in 1 .. n, i < j PROVE rank[s[i]] < rank[s[j]]
      <3>1. i # n
        BY <1>5, <2>10
      <3>2. i \in 1 .. n - 1 /\ s[i] = t[i]
        BY <2>7, <3>1
      <3>3. CASE j = n
        <4>1. rank[t[i]] <= rank[top] /\ rank[t[i]] # rank[top]
          BY <2>2, <2>8, <3>2
        <4>2. rank[t[i]] \in Int /\ rank[top] \in Int
          BY <2>8, <3>2
        <4> QED BY <3>2, <3>3, <4>1, <4>2
      <3>4. CASE j # n
        <4>1. j \in 1 .. n - 1 /\ s[j] = t[j]
          BY <2>7, <3>4
        <4> QED BY <2>6, <2>10, <3>2, <4>1
      <3> QED BY <3>3, <3>4
    <2>11. Lists(s, A, n)
      <3> HIDE DEF s
      <3> QED BY <2>9, <2>10
    <2> HIDE DEF Lists, s
    <2> QED BY <1>4, <2>11
  <1> QED BY <1>6, <1>7

LEMMA SameSize == ASSUME NEW S PROVE Book!Cardinality(S) = Cardinality(S)
  BY DEF Book!Cardinality, Cardinality

\* What Ranked lists, and in which order.
LEMMA RankedIs ==
  ASSUME NEW S, IsFiniteSet(S), NEW rank, \A x \in S : rank[x] \in Int,
         \A x, y \in S : rank[x] = rank[y] => x = y
  PROVE  /\ Book!Ranked(S, rank) \in [1 .. Cardinality(S) -> S]
         /\ \A i, j \in 1 .. Cardinality(S) :
              i < j => rank[Book!Ranked(S, rank)[i]] < rank[Book!Ranked(S, rank)[j]]
  <1>1. PICK n : n = Cardinality(S)
    OBVIOUS
  <1>2. Book!Ranked(S, rank) = CHOOSE s \in [1 .. n -> S] :
          \A i, j \in 1 .. n : i < j => rank[s[i]] < rank[s[j]]
    BY <1>1, SameSize DEF Book!Ranked
  <1>3. \E s \in [1 .. n -> S] : \A i, j \in 1 .. n : i < j => rank[s[i]] < rank[s[j]]
    BY <1>1, RankedExists
  <1> QED BY <1>1, <1>2, <1>3

\* Enumerations of levels are sequences of them.
LEMMA LevelsListed ==
  ASSUME NEW levels \in BookAsks \cup BookBids, NEW rank,
         \A x \in Book!Parsed(levels) : rank[x] \in Int,
         \A x, y \in Book!Parsed(levels) : rank[x] = rank[y] => x.price = y.price,
         NEW s, s = Book!Ranked(Book!Parsed(levels), rank)
  PROVE  /\ s \in Seq(Book!Level) /\ Len(s) \in Nat
         /\ \A i \in 1 .. Len(s) : s[i] \in Book!Parsed(levels)
         /\ \A i, j \in 1 .. Len(s) : i < j => rank[s[i]] < rank[s[j]]
  <1>a. PICK T : T = Book!Parsed(levels)
    OBVIOUS
  <1>b. PICK n : n = Cardinality(T)
    OBVIOUS
  <1>1. /\ IsFiniteSet(levels) /\ T \subseteq levels
        /\ \A x, y \in levels : x.price = y.price => x = y
        /\ \A x \in T : x \in [price : Nat, worth : Nat] /\ x.price > 0 /\ x.worth > 0
    BY <1>a, FeedsAssumption DEF Book!FeedAssumption, Book!Parsed, Book!IsFiniteSet, IsFiniteSet
  <1>2. IsFiniteSet(T) /\ n \in Nat
    BY <1>b, <1>1, FS_Subset, FS_CardinalityType
  <1>3. \A x, y \in T : rank[x] = rank[y] => x = y
    BY <1>a, <1>1
  <1>4. /\ s \in [1 .. n -> T]
        /\ \A i, j \in 1 .. n : i < j => rank[s[i]] < rank[s[j]]
    BY <1>a, <1>b, <1>2, <1>3, RankedIs
  <1>5. T \subseteq Book!Level
    <2>1. ASSUME NEW x \in T PROVE x \in Book!Level
      BY <1>1, <2>1 DEF Book!Level
    <2> QED BY <2>1
  <1>6. s \in Seq(Book!Level)
    BY <1>2, <1>4, <1>5, SeqDef
  <1>7. Len(s) = n
    BY <1>2, <1>4, <1>6, LenProperties
  <1> QED BY <1>a, <1>2, <1>4, <1>6, <1>7

\* Levels from the best on, asks upwards and bids downwards.
Upwards(s)   == s \in Seq(Book!Level) /\ Len(s) \in Nat
                /\ \A i, j \in 1 .. Len(s) : i < j => s[i].price < s[j].price
Downwards(s) == s \in Seq(Book!Level) /\ Len(s) \in Nat
                /\ \A i, j \in 1 .. Len(s) : i < j => s[i].price > s[j].price
BookSorted   == Upwards(prices.book.asks) /\ Downwards(prices.book.bids)

LEMMA AsksListed == \A asks \in BookAsks : Upwards(Book!Asks(asks))
  <1> SUFFICES ASSUME NEW asks \in BookAsks PROVE Upwards(Book!Asks(asks))
    OBVIOUS
  <1>a. PICK T : T = Book!Parsed(asks)
    OBVIOUS
  <1>b. PICK rank : rank = [level \in T |-> level.price]
    OBVIOUS
  <1>c. PICK s : s = Book!Ranked(T, rank)
    OBVIOUS
  <1>1. \A x \in T : rank[x] = x.price /\ x.price \in Int
    BY <1>a, <1>b, FeedsAssumption DEF Book!FeedAssumption, Book!Parsed
  <1>2. /\ s \in Seq(Book!Level) /\ Len(s) \in Nat
        /\ \A i \in 1 .. Len(s) : s[i] \in T
        /\ \A i, j \in 1 .. Len(s) : i < j => rank[s[i]] < rank[s[j]]
    BY <1>a, <1>c, <1>1, LevelsListed
  <1>3. s = Book!Asks(asks)
    BY <1>a, <1>b, <1>c DEF Book!Asks
  <1> QED BY <1>1, <1>2, <1>3 DEF Upwards

LEMMA BidsListed == \A bids \in BookBids : Downwards(Book!Bids(bids))
  <1> SUFFICES ASSUME NEW bids \in BookBids PROVE Downwards(Book!Bids(bids))
    OBVIOUS
  <1>a. PICK T : T = Book!Parsed(bids)
    OBVIOUS
  <1>b. PICK rank : rank = [level \in T |-> -level.price]
    OBVIOUS
  <1>c. PICK s : s = Book!Ranked(T, rank)
    OBVIOUS
  <1>1. \A x \in T : rank[x] = -x.price /\ x.price \in Int
    BY <1>a, <1>b, FeedsAssumption DEF Book!FeedAssumption, Book!Parsed
  <1>2. /\ \A x \in T : rank[x] \in Int
        /\ \A x, y \in T : rank[x] = rank[y] => x.price = y.price
    BY <1>1
  <1>3. /\ s \in Seq(Book!Level) /\ Len(s) \in Nat
        /\ \A i \in 1 .. Len(s) : s[i] \in T
        /\ \A i, j \in 1 .. Len(s) : i < j => rank[s[i]] < rank[s[j]]
    BY <1>a, <1>c, <1>2, LevelsListed
  <1>4. s = Book!Bids(bids)
    BY <1>a, <1>b, <1>c DEF Book!Bids
  <1>5. ASSUME NEW i \in 1 .. Len(s), NEW j \in 1 .. Len(s), i < j
        PROVE  s[i].price > s[j].price
    <2>1. PICK a, b : a = s[i].price /\ b = s[j].price
      OBVIOUS
    <2>2. a \in Int /\ b \in Int /\ -a < -b
      BY <1>1, <1>3, <1>5, <2>1
    <2>3. a > b
      BY <2>2
    <2> QED BY <2>1, <2>3
  <1> QED BY <1>3, <1>4, <1>5 DEF Downwards

LEMMA BookOrdered ==
  /\ Book!Init => BookSorted
  /\ BookSorted /\ (Book!Next \/ UNCHANGED bookVars) => BookSorted'
  /\ BookSorted => Book!LevelsInOrder
  <1>1. \A bids \in BookBids, asks \in BookAsks :
          /\ Upwards(Book!FromBook(bids, asks).book.asks)
          /\ Downwards(Book!FromBook(bids, asks).book.bids)
    BY AsksListed, BidsListed DEF Book!FromBook
  <1>2. ASSUME Book!Init PROVE BookSorted
    <2>1. CASE prices = Book!NoPrices
      <3>1. prices.book.asks = <<>> /\ prices.book.bids = <<>> /\ Len(<<>>) = 0
        BY <2>1 DEF Book!NoPrices
      <3>2. <<>> \in Seq(Book!Level)
        OBVIOUS
      <3> QED BY <3>1, <3>2 DEF BookSorted, Upwards, Downwards
    <2> QED BY <1>1, <1>2, <2>1 DEF Book!Init, BookSorted
  <1>3. ASSUME BookSorted, Book!Next \/ UNCHANGED bookVars PROVE BookSorted'
    <2>1. CASE prices'.book = prices.book
      BY <1>3, <2>1 DEF BookSorted
    <2>2. CASE Book!BookMessage
      BY <1>1, <2>2 DEF Book!BookMessage, BookSorted
    <2>3. CASE Book!TradeMessage
      <3>1. prices'.book = prices.book
        BY <2>3 DEF Book!TradeMessage, Book!AtTrade
      <3> QED BY <2>1, <3>1
    <2>4. Book!PassTime \/ Book!BeginSweep \/ Book!NextClip \/ UNCHANGED bookVars
            => prices'.book = prices.book
      BY DEF Book!PassTime, Book!BeginSweep, Book!NextClip, bookVars
    <2> QED BY <1>3, <2>1, <2>2, <2>3, <2>4 DEF Book!Next
  <1>4. ASSUME BookSorted PROVE Book!LevelsInOrder
    <2>a. PICK asks, bids : asks = prices.book.asks /\ bids = prices.book.bids
      OBVIOUS
    <2>1. Upwards(asks) /\ Downwards(bids)
      BY <1>4, <2>a DEF BookSorted
    <2>2. ASSUME NEW n \in Nat, NEW i \in 1 .. n - 1 PROVE i \in 1 .. n /\ i + 1 \in 1 .. n /\ i < i + 1
      OBVIOUS
    <2>3. \A i \in 1 .. Len(asks) - 1 : asks[i].price < asks[i + 1].price
      BY <2>1, <2>2 DEF Upwards
    <2>4. \A i \in 1 .. Len(bids) - 1 : bids[i].price > bids[i + 1].price
      BY <2>1, <2>2 DEF Downwards
    <2>5. asks \in Seq(Book!Level) /\ bids \in Seq(Book!Level)
      BY <2>1 DEF Upwards, Downwards
    <2> QED BY <2>a, <2>3, <2>4, <2>5 DEF Book!LevelsInOrder, Book!Sorted
  <1> QED BY <1>2, <1>3, <1>4

\* A sweep level by level: q are the prices of the levels and w their worths, a what they
\* offer together, p what those within the limit l do, u what a buy of m takes of each,
\* t what it takes together.
Sweeps(n, q, w, l, m, a, p, t, u) ==
  /\ n \in Nat /\ l \in Nat /\ m \in Nat
  /\ \A i \in 1 .. n : q[i] \in Nat /\ w[i] \in Nat \ {0}
  /\ \A i, j \in 1 .. n : i < j => q[i] < q[j]
  /\ a[0] = 0 /\ p[0] = 0 /\ t[0] = 0
  /\ \A i \in 1 .. n :
       /\ u[i] = IF q[i] <= l THEN Book!Smaller(w[i], Book!Larger(0, m - a[i - 1])) ELSE 0
       /\ a[i] = a[i - 1] + w[i]
       /\ p[i] = p[i - 1] + IF q[i] <= l THEN w[i] ELSE 0
       /\ t[i] = t[i - 1] + u[i]

LEMMA Sweep ==
  ASSUME NEW n, NEW q, NEW w, NEW l, NEW m, NEW a, NEW p, NEW t, NEW u,
         Sweeps(n, q, w, l, m, a, p, t, u)
  PROVE  \A i \in 0 .. n :
           /\ a[i] \in Nat /\ p[i] \in Nat /\ t[i] = Book!Smaller(m, p[i])
           /\ i = 0 \/ q[i] <= l => p[i] = a[i]
  <1>h. /\ n \in Nat /\ l \in Nat /\ m \in Nat
        /\ \A i \in 1 .. n : q[i] \in Nat /\ w[i] \in Nat \ {0}
        /\ \A i, j \in 1 .. n : i < j => q[i] < q[j]
        /\ a[0] = 0 /\ p[0] = 0 /\ t[0] = 0
        /\ \A i \in 1 .. n :
             /\ u[i] = IF q[i] <= l THEN Book!Smaller(w[i], Book!Larger(0, m - a[i - 1])) ELSE 0
             /\ a[i] = a[i - 1] + w[i]
             /\ p[i] = p[i - 1] + IF q[i] <= l THEN w[i] ELSE 0
             /\ t[i] = t[i - 1] + u[i]
    BY DEF Sweeps
  <1> USE <1>h
  <1> DEFINE Swept(i) == /\ a[i] \in Nat /\ p[i] \in Nat /\ t[i] = Book!Smaller(m, p[i])
                         /\ i = 0 \/ q[i] <= l => p[i] = a[i]
             Odd == {i \in Nat : i <= n /\ ~Swept(i)}
  <1> SUFFICES ASSUME Odd # {} PROVE FALSE
    OBVIOUS
  <1>1. PICK i \in Odd : \A j \in Odd : i <= j
    <2>1. Odd \in SUBSET Nat
      OBVIOUS
    <2> HIDE DEF Odd
    <2> QED BY <2>1, LeastNumber
  <1>2. i \in Nat /\ i <= n /\ ~Swept(i)
    OBVIOUS
  <1>3. i # 0
    <2>1. Swept(0)
      BY DEF Book!Smaller
    <2> HIDE DEF Swept
    <2> QED BY <1>2, <2>1
  <1>4. /\ i \in 1 .. n /\ i - 1 \in Nat /\ i - 1 <= n /\ ~(i <= i - 1)
        /\ i - 1 = 0 \/ (i - 1 \in 1 .. n /\ i - 1 < i)
    BY <1>2, <1>3
  <1>5. Swept(i - 1)
    <2>1. i - 1 \notin Odd
      <3> HIDE DEF Odd
      <3> QED BY <1>1, <1>4
    <2> HIDE DEF Swept
    <2> QED BY <1>4, <2>1
  <1>6. PICK w1, a0, p0, t0 : w1 = w[i] /\ a0 = a[i - 1] /\ p0 = p[i - 1] /\ t0 = t[i - 1]
    OBVIOUS
  <1>7. /\ w1 \in Nat \ {0} /\ a0 \in Nat /\ p0 \in Nat /\ t0 = Book!Smaller(m, p0)
        /\ q[i] \in Nat /\ a[i] = a0 + w1
    BY <1>4, <1>5, <1>6
  <1>8. CASE q[i] <= l
    <2>1. i - 1 = 0 \/ q[i - 1] <= l
      <3>1. CASE i - 1 # 0
        <4>1. q[i - 1] < q[i] /\ q[i - 1] \in Nat
          BY <1>4, <3>1
        <4> QED BY <1>7, <1>8, <4>1
      <3> QED BY <3>1
    <2>2. p0 = a0
      BY <1>5, <1>6, <2>1
    <2>3. /\ p[i] = p0 + w1
          /\ t[i] = t0 + Book!Smaller(w1, Book!Larger(0, m - a0))
      BY <1>4, <1>6, <1>8
    <2>4. t0 + Book!Smaller(w1, Book!Larger(0, m - a0)) = Book!Smaller(m, p0 + w1)
      BY <1>7, <2>2 DEF Book!Smaller, Book!Larger
    <2>5. p0 + w1 \in Nat /\ a0 + w1 \in Nat /\ p0 + w1 = a0 + w1
      BY <1>7, <2>2
    <2>6. Swept(i)
      BY <1>7, <2>3, <2>4, <2>5
    <2> QED BY <1>2, <2>6
  <1>9. CASE ~(q[i] <= l)
    <2>1. p[i] = p0 + 0 /\ t[i] = t0 + 0
      BY <1>4, <1>6, <1>9
    <2>2. p0 + 0 = p0 /\ t0 + 0 = t0 /\ a0 + w1 \in Nat
      BY <1>7 DEF Book!Smaller
    <2>3. Swept(i)
      BY <1>3, <1>7, <1>9, <2>1, <2>2
    <2> QED BY <1>2, <2>3
  <1> QED BY <1>8, <1>9

\* The levels taken whole are the first ones.
LEMMA TakenInFront ==
  ASSUME NEW n, NEW q, NEW w, NEW l, NEW m, NEW a, NEW p, NEW t, NEW u,
         Sweeps(n, q, w, l, m, a, p, t, u)
  PROVE  \E k \in 0 .. n : {i \in 1 .. n : w[i] > u[i]} = k + 1 .. n /\ p[k] = t[k]
  <1>1. \A i \in 0 .. n :
           /\ a[i] \in Nat /\ p[i] \in Nat /\ t[i] = Book!Smaller(m, p[i])
           /\ i = 0 \/ q[i] <= l => p[i] = a[i]
    BY Sweep
  <1>h. /\ n \in Nat /\ l \in Nat /\ m \in Nat
        /\ \A i \in 1 .. n : q[i] \in Nat /\ w[i] \in Nat \ {0}
        /\ \A i, j \in 1 .. n : i < j => q[i] < q[j]
        /\ a[0] = 0 /\ p[0] = 0 /\ t[0] = 0
        /\ \A i \in 1 .. n :
             /\ u[i] = IF q[i] <= l THEN Book!Smaller(w[i], Book!Larger(0, m - a[i - 1])) ELSE 0
             /\ a[i] = a[i - 1] + w[i]
    BY DEF Sweeps
  <1> USE <1>h
  <1>2. ASSUME NEW i \in 1 .. n
        PROVE  u[i] \in Nat /\ (~(w[i] > u[i]) <=> q[i] <= l /\ a[i] <= m)
    <2>1. i - 1 \in 0 .. n
      OBVIOUS
    <2>2. PICK a0, w1 : a0 = a[i - 1] /\ w1 = w[i]
      OBVIOUS
    <2>3. a0 \in Nat /\ w1 \in Nat \ {0} /\ a[i] = a0 + w1
      BY <1>1, <2>1, <2>2
    <2>4. u[i] = IF q[i] <= l THEN Book!Smaller(w1, Book!Larger(0, m - a0)) ELSE 0
      BY <2>2
    <2>5. CASE q[i] <= l
      <3>1. PICK b : b = Book!Smaller(w1, Book!Larger(0, m - a0))
        OBVIOUS
      <3>2. b \in Nat /\ (~(w1 > b) <=> a0 + w1 <= m)
        BY <2>3, <3>1 DEF Book!Smaller, Book!Larger
      <3>3. u[i] = b
        BY <2>4, <2>5, <3>1
      <3> QED BY <2>2, <2>3, <2>5, <3>2, <3>3
    <2>6. CASE ~(q[i] <= l)
      <3>1. u[i] = 0 /\ w1 > 0
        BY <2>3, <2>4, <2>6
      <3> QED BY <2>2, <2>6, <3>1
    <2> QED BY <2>5, <2>6
  <1> DEFINE Part == {i \in 1 .. n : w[i] > u[i]}
  <1>3. ASSUME NEW i \in 1 .. n, i \notin Part, i - 1 # 0 PROVE i - 1 \in 1 .. n /\ i - 1 \notin Part
    <2>1. i - 1 \in 1 .. n /\ i - 1 \in 0 .. n /\ i \in 0 .. n /\ i - 1 < i
      BY <1>3
    <2>2. q[i] <= l /\ a[i] <= m
      BY <1>2, <1>3
    <2>3. q[i - 1] < q[i] /\ q[i - 1] \in Nat /\ q[i] \in Nat
      BY <2>1
    <2>4. a[i] = a[i - 1] + w[i] /\ w[i] \in Nat /\ a[i - 1] \in Nat
      BY <1>1, <2>1
    <2>5. q[i - 1] <= l /\ a[i - 1] <= m
      BY <2>2, <2>3, <2>4
    <2> QED BY <1>2, <2>1, <2>5
  <1>4. PICK k \in 0 .. n : (\A i \in k + 1 .. n : i \in Part) /\ (k = 0 \/ k \notin Part)
    <2> DEFINE Rest == {k \in Nat : k <= n /\ \A i \in k + 1 .. n : i \in Part}
    <2>1. Rest \in SUBSET Nat /\ n \in Rest
      OBVIOUS
    <2>2. PICK k \in Rest : \A j \in Rest : k <= j
      <3> HIDE DEF Rest
      <3> QED BY <2>1, LeastNumber
    <2>3. k \in 0 .. n /\ \A i \in k + 1 .. n : i \in Part
      <3> HIDE DEF Part
      <3> QED OBVIOUS
    <2>4. ASSUME k # 0 PROVE k \notin Part
      <3>1. k - 1 \in Nat /\ ~(k <= k - 1) /\ k - 1 <= n
        BY <2>3, <2>4
      <3>2. k - 1 \notin Rest
        <4> HIDE DEF Rest
        <4> QED BY <2>2, <3>1
      <3>3. PICK i \in (k - 1) + 1 .. n : i \notin Part
        <4> HIDE DEF Part
        <4> QED BY <3>1, <3>2
      <3>4. i = k
        <4>1. i \notin k + 1 .. n
          <5> HIDE DEF Part
          <5> QED BY <2>3, <3>3
        <4> HIDE DEF Part
        <4> QED BY <2>3, <3>1, <3>3, <4>1
      <3> HIDE DEF Part
      <3> QED BY <3>3, <3>4
    <2> HIDE DEF Part
    <2> QED BY <2>3, <2>4
  <1>5. \A i \in Nat : i <= k /\ i # 0 => i \notin Part
    <2> DEFINE Odd == {d \in Nat : d < k /\ k - d \in Part}
    <2> SUFFICES Odd = {}
      <3>1. ASSUME NEW i \in Nat, i <= k, i # 0, i \in Part, Odd = {} PROVE FALSE
        <4>1. k - i \in Nat /\ k - i < k /\ k - (k - i) = i
          BY <3>1
        <4>2. k - i \in Odd
          <5> HIDE DEF Part
          <5> QED BY <3>1, <4>1
        <4> QED BY <3>1, <4>2
      <3> HIDE DEF Odd, Part
      <3> QED BY <3>1
    <2> SUFFICES ASSUME Odd # {} PROVE FALSE
      OBVIOUS
    <2>1. PICK d \in Odd : \A e \in Odd : d <= e
      <3>1. Odd \in SUBSET Nat
        OBVIOUS
      <3> HIDE DEF Odd
      <3> QED BY <3>1, LeastNumber
    <2>2. d \in Nat /\ d < k /\ k - d \in Part
      <3> HIDE DEF Part
      <3> QED OBVIOUS
    <2>3. d # 0
      <3>1. ASSUME d = 0 PROVE FALSE
        <4>1. k - d = k /\ k # 0
          BY <2>2, <3>1
        <4> HIDE DEF Part
        <4> QED BY <1>4, <2>2, <4>1
      <3> QED BY <3>1
    <2>4. /\ d - 1 \in Nat /\ d - 1 < k /\ ~(d <= d - 1)
          /\ k - (d - 1) \in 1 .. n /\ (k - (d - 1)) - 1 = k - d /\ k - d # 0
      BY <2>2, <2>3
    <2>5. k - (d - 1) \notin Part
      <3>1. d - 1 \notin Odd
        <4> HIDE DEF Odd
        <4> QED BY <2>1, <2>4
      <3> HIDE DEF Part
      <3> QED BY <2>4, <3>1
    <2>6. k - d \notin Part
      <3> HIDE DEF Part
      <3> QED BY <1>3, <2>4, <2>5
    <2> HIDE DEF Part
    <2> QED BY <2>2, <2>6
  <1>6. Part = k + 1 .. n
    <2>1. \A i \in Part : i \in 1 .. n
      OBVIOUS
    <2>2. \A i \in 1 .. n : i \in k + 1 .. n \/ (i \in Nat /\ i <= k /\ i # 0)
      OBVIOUS
    <2>3. \A i \in k + 1 .. n : i \in 1 .. n
      OBVIOUS
    <2> HIDE DEF Part
    <2> QED BY <1>4, <1>5, <2>1, <2>2, <2>3
  <1>7. p[k] = t[k]
    <2>1. CASE k = 0
      BY <2>1
    <2>2. CASE k # 0
      <3>1. k \in 1 .. n /\ k \notin Part
        <4> HIDE DEF Part
        <4> QED BY <1>4, <2>2
      <3>2. q[k] <= l /\ a[k] <= m
        BY <1>2, <3>1
      <3>3. p[k] = a[k] /\ a[k] \in Nat /\ t[k] = Book!Smaller(m, p[k])
        BY <1>1, <3>2
      <3> QED BY <3>2, <3>3 DEF Book!Smaller
    <2> QED BY <2>1, <2>2
  <1> QED BY <1>6, <1>7

\* An interval, enumerated in its order.
LEMMA IntervalRanked ==
  ASSUME NEW n \in Nat, NEW k \in 0 .. n, NEW index,
         index = Book!Ranked(k + 1 .. n, [i \in k + 1 .. n |-> i])
  PROVE  /\ Book!Cardinality(k + 1 .. n) = n - k
         /\ \A j \in 1 .. n - k : index[j] = k + j
  <1>a. PICK c : c = n - k
    OBVIOUS
  <1>b. PICK rank : rank = [i \in k + 1 .. n |-> i]
    OBVIOUS
  <1>1. IsFiniteSet(k + 1 .. n) /\ Cardinality(k + 1 .. n) = c /\ c \in Nat
    <2>1. k \in Int /\ n \in Int /\ k + 1 \in Int /\ n - (k + 1) + 1 = n - k /\ n - k \in Nat
      OBVIOUS
    <2>2. k + 1 > n => n - k = 0
      OBVIOUS
    <2> QED BY <1>a, <2>1, <2>2, FS_Interval
  <1>2. \A x \in k + 1 .. n : rank[x] = x /\ x \in Int
    BY <1>b
  <1>3. /\ index \in [1 .. c -> k + 1 .. n]
        /\ \A i, j \in 1 .. c : i < j => rank[index[i]] < rank[index[j]]
    BY <1>b, <1>1, <1>2, RankedIs
  <1>4. \A i \in 1 .. c : index[i] \in k + 1 .. n
    BY <1>3
  <1>5. \A i, j \in 1 .. c : i < j => index[i] < index[j]
    BY <1>2, <1>3, <1>4
  <1>6. \A j \in 1 .. c : index[j] >= k + j
    <2> DEFINE Low == {j \in Nat : j \in 1 .. c /\ ~(index[j] >= k + j)}
    <2> SUFFICES ASSUME Low # {} PROVE FALSE
      OBVIOUS
    <2>1. PICK j \in Low : \A i \in Low : j <= i
      <3>1. Low \in SUBSET Nat
        OBVIOUS
      <3> HIDE DEF Low
      <3> QED BY <3>1, LeastNumber
    <2>2. j \in 1 .. c /\ ~(index[j] >= k + j)
      OBVIOUS
    <2>3. index[j] \in k + 1 .. n
      BY <1>4, <2>2
    <2>4. j - 1 \in 1 .. c /\ j - 1 \in Nat /\ j - 1 < j
      BY <1>1, <2>2, <2>3
    <2>5. ~(j <= j - 1)
      BY <1>1, <2>2
    <2>6. index[j - 1] >= k + (j - 1)
      <3>1. j - 1 \notin Low
        <4> HIDE DEF Low
        <4> QED BY <2>1, <2>5
      <3> QED BY <2>4, <3>1
    <2>7. index[j - 1] < index[j] /\ index[j - 1] \in k + 1 .. n
      BY <1>4, <1>5, <2>2, <2>4
    <2> HIDE DEF Low
    <2> QED BY <1>1, <2>2, <2>3, <2>6, <2>7
  <1>7. \A j \in 1 .. c : index[j] <= k + j
    <2> DEFINE High == {d \in Nat : d < c /\ ~(index[c - d] <= k + (c - d))}
    <2> SUFFICES High = {}
      <3>1. ASSUME NEW j \in 1 .. c, ~(index[j] <= k + j), High = {} PROVE FALSE
        <4>1. c - j \in Nat /\ c - j < c /\ c - (c - j) = j
          BY <1>1, <3>1
        <4>2. c - j \in High
          BY <3>1, <4>1
        <4> QED BY <3>1, <4>2
      <3> HIDE DEF High
      <3> QED BY <3>1
    <2> SUFFICES ASSUME High # {} PROVE FALSE
      OBVIOUS
    <2>1. PICK d \in High : \A e \in High : d <= e
      <3>1. High \in SUBSET Nat
        OBVIOUS
      <3> HIDE DEF High
      <3> QED BY <3>1, LeastNumber
    <2>2. d \in Nat /\ d < c /\ ~(index[c - d] <= k + (c - d))
      OBVIOUS
    <2>3. c - d \in 1 .. c
      BY <1>1, <2>2
    <2>4. index[c - d] \in k + 1 .. n
      BY <1>4, <2>3
    <2>5. d # 0 /\ d - 1 \in Nat /\ d - 1 < c /\ ~(d <= d - 1)
      BY <1>a, <1>1, <2>2, <2>4
    <2>6. c - (d - 1) \in 1 .. c /\ c - d < c - (d - 1)
      BY <1>1, <2>2, <2>5
    <2>7. index[c - (d - 1)] <= k + (c - (d - 1))
      <3>1. d - 1 \notin High
        <4> HIDE DEF High
        <4> QED BY <2>1, <2>5
      <3> QED BY <2>5, <3>1
    <2>8. index[c - d] < index[c - (d - 1)] /\ index[c - (d - 1)] \in k + 1 .. n
      BY <1>4, <1>5, <2>3, <2>6
    <2> HIDE DEF High
    <2> QED BY <1>1, <2>2, <2>3, <2>4, <2>7, <2>8
  <1>8. ASSUME NEW j \in 1 .. c PROVE index[j] = k + j
    <2>1. index[j] \in k + 1 .. n /\ index[j] >= k + j /\ index[j] <= k + j
      BY <1>4, <1>6, <1>7
    <2> QED BY <1>1, <2>1
  <1> QED BY <1>a, <1>1, <1>8, SameSize

LEMMA LengthOf ==
  ASSUME NEW n \in Nat, NEW f, DOMAIN f = 1 .. n, f = [i \in DOMAIN f |-> f[i]]
  PROVE  Len(f) = n
  <1> DEFINE S == {f[i] : i \in 1 .. n}
  <1>1. f \in [1 .. n -> S]
    OBVIOUS
  <1> HIDE DEF S
  <1>2. f \in Seq(S)
    BY <1>1, SeqDef
  <1>3. Len(f) \in Nat /\ DOMAIN f = 1 .. Len(f)
    BY <1>2, LenProperties
  <1> QED BY <1>3

\* The levels of a book, swept.
PricesOf(s) == [i \in 1 .. Len(s) |-> s[i].price]
WorthsOf(s) == [j \in 1 .. Len(s) |-> s[j].worth]
LEMMA SweepOfLevels ==
  ASSUME NEW s, Upwards(s), NEW l \in Nat, NEW m \in Nat
  PROVE  /\ Sweeps(Len(s), PricesOf(s), WorthsOf(s), l, m, Book!Sums(WorthsOf(s)),
                   Book!Sums(Book!Payable(s, l)), Book!Sums(Book!Taken(s, l, m)),
                   Book!Taken(s, l, m))
         /\ Len(Book!Payable(s, l)) = Len(s) /\ Len(Book!Taken(s, l, m)) = Len(s)
         /\ \A i \in 1 .. Len(s) : Book!Taken(s, l, m)[i] \in Int
  <1>a. PICK n : n = Len(s)
    OBVIOUS
  <1>b. PICK q, w, a : q = PricesOf(s) /\ w = WorthsOf(s) /\ a = Book!Sums(w)
    OBVIOUS
  <1>c. PICK d : d = Book!Payable(s, l)
    OBVIOUS
  <1>d. PICK u : u = Book!Taken(s, l, m)
    OBVIOUS
  <1>e. /\ q = [i \in 1 .. n |-> s[i].price] /\ w = [j \in 1 .. n |-> s[j].worth]
        /\ a = Book!Sums([j \in 1 .. n |-> s[j].worth])
    BY <1>a, <1>b DEF PricesOf, WorthsOf
  <1>1. n \in Nat /\ \A i, j \in 1 .. n : i < j => s[i].price < s[j].price
    BY <1>a DEF Upwards
  <1>2. \A i \in 1 .. n : q[i] = s[i].price /\ w[i] = s[i].worth
    BY <1>e
  <1>3. \A i \in 1 .. n : q[i] \in Nat /\ w[i] \in Nat \ {0}
    <2>1. \A i \in 1 .. Len(s) : s[i] \in Book!Level
      BY ElementOfSeq DEF Upwards
    <2> QED BY <1>a, <1>2, <2>1 DEF Book!Level
  <1>4. \A i, j \in 1 .. n : i < j => q[i] < q[j]
    BY <1>1, <1>2
  <1>5. Len(w) = n
    <2>1. DOMAIN w = 1 .. n /\ w = [i \in DOMAIN w |-> w[i]]
      BY <1>e
    <2> QED BY <1>1, <2>1, LengthOf
  <1>6. /\ a[0] = 0 /\ \A i \in 1 .. n : a[i] = a[i - 1] + w[i]
        /\ \A i \in 0 .. n : a[i] \in Int
    <2>1. \A i \in 1 .. Len(w) : w[i] \in Int
      BY <1>3, <1>5
    <2>2. Len(w) \in Nat
      BY <1>1, <1>5
    <2> QED BY <1>b, <1>5, <2>1, <2>2, SumsAre
  <1>7. /\ Len(d) = n
        /\ \A i \in 1 .. n : d[i] = IF q[i] <= l THEN w[i] ELSE 0
    <2>1. d = [i \in 1 .. n |-> IF s[i].price <= l THEN s[i].worth ELSE 0]
      BY <1>a, <1>c DEF Book!Payable
    <2>2. DOMAIN d = 1 .. n /\ d = [i \in DOMAIN d |-> d[i]]
      BY <2>1
    <2>3. Len(d) = n
      BY <1>1, <2>2, LengthOf
    <2> QED BY <1>2, <2>1, <2>3
  <1>8. /\ Len(u) = n
        /\ \A i \in 1 .. n :
             u[i] = IF q[i] <= l THEN Book!Smaller(w[i], Book!Larger(0, m - a[i - 1])) ELSE 0
    <2>1. u = [i \in 1 .. n |->
                 IF \E j \in 1 .. i : s[j].price > l THEN 0
                 ELSE Book!Smaller(s[i].worth, Book!Larger(0, m - a[i - 1]))]
      BY <1>a, <1>d, <1>e DEF Book!Taken, Book!Before
    <2>2. DOMAIN u = 1 .. n /\ u = [i \in DOMAIN u |-> u[i]]
      BY <2>1
    <2>3. Len(u) = n
      BY <1>1, <2>2, LengthOf
    <2>4. ASSUME NEW i \in 1 .. n PROVE (\E j \in 1 .. i : s[j].price > l) <=> ~(q[i] <= l)
      <3>1. i \in 1 .. i
        BY <1>1
      <3>2. ASSUME NEW j \in 1 .. i, q[i] <= l PROVE ~(s[j].price > l)
        <4>1. j \in 1 .. n /\ (j = i \/ j < i)
          BY <1>1
        <4>2. q[j] <= q[i] /\ q[j] \in Nat /\ q[i] \in Nat
          BY <1>3, <1>4, <4>1
        <4> QED BY <1>2, <3>2, <4>1, <4>2
      <3>3. q[i] \in Nat /\ q[i] = s[i].price
        BY <1>2, <1>3
      <3> QED BY <3>1, <3>2, <3>3
    <2> QED BY <1>2, <2>1, <2>3, <2>4
  <1>9. \A i \in 1 .. n : d[i] \in Int /\ u[i] \in Int
    <2> SUFFICES ASSUME NEW i \in 1 .. n PROVE d[i] \in Int /\ u[i] \in Int
      OBVIOUS
    <2>1. i - 1 \in 0 .. n
      BY <1>1
    <2>2. w[i] \in Nat /\ a[i - 1] \in Int
      BY <1>3, <1>6, <2>1
    <2> QED BY <1>7, <1>8, <2>2 DEF Book!Smaller, Book!Larger
  <1>10. Book!Sums(d)[0] = 0 /\ \A i \in 1 .. n : Book!Sums(d)[i] = Book!Sums(d)[i - 1] + d[i]
    <2>1. Len(d) \in Nat /\ \A i \in 1 .. Len(d) : d[i] \in Int
      BY <1>1, <1>7, <1>9
    <2> QED BY <1>7, <2>1, SumsAre
  <1>11. Book!Sums(u)[0] = 0 /\ \A i \in 1 .. n : Book!Sums(u)[i] = Book!Sums(u)[i - 1] + u[i]
    <2>1. Len(u) \in Nat /\ \A i \in 1 .. Len(u) : u[i] \in Int
      BY <1>1, <1>8, <1>9
    <2> QED BY <1>8, <2>1, SumsAre
  <1>12. Sweeps(n, q, w, l, m, a, Book!Sums(d), Book!Sums(u), u)
    BY <1>1, <1>3, <1>4, <1>6, <1>7, <1>8, <1>10, <1>11 DEF Sweeps
  <1> QED BY <1>a, <1>b, <1>c, <1>d, <1>7, <1>8, <1>9, <1>12

\* A buy takes what the levels within the limit offer, up to its amount.
LEMMA FillIs ==
  ASSUME NEW s, Upwards(s), NEW l \in Nat, NEW m \in Nat
  PROVE  /\ Book!AskDepth(s, l) \in Nat
         /\ Book!FillUsd(s, l, m) = Book!Smaller(m, Book!AskDepth(s, l))
         /\ Book!AskDepth(s, l) = Book!Sums(Book!Payable(s, l))[Len(s)]
         /\ Book!FillUsd(s, l, m) = Book!Sums(Book!Taken(s, l, m))[Len(s)]
  <1>a. PICK q, w : q = PricesOf(s) /\ w = WorthsOf(s)
    OBVIOUS
  <1>b. PICK a, p, t, u : /\ a = Book!Sums(w) /\ p = Book!Sums(Book!Payable(s, l))
                          /\ t = Book!Sums(Book!Taken(s, l, m)) /\ u = Book!Taken(s, l, m)
    OBVIOUS
  <1>1. /\ Sweeps(Len(s), q, w, l, m, a, p, t, u)
        /\ Len(Book!Payable(s, l)) = Len(s) /\ Len(Book!Taken(s, l, m)) = Len(s)
    BY <1>a, <1>b, SweepOfLevels
  <1>2. Len(s) \in 0 .. Len(s)
    BY DEF Upwards
  <1>3. p[Len(s)] \in Nat /\ t[Len(s)] = Book!Smaller(m, p[Len(s)])
    BY <1>1, <1>2, Sweep
  <1>4. Book!AskDepth(s, l) = p[Len(s)] /\ Book!FillUsd(s, l, m) = t[Len(s)]
    BY <1>b, <1>1 DEF Book!AskDepth, Book!FillUsd, Book!Total
  <1> QED BY <1>b, <1>3, <1>4

\* What a buy leaves is a book again, without what the buy took.
LEMMA LeftIs ==
  ASSUME NEW s, Upwards(s), NEW l \in Nat, NEW m \in Nat
  PROVE  /\ Upwards(Book!LeftAfter(s, l, m))
         /\ Book!AskDepth(Book!LeftAfter(s, l, m), l)
              = Book!AskDepth(s, l) - Book!FillUsd(s, l, m)
  <1>a. PICK q, w : q = PricesOf(s) /\ w = WorthsOf(s)
    OBVIOUS
  <1>b. PICK a, p, t, u : /\ a = Book!Sums(w) /\ p = Book!Sums(Book!Payable(s, l))
                          /\ t = Book!Sums(Book!Taken(s, l, m)) /\ u = Book!Taken(s, l, m)
    OBVIOUS
  <1>c. PICK n : n = Len(s)
    OBVIOUS
  <1>d. PICK left : left = Book!LeftAfter(s, l, m)
    OBVIOUS
  <1>e. PICK d : d = Book!Payable(left, l)
    OBVIOUS
  <1>1. n \in Nat /\ Sweeps(n, q, w, l, m, a, p, t, u) /\ \A i \in 1 .. n : u[i] \in Int
    <2>1. Sweeps(n, q, w, l, m, a, p, t, u) /\ \A i \in 1 .. n : u[i] \in Int
      BY <1>a, <1>b, <1>c, SweepOfLevels
    <2>2. n \in Nat
      BY <1>c DEF Upwards
    <2> QED BY <2>1, <2>2
  <1>2. /\ \A i \in 1 .. n : q[i] \in Nat /\ w[i] \in Nat \ {0}
        /\ \A i, j \in 1 .. n : i < j => q[i] < q[j]
    BY <1>1 DEF Sweeps
  <1>3. \A i \in 0 .. n : p[i] \in Nat /\ t[i] \in Nat
    <2>1. \A i \in 0 .. n : p[i] \in Nat /\ t[i] = Book!Smaller(m, p[i])
      BY <1>1, Sweep
    <2> QED BY <2>1 DEF Book!Smaller
  <1>4. PICK k \in 0 .. n : {i \in 1 .. n : w[i] > u[i]} = k + 1 .. n /\ p[k] = t[k]
    BY <1>1, TakenInFront
  <1>5. PICK c : c = n - k
    OBVIOUS
  <1>6. /\ c \in Nat
        /\ \A j \in 1 .. c : k + j \in 1 .. n /\ k + j \in 0 .. n /\ (k + j) - 1 \in 0 .. n
                             /\ (k + j) - 1 = k + (j - 1) /\ k + j \in k + 1 .. n
    BY <1>1, <1>5
  <1>7. \A i \in k + 1 .. n : i \in 1 .. n /\ w[i] > u[i]
    BY <1>4
  <1>8. left = [j \in 1 .. c |-> [s[k + j] EXCEPT !.worth = @ - u[k + j]]]
    <2> DEFINE some == {i \in 1 .. n : s[i].worth > u[i]}
    <2>1. some = k + 1 .. n
      <3>1. some = {i \in 1 .. n : w[i] > u[i]}
        <4>1. \A i \in 1 .. n : w[i] = s[i].worth
          BY <1>a, <1>c DEF WorthsOf
        <4> QED BY <4>1
      <3> QED BY <1>4, <3>1
    <2> HIDE DEF some
    <2>2. PICK index : index = Book!Ranked(some, [i \in some |-> i])
      OBVIOUS
    <2>3. left = [j \in 1 .. Book!Cardinality(some) |->
                    [s[index[j]] EXCEPT !.worth = @ - u[index[j]]]]
      BY <1>b, <1>c, <1>d, <2>2 DEF Book!LeftAfter, some
    <2>4. Book!Cardinality(some) = c /\ \A j \in 1 .. c : index[j] = k + j
      BY <1>1, <1>5, <2>1, <2>2, IntervalRanked
    <2> QED BY <2>3, <2>4
  <1>9. ASSUME NEW j \in 1 .. c
        PROVE  /\ left[j] \in Book!Level
               /\ left[j].price = q[k + j] /\ left[j].worth = w[k + j] - u[k + j]
    <2>1. PICK i : i = k + j
      OBVIOUS
    <2>2. i \in 1 .. n /\ w[i] > u[i] /\ w[i] \in Nat /\ u[i] \in Int /\ q[i] \in Nat
      BY <1>1, <1>2, <1>6, <1>7, <2>1
    <2>3. s[i] \in Book!Level /\ q[i] = s[i].price /\ w[i] = s[i].worth
      BY <1>a, <1>c, <2>2, ElementOfSeq DEF Upwards, PricesOf, WorthsOf
    <2>4. left[j] = [s[i] EXCEPT !.worth = @ - u[i]]
      BY <1>8, <2>1
    <2>5. w[i] - u[i] \in Nat \ {0}
      BY <2>2
    <2>6. left[j] = [price |-> q[i], worth |-> w[i] - u[i]]
      BY <2>3, <2>4 DEF Book!Level
    <2>7. q[i] \in Nat \ {0}
      BY <2>3 DEF Book!Level
    <2> QED BY <2>1, <2>5, <2>6, <2>7 DEF Book!Level
  <1>10. left \in Seq(Book!Level) /\ Len(left) = c
    <2>1. left \in [1 .. c -> Book!Level]
      <3>1. DOMAIN left = 1 .. c /\ left = [j \in 1 .. c |-> left[j]]
        BY <1>8
      <3> QED BY <1>9, <3>1
    <2>2. left \in Seq(Book!Level)
      BY <1>6, <2>1, SeqDef
    <2>3. DOMAIN left = 1 .. c /\ left = [j \in DOMAIN left |-> left[j]]
      BY <2>1
    <2>4. Len(left) = c
      BY <1>6, <2>3, LengthOf
    <2> QED BY <2>2, <2>4
  <1>11. Upwards(left)
    <2>1. ASSUME NEW i \in 1 .. c, NEW j \in 1 .. c, i < j PROVE left[i].price < left[j].price
      <3>1. k + i \in 1 .. n /\ k + j \in 1 .. n /\ k + i < k + j
        BY <1>1, <1>6, <2>1
      <3> QED BY <1>2, <1>9, <3>1
    <2> QED BY <1>6, <1>10, <2>1 DEF Upwards
  <1>12. /\ Len(d) = c
         /\ \A j \in 1 .. c : d[j] = IF q[k + j] <= l THEN w[k + j] - u[k + j] ELSE 0
    <2>1. d = [j \in 1 .. c |-> IF left[j].price <= l THEN left[j].worth ELSE 0]
      BY <1>e, <1>10 DEF Book!Payable
    <2>2. DOMAIN d = 1 .. c /\ d = [j \in DOMAIN d |-> d[j]]
      BY <2>1
    <2>3. Len(d) = c
      BY <1>6, <2>2, LengthOf
    <2> QED BY <1>9, <2>1, <2>3
  <1>13. ASSUME NEW j \in 1 .. c
         PROVE  d[j] \in Int /\ d[j] = (p[k + j] - p[k + (j - 1)]) - (t[k + j] - t[k + (j - 1)])
    <2>1. PICK i : i = k + j
      OBVIOUS
    <2>2. i \in 1 .. n /\ i \in 0 .. n /\ i - 1 \in 0 .. n /\ i - 1 = k + (j - 1)
      BY <1>6, <2>1
    <2>3. /\ p[i] = p[i - 1] + IF q[i] <= l THEN w[i] ELSE 0
          /\ t[i] = t[i - 1] + u[i] /\ (~(q[i] <= l) => u[i] = 0)
      BY <1>1, <2>2 DEF Sweeps
    <2>4. /\ p[i] \in Nat /\ p[i - 1] \in Nat /\ t[i] \in Nat /\ t[i - 1] \in Nat
          /\ w[i] \in Nat /\ u[i] \in Int
      BY <1>1, <1>2, <1>3, <2>2
    <2>5. d[j] = IF q[i] <= l THEN w[i] - u[i] ELSE 0
      BY <1>12, <2>1
    <2>6. d[j] \in Int /\ d[j] = (p[i] - p[i - 1]) - (t[i] - t[i - 1])
      <3>1. PICK p0, p1, t0, t1, ui, wi :
              /\ p0 = p[i - 1] /\ p1 = p[i] /\ t0 = t[i - 1] /\ t1 = t[i]
              /\ ui = u[i] /\ wi = w[i]
        OBVIOUS
      <3>2. /\ p0 \in Nat /\ p1 \in Nat /\ t0 \in Nat /\ t1 \in Nat /\ wi \in Nat /\ ui \in Int
            /\ t1 = t0 + ui
        BY <2>3, <2>4, <3>1
      <3>3. CASE q[i] <= l
        <4>1. p1 = p0 + wi /\ d[j] = wi - ui
          BY <2>3, <2>5, <3>1, <3>3
        <4>2. wi - ui \in Int /\ wi - ui = (p1 - p0) - (t1 - t0)
          BY <3>2, <4>1
        <4> QED BY <3>1, <4>1, <4>2
      <3>4. CASE ~(q[i] <= l)
        <4>1. p1 = p0 + 0 /\ ui = 0 /\ d[j] = 0
          BY <2>3, <2>5, <3>1, <3>4
        <4>2. 0 = (p1 - p0) - (t1 - t0)
          BY <3>2, <4>1
        <4> QED BY <3>1, <4>1, <4>2
      <3> QED BY <3>3, <3>4
    <2> QED BY <2>1, <2>2, <2>6
  <1>14. PICK g : g = Book!Sums(d)
    OBVIOUS
  <1>15. /\ g[0] = 0 /\ \A j \in 1 .. c : g[j] = g[j - 1] + d[j]
         /\ Book!AskDepth(left, l) = g[c]
    <2>1. Len(d) \in Nat /\ \A j \in 1 .. Len(d) : d[j] \in Int
      BY <1>6, <1>12, <1>13
    <2> QED BY <1>e, <1>12, <1>14, <2>1, SumsAre DEF Book!AskDepth
  <1>16. \A j \in 0 .. c : g[j] = p[k + j] - t[k + j]
    <2> DEFINE Odd == {j \in Nat : j <= c /\ g[j] # p[k + j] - t[k + j]}
    <2> SUFFICES ASSUME Odd # {} PROVE FALSE
      OBVIOUS
    <2>1. PICK j \in Odd : \A i \in Odd : j <= i
      <3>1. Odd \in SUBSET Nat
        OBVIOUS
      <3> HIDE DEF Odd
      <3> QED BY <3>1, LeastNumber
    <2>2. j \in Nat /\ j <= c /\ g[j] # p[k + j] - t[k + j]
      OBVIOUS
    <2>3. j # 0
      <3>1. k + 0 = k /\ p[k] \in Nat
        BY <1>3
      <3>2. p[k + 0] - t[k + 0] = 0
        BY <1>4, <3>1
      <3> QED BY <1>15, <2>2, <3>2
    <2>4. j \in 1 .. c /\ j - 1 \in Nat /\ j - 1 <= c /\ ~(j <= j - 1)
      BY <1>6, <2>2, <2>3
    <2>5. g[j - 1] = p[k + (j - 1)] - t[k + (j - 1)]
      <3>1. j - 1 \notin Odd
        <4> HIDE DEF Odd
        <4> QED BY <2>1, <2>4
      <3> QED BY <2>4, <3>1
    <2>6. /\ g[j] = g[j - 1] + d[j]
          /\ d[j] = (p[k + j] - p[k + (j - 1)]) - (t[k + j] - t[k + (j - 1)])
      BY <1>13, <1>15, <2>4
    <2>7. /\ p[k + j] \in Nat /\ p[k + (j - 1)] \in Nat
          /\ t[k + j] \in Nat /\ t[k + (j - 1)] \in Nat
      BY <1>3, <1>6, <2>4
    <2> HIDE DEF Odd
    <2> QED BY <2>2, <2>5, <2>6, <2>7
  <1>17. g[c] = p[n] - t[n]
    <2>1. c \in 0 .. c /\ k + c = n
      BY <1>1, <1>5, <1>6
    <2>2. g[c] = p[k + c] - t[k + c]
      BY <1>16, <2>1
    <2> QED BY <2>1, <2>2
  <1>18. Book!AskDepth(s, l) = p[n] /\ Book!FillUsd(s, l, m) = t[n]
    BY <1>b, <1>c, FillIs
  <1> QED BY <1>d, <1>11, <1>15, <1>17, <1>18

\* Nothing is left of no levels.
LEMMA NoneLeft == ASSUME NEW l, NEW m PROVE Book!LeftAfter(<<>>, l, m) = <<>>
  <1> DEFINE some == {i \in 1 .. Len(<<>>) : <<>>[i].worth > Book!Taken(<<>>, l, m)[i]}
  <1>1. some = {} /\ Book!Cardinality(some) = 0
    <2>1. some = {}
      OBVIOUS
    <2>2. Cardinality({}) = 0
      BY FS_EmptySet
    <2> HIDE DEF some
    <2> QED BY <2>1, <2>2, SameSize
  <1>2. PICK index : index = Book!Ranked(some, [i \in some |-> i])
    OBVIOUS
  <1>3. Book!LeftAfter(<<>>, l, m) =
          [k \in 1 .. Book!Cardinality(some) |->
             [<<>>[index[k]] EXCEPT !.worth = @ - Book!Taken(<<>>, l, m)[index[k]]]]
    BY <1>2 DEF Book!LeftAfter
  <1> HIDE DEF some
  <1> QED BY <1>1, <1>3

LEMMA NothingOffered ==
  ASSUME NEW l, NEW s, s = <<>> PROVE Book!AskDepth(s, l) = 0
  <1>a. PICK d : d = Book!Payable(s, l)
    OBVIOUS
  <1>1. Len(s) = 0
    OBVIOUS
  <1>2. Len(d) = 0
    BY <1>a, <1>1 DEF Book!Payable
  <1>3. Len(d) \in Nat /\ \A i \in 1 .. Len(d) : d[i] \in Int
    BY <1>2
  <1>4. Book!Sums(d)[0] = 0 /\ Book!Total(d) = Book!Sums(d)[Len(d)]
    BY <1>3, SumsAre
  <1> QED BY <1>a, <1>2, <1>4 DEF Book!AskDepth

\* A sweep between two clips, and what it was told of the book it began with.
SweepRecord == [limit : Limits, clip : ClipSizes, budget : Budgets,
                left : Seq(Book!Level), clips : Nat, bought : Nat]
SweepFits(w) == /\ w.bought <= w.budget /\ w.clips <= MaxClips
                /\ 100 * w.bought >= 95 * (w.clips * w.clip)
                /\ w.bought <= w.clips * w.clip
SweepTells(w, depth, ask) ==
  \/ w.bought + Book!AskDepth(w.left, w.limit) = depth
  \/ w.left = <<>> /\ w.bought > depth /\ ask \in 1 .. w.limit
SweepGoes(w, depth, ask) ==
  w \in SweepRecord /\ Upwards(w.left) /\ SweepFits(w) /\ SweepTells(w, depth, ask)
SweepKept ==
  sweep # Book!NoSweep =>
    SweepGoes(sweep, Book!AskDepth(prices.book.asks, sweep.limit), prices.ask)

LEMMA SweepConstants ==
  /\ \A l \in Limits : l \in Nat /\ l > 0
  /\ \A m \in ClipSizes : m \in Nat /\ m > 0
  /\ \A b \in Budgets : b \in Nat
  /\ MaxClips \in Nat
  BY FeedsAssumption DEF Book!FeedAssumption

\* What the next clip buys.
LEMMA ClipIs ==
  ASSUME NEW w \in SweepRecord, Upwards(w.left)
  PROVE  /\ Book!ClipFill(w) \in Nat /\ Book!ClipFill(w) <= w.clip
         /\ w.left # <<>> => Book!ClipFill(w) = Book!FillUsd(w.left, w.limit, w.clip)
         /\ w.left = <<>> /\ Book!ClipFill(w) > 0 => prices.ask \in 1 .. w.limit
  <1>a. PICK l, m : l = w.limit /\ m = w.clip
    OBVIOUS
  <1>1. l \in Nat /\ m \in Nat
    BY <1>a, SweepConstants DEF SweepRecord
  <1>2. CASE w.left = <<>>
    <2>1. Book!ClipFill(w) = IF prices.ask \in 1 .. l THEN m ELSE 0
      BY <1>2, <1>a DEF Book!ClipFill, Book!TopFill
    <2> QED BY <1>a, <1>1, <1>2, <2>1
  <1>3. CASE w.left # <<>>
    <2>1. PICK d : d = Book!AskDepth(w.left, l)
      OBVIOUS
    <2>2. d \in Nat /\ Book!FillUsd(w.left, l, m) = Book!Smaller(m, d)
      BY <1>1, <2>1, FillIs
    <2>3. Book!Smaller(m, d) \in Nat /\ Book!Smaller(m, d) <= m
      BY <1>1, <2>2 DEF Book!Smaller
    <2>4. Book!ClipFill(w) = Book!FillUsd(w.left, l, m)
      BY <1>3, <1>a DEF Book!ClipFill
    <2> QED BY <1>a, <1>3, <2>2, <2>3, <2>4
  <1> QED BY <1>2, <1>3

LEMMA OneClipMore ==
  ASSUME NEW n \in Nat, NEW m \in Nat, NEW b \in Nat, NEW f \in Nat,
         100 * b >= 95 * (n * m), b <= n * m, 100 * f >= 95 * m, f <= m
  PROVE  100 * (b + f) >= 95 * ((n + 1) * m) /\ b + f <= (n + 1) * m
  <1>1. PICK q \in Nat : q = n * m
    OBVIOUS
  <1>2. (n + 1) * m = q + m
    BY <1>1
  <1>3. 100 * b >= 95 * q /\ b <= q
    BY <1>1
  <1>4. 100 * (b + f) >= 95 * (q + m) /\ b + f <= q + m
    BY <1>3
  <1> QED BY <1>2, <1>4

LEMMA NextClipGoes ==
  ASSUME NEW w, NEW depth \in Nat, SweepGoes(w, depth, prices.ask), Book!Filled(w)
  PROVE  SweepGoes(Book!AfterClip(w), depth, prices.ask)
  <1>a. PICK x : x = Book!AfterClip(w)
    OBVIOUS
  <1>b. PICK l, m, n, b, f, left : /\ l = w.limit /\ m = w.clip /\ n = w.clips /\ b = w.bought
                                   /\ f = Book!ClipFill(w) /\ left = w.left
    OBVIOUS
  <1>c. PICK after : after = Book!LeftAfter(left, l, m)
    OBVIOUS
  <1>1. w \in SweepRecord /\ Upwards(left) /\ l \in Nat /\ m \in Nat /\ m > 0 /\ n \in Nat /\ b \in Nat
    BY <1>b, SweepConstants DEF SweepGoes, SweepRecord
  <1>2. f \in Nat /\ f <= m
    BY <1>b, <1>1, ClipIs
  <1>3. b + m <= w.budget /\ n < MaxClips /\ 100 * f >= 95 * m /\ f > 0
    BY <1>b, <1>1, <1>2 DEF Book!Filled, Book!MayFill
  <1>4. Upwards(after) /\ Book!AskDepth(after, l) = Book!AskDepth(left, l) - Book!FillUsd(left, l, m)
    BY <1>c, <1>1, LeftIs
  <1>5. x = [w EXCEPT !.left = after, !.clips = n + 1, !.bought = b + f]
    BY <1>a, <1>b, <1>c DEF Book!AfterClip
  <1>6. /\ x.limit = l /\ x.clip = m /\ x.budget = w.budget /\ x.left = after
        /\ x.clips = n + 1 /\ x.bought = b + f
    BY <1>b, <1>1, <1>5 DEF SweepRecord
  <1>7. x \in SweepRecord
    <2>1. after \in Seq(Book!Level) /\ n + 1 \in Nat /\ b + f \in Nat
      BY <1>1, <1>2, <1>4 DEF Upwards
    <2> QED BY <1>1, <1>5, <2>1 DEF SweepRecord
  <1>8. SweepFits(x)
    <2>1. 100 * b >= 95 * (n * m) /\ b <= n * m
      BY <1>b DEF SweepGoes, SweepFits
    <2>2. 100 * (b + f) >= 95 * ((n + 1) * m) /\ b + f <= (n + 1) * m
      BY <1>1, <1>2, <1>3, <2>1, OneClipMore
    <2>3. PICK u : u = w.budget
      OBVIOUS
    <2>4. u \in Nat /\ MaxClips \in Nat
      BY <1>1, <2>3, SweepConstants DEF SweepRecord
    <2>5. b + f <= u /\ n + 1 <= MaxClips
      BY <1>1, <1>2, <1>3, <2>3, <2>4
    <2> QED BY <1>6, <2>2, <2>3, <2>5 DEF SweepFits
  <1>9. SweepTells(x, depth, prices.ask)
    <2>1. PICK d : d = Book!AskDepth(left, l)
      OBVIOUS
    <2>2. d \in Nat
      BY <1>1, <2>1, FillIs
    <2>3. b + d = depth \/ (left = <<>> /\ b > depth /\ prices.ask \in 1 .. l)
      BY <1>b, <2>1 DEF SweepGoes, SweepTells
    <2>4. CASE left # <<>>
      <3>1. f = Book!FillUsd(left, l, m) /\ b + d = depth
        BY <1>b, <1>1, <2>3, <2>4, ClipIs
      <3>2. PICK e : e = Book!AskDepth(after, l)
        OBVIOUS
      <3>3. e = d - f
        BY <1>4, <2>1, <3>1, <3>2
      <3>4. (b + f) + e = depth
        <4>1. b \in Nat /\ f \in Nat /\ d \in Nat /\ b + d = depth /\ e = d - f
          BY <1>1, <1>2, <2>2, <3>1, <3>3
        <4> QED BY <4>1
      <3> QED BY <1>6, <3>2, <3>4 DEF SweepTells
    <2>5. CASE left = <<>>
      <3>1. after = <<>>
        BY <1>c, <2>5, NoneLeft
      <3>2. prices.ask \in 1 .. l
        BY <1>b, <1>1, <1>3, <2>5, ClipIs
      <3>3. b + f > depth
        <4>1. d = 0
          BY <2>1, <2>5, NothingOffered
        <4>2. b \in Nat /\ f \in Nat /\ f > 0 /\ b >= depth
          BY <1>1, <1>2, <1>3, <2>3, <4>1
        <4> QED BY <4>2
      <3> QED BY <1>6, <3>1, <3>2, <3>3 DEF SweepTells
    <2> QED BY <2>4, <2>5
  <1> QED BY <1>a, <1>4, <1>6, <1>7, <1>8, <1>9 DEF SweepGoes

LEMMA SweepStarts ==
  ASSUME BookSorted, NEW l \in Limits, NEW m \in ClipSizes, NEW u \in Budgets,
         NEW w, w = Book!Started(l, m, u)
  PROVE  /\ SweepGoes(w, Book!AskDepth(prices.book.asks, w.limit), prices.ask)
  <1>a. PICK asks : asks = prices.book.asks
    OBVIOUS
  <1>b. PICK d : d = Book!AskDepth(asks, l)
    OBVIOUS
  <1>1. /\ w = [limit |-> l, clip |-> m, budget |-> u, left |-> asks, clips |-> 0, bought |-> 0]
        /\ Upwards(asks)
    BY <1>a DEF Book!Started, BookSorted
  <1>2. w \in SweepRecord
    BY <1>1 DEF SweepRecord, Upwards
  <1>3. l \in Nat /\ m \in Nat /\ u \in Nat /\ MaxClips \in Nat /\ d \in Nat
    BY <1>b, <1>1, SweepConstants, FillIs
  <1>4. 0 <= u /\ 0 <= MaxClips /\ 100 * 0 >= 95 * (0 * m) /\ 0 <= 0 * m /\ 0 + d = d
    BY <1>3
  <1>5. SweepFits(w)
    BY <1>1, <1>4 DEF SweepFits
  <1>6. SweepTells(w, d, prices.ask)
    BY <1>1, <1>b, <1>4 DEF SweepTells
  <1>7. w.limit = l /\ w.left = asks
    BY <1>1
  <1> QED BY <1>a, <1>b, <1>1, <1>2, <1>5, <1>6, <1>7 DEF SweepGoes

\* A sweep has the book for itself: it is begun and ended before the next message.
LEMMA SweepStep ==
  ASSUME BookSorted, SweepKept, Book!Next \/ UNCHANGED bookVars
  PROVE  SweepKept'
  <1>1. CASE UNCHANGED <<prices, sweep>>
    BY <1>1 DEF SweepKept
  <1>2. CASE sweep' = Book!NoSweep
    BY <1>2 DEF SweepKept, Book!NoSweep
  <1>3. CASE Book!BeginSweep
    <2>1. PICK l \in Limits, m \in ClipSizes, u \in Budgets : sweep' = Book!Started(l, m, u)
      BY <1>3 DEF Book!BeginSweep
    <2>2. PICK w : w = sweep'
      OBVIOUS
    <2>3. SweepGoes(w, Book!AskDepth(prices.book.asks, w.limit), prices.ask)
      BY <2>1, <2>2, SweepStarts
    <2>4. prices' = prices
      BY <1>3 DEF Book!BeginSweep
    <2> QED BY <2>2, <2>3, <2>4 DEF SweepKept
  <1>4. CASE Book!NextClip
    <2>1. prices' = prices /\ sweep # Book!NoSweep
          /\ sweep' = IF Book!Filled(sweep) THEN Book!AfterClip(sweep) ELSE Book!NoSweep
      BY <1>4 DEF Book!NextClip
    <2>2. CASE Book!Filled(sweep)
      <3>1. PICK w, l, depth : /\ w = sweep /\ l = sweep.limit
                               /\ depth = Book!AskDepth(prices.book.asks, l)
        OBVIOUS
      <3>2. SweepGoes(w, depth, prices.ask)
        BY <2>1, <3>1 DEF SweepKept
      <3>3. l \in Nat /\ 0 \in Nat /\ Upwards(prices.book.asks)
        BY <3>1, <3>2, SweepConstants DEF SweepGoes, SweepRecord, BookSorted
      <3>4. depth \in Nat
        BY <3>1, <3>3, FillIs
      <3>5. SweepGoes(Book!AfterClip(w), depth, prices.ask)
        BY <2>2, <3>1, <3>2, <3>4, NextClipGoes
      <3>6. Book!AfterClip(w).limit = l
        BY <3>1, <3>2 DEF Book!AfterClip, SweepGoes, SweepRecord
      <3> QED BY <2>1, <2>2, <3>1, <3>5, <3>6 DEF SweepKept
    <2> QED BY <1>2, <2>1, <2>2
  <1>5. CASE Book!PassTime \/ UNCHANGED bookVars
    BY <1>1, <1>2, <1>5 DEF Book!PassTime, bookVars
  <1>6. CASE Book!BookMessage \/ Book!TradeMessage
    <2>1. sweep' = Book!NoSweep
      BY <1>6 DEF Book!BookMessage, Book!TradeMessage
    <2> QED BY <1>2, <2>1
  <1> QED BY <1>3, <1>4, <1>5, <1>6 DEF Book!Next

LEMMA LevelsShared == SweepKept => Book!SweepWithinBudget /\ Book!LevelsFillOnce
  BY DEF SweepKept, SweepGoes, SweepFits, SweepTells, Book!SweepWithinBudget, Book!LevelsFillOnce

-----------------------------------------------------------------------------
(* The spot and its samples                                                *)

LEMMA SeriesConstants ==
  /\ Ms \in Nat \ {0} /\ Boundary \in Nat /\ Begin \in Nat /\ Begin > Boundary
  /\ Boundary >= MaxSampleAge /\ LastInstant >= Begin /\ LastInstant \in Nat
  /\ MaxSamples \in Nat \ {0} /\ MaxSampleAge \in Nat
  /\ Leads \subseteq Nat /\ Steps \subseteq Nat \ {0} /\ SpotPrices \subseteq Nat \ {0}
  BY FeedsAssumption DEF Series!SeriesAssumption

\* A series bounded after a sample still ends in that sample.
LEMMA BoundedEndsSame ==
  ASSUME NEW S, NEW s \in Seq(S), NEW e \in S
  PROVE  /\ Series!Bounded(Append(s, e)) \in Seq(S)
         /\ Len(Series!Bounded(Append(s, e))) \in 1 .. MaxSamples
         /\ Series!Last(Series!Bounded(Append(s, e))) = e
  <1>a. PICK t : t = Append(s, e)
    OBVIOUS
  <1>b. PICK n : n = Len(t)
    OBVIOUS
  <1>c. PICK m : m = IF n > MaxSamples THEN n - MaxSamples + 1 ELSE 1
    OBVIOUS
  <1>d. PICK u : u = SubSeq(t, m, n)
    OBVIOUS
  <1>1. t \in Seq(S) /\ n = Len(s) + 1 /\ t[n] = e /\ Len(s) \in Nat
    BY <1>a, <1>b, AppendProperties, LenProperties
  <1>2. n \in Nat /\ n >= 1 /\ MaxSamples \in Nat /\ MaxSamples >= 1
    BY <1>1, SeriesConstants
  <1>3. m \in Int /\ m >= 1 /\ m <= n /\ n - m + 1 \in 1 .. MaxSamples
    BY <1>2, <1>c
  <1>4. \A i \in m .. n : t[i] \in S
    <2>1. m .. n \subseteq 1 .. Len(t)
      BY <1>b, <1>2, <1>3
    <2> QED BY <1>1, <2>1, ElementOfSeq
  <1>5. /\ u \in Seq(S) /\ Len(u) = n - m + 1
        /\ \A i \in 1 .. n - m + 1 : u[i] = t[m + i - 1]
    BY <1>d, <1>2, <1>3, <1>4, SubSeqProperties
  <1>6. u[Len(u)] = e
    <2>1. u[n - m + 1] = t[m + (n - m + 1) - 1] /\ m + (n - m + 1) - 1 = n
      BY <1>2, <1>3, <1>5
    <2> QED BY <1>1, <1>5, <2>1
  <1>7. Series!Bounded(Append(s, e)) = u
    BY <1>a, <1>b, <1>c, <1>d DEF Series!Bounded
  <1> QED BY <1>3, <1>5, <1>6, <1>7 DEF Series!Last

\* What the proof keeps of the series.
SeriesParts ==
  /\ instant \in Begin .. LastInstant /\ observed \in 0 .. 3
  /\ samples \in Seq(Series!Sample) /\ Len(samples) <= MaxSamples
  /\ \/ spot = Series!NoSpot /\ samples = <<>>
     \/ /\ spot \in [price : SpotPrices, at : Nat, received : Nat]
        /\ samples # <<>>
        /\ spot.at = Series!Last(samples).at /\ spot.price = Series!Last(samples).price
        /\ spot.received - spot.at <= MaxSampleAge /\ spot.received <= instant

\* Signals need a fresh spot, and samples.
LEMMA SeriesFromParts == SeriesParts => Series!SeriesInv
  <1> SUFFICES ASSUME SeriesParts PROVE Series!SeriesInv
    OBVIOUS
  <1>1. CASE spot = Series!NoSpot /\ samples = <<>>
    <2>1. Series!TypeOK
      BY <1>1 DEF SeriesParts, Series!TypeOK
    <2>2. Series!NoSpot.price = 0
      BY DEF Series!NoSpot
    <2>3. ~Series!Fresh
      BY <1>1, <2>2 DEF Series!Fresh
    <2>4. Series!Signals.raw = <<>>
      BY <2>3 DEF Series!Signals
    <2> QED BY <1>1, <2>1, <2>4 DEF Series!SeriesInv, Series!SpotIsLastSample,
                                    Series!SpotWasRecent, Series!VelocityIsRecent
  <1>2. CASE ~(spot = Series!NoSpot /\ samples = <<>>)
    <2>1. /\ spot \in [price : SpotPrices, at : Nat, received : Nat]
          /\ samples # <<>>
          /\ spot.at = Series!Last(samples).at /\ spot.price = Series!Last(samples).price
          /\ spot.received - spot.at <= MaxSampleAge /\ spot.received <= instant
      BY <1>2 DEF SeriesParts
    <2>2. Series!TypeOK
      BY <2>1 DEF SeriesParts, Series!TypeOK
    <2>3. Series!SpotIsLastSample /\ Series!SpotWasRecent
      BY <2>1 DEF Series!SpotIsLastSample, Series!SpotWasRecent
    <2>4. ASSUME Series!Signals.raw # <<>>
          PROVE  instant - Series!Last(samples).at <= 2 * MaxSampleAge
      <3>1. Series!Fresh
        BY <2>4 DEF Series!Signals
      <3>2. PICK at, taken : at = spot.at /\ taken = spot.received
        OBVIOUS
      <3>3. at \in Nat /\ taken \in Nat
        BY <2>1, <3>2
      <3>4. instant - taken <= MaxSampleAge
        BY <3>1, <3>2 DEF Series!Fresh
      <3>5. taken - at <= MaxSampleAge /\ at = Series!Last(samples).at
        BY <2>1, <3>2
      <3>6. instant \in Nat /\ MaxSampleAge \in Nat
        BY SeriesConstants DEF SeriesParts
      <3>7. instant - at <= 2 * MaxSampleAge
        BY <3>3, <3>4, <3>5, <3>6
      <3> QED BY <3>5, <3>7
    <2> QED BY <2>2, <2>3, <2>4 DEF Series!SeriesInv, Series!VelocityIsRecent
  <1> QED BY <1>1, <1>2

LEMMA SeriesStart == Series!Init => SeriesParts
  <1> SUFFICES ASSUME Series!Init PROVE SeriesParts
    OBVIOUS
  <1>1. instant \in Begin .. LastInstant /\ observed \in 0 .. 3
    BY SeriesConstants DEF Series!Init
  <1>2. <<>> \in Seq(Series!Sample) /\ Len(<<>>) <= MaxSamples
    BY SeriesConstants
  <1> QED BY <1>1, <1>2 DEF Series!Init, SeriesParts

\* A payload that is taken is newer than the last, so the series takes it too.
LEMMA SpotTaken ==
  ASSUME SeriesParts, NEW stamp \in Int, NEW price \in SpotPrices,
         Series!SpotTick(stamp, price)
  PROVE  SeriesParts'
  <1>a. PICK at : at = Series!Normalized(stamp)
    OBVIOUS
  <1>1. at \in Int
    <2>1. stamp * Ms \in Int
      BY SeriesConstants
    <2> QED BY <1>a, <2>1 DEF Series!Normalized
  <1>2. /\ spot' = [price |-> price, at |-> at, received |-> instant]
        /\ instant' = instant /\ ~Series!Refused(at) /\ Series!Observe(at, price)
    BY <1>a DEF Series!SpotTick
  <1>3. instant \in Nat /\ instant >= Begin /\ instant - at <= MaxSampleAge
        /\ (spot.at # -1 => at > spot.at)
    <2>1. instant \in Begin .. LastInstant
      BY DEF SeriesParts
    <2>2. ~(instant - at > MaxSampleAge) /\ ~(spot.at # -1 /\ at <= spot.at)
      BY <1>2 DEF Series!Refused
    <2>3. spot.at \in Int
      <3>1. CASE spot = Series!NoSpot
        BY <3>1 DEF Series!NoSpot
      <3>2. CASE spot # Series!NoSpot
        BY <3>2 DEF SeriesParts
      <3> QED BY <3>1, <3>2
    <2>4. PICK last : last = spot.at
      OBVIOUS
    <2>5. last \in Int /\ ~(last # -1 /\ at <= last)
      BY <2>2, <2>3, <2>4
    <2>6. last # -1 => at > last
      BY <1>1, <2>5
    <2>7. instant \in Nat /\ instant >= Begin /\ instant - at <= MaxSampleAge
      BY <1>1, <2>1, <2>2, SeriesConstants
    <2> QED BY <2>4, <2>6, <2>7
  <1>4. at \in Nat
    BY <1>1, <1>3, SeriesConstants
  <1>5. [at |-> at, price |-> price] \in Series!Sample
    BY <1>4 DEF Series!Sample
  <1>6. ~(samples # <<>> /\ at <= Series!Last(samples).at)
    <2>1. SUFFICES ASSUME samples # <<>> PROVE ~(at <= Series!Last(samples).at)
      OBVIOUS
    <2>2. spot \in [price : SpotPrices, at : Nat, received : Nat]
          /\ spot.at = Series!Last(samples).at
      BY <2>1 DEF SeriesParts
    <2>3. PICK last : last = spot.at
      OBVIOUS
    <2>4. last \in Nat
      BY <2>2, <2>3
    <2>5. at > last
      BY <1>3, <2>3, <2>4
    <2>6. ~(at <= last)
      BY <1>4, <2>4, <2>5
    <2> QED BY <2>2, <2>3, <2>6
  <1>7. /\ samples' = Series!Bounded(Append(samples, [at |-> at, price |-> price]))
        /\ observed' = IF observed = 3 THEN 3 ELSE observed + 1
    BY <1>2, <1>6 DEF Series!Observe
  <1>8. /\ samples' \in Seq(Series!Sample) /\ Len(samples') \in 1 .. MaxSamples
        /\ Series!Last(samples') = [at |-> at, price |-> price]
    <2>1. samples \in Seq(Series!Sample)
      BY DEF SeriesParts
    <2> QED BY <1>5, <1>7, <2>1, BoundedEndsSame
  <1>9. samples' # <<>> /\ Len(samples') <= MaxSamples
    <2>1. Len(<<>>) = 0
      OBVIOUS
    <2>2. Len(samples') # 0 /\ Len(samples') <= MaxSamples
      BY <1>8, SeriesConstants
    <2> QED BY <2>1, <2>2
  <1>10. observed' \in 0 .. 3
    <2>1. observed \in 0 .. 3
      BY DEF SeriesParts
    <2> QED BY <1>7, <2>1
  <1>11. spot' \in [price : SpotPrices, at : Nat, received : Nat]
    BY <1>2, <1>3, <1>4
  <1>12. /\ spot'.at = Series!Last(samples').at /\ spot'.price = Series!Last(samples').price
         /\ spot'.received - spot'.at <= MaxSampleAge /\ spot'.received <= instant'
    <2>1. spot'.at = at /\ spot'.price = price /\ spot'.received = instant
      BY <1>2
    <2>2. Series!Last(samples').at = at /\ Series!Last(samples').price = price
      BY <1>8
    <2>3. instant - at <= MaxSampleAge /\ instant <= instant
      BY <1>3
    <2> QED BY <1>2, <2>1, <2>2, <2>3
  <1>13. instant' \in Begin .. LastInstant
    BY <1>2 DEF SeriesParts
  <1> QED BY <1>8, <1>9, <1>10, <1>11, <1>12, <1>13 DEF SeriesParts, Series!Last

LEMMA SeriesStep ==
  ASSUME SeriesParts, Series!Next \/ UNCHANGED seriesVars
  PROVE  SeriesParts'
  <1>1. CASE Series!PassTime
    <2>1. PICK step \in Steps : instant' = instant + step /\ instant' <= LastInstant
      BY <1>1 DEF Series!PassTime
    <2>2. instant \in Begin .. LastInstant
      BY DEF SeriesParts
    <2>3. instant' \in Begin .. LastInstant /\ instant <= instant'
      BY <2>1, <2>2, SeriesConstants
    <2>4. spot' = spot /\ samples' = samples /\ observed' = observed
      BY <1>1 DEF Series!PassTime
    <2>5. CASE spot = Series!NoSpot /\ samples = <<>>
      BY <2>3, <2>4, <2>5 DEF SeriesParts
    <2>6. CASE ~(spot = Series!NoSpot /\ samples = <<>>)
      <3>1. /\ spot \in [price : SpotPrices, at : Nat, received : Nat]
            /\ samples # <<>>
            /\ spot.at = Series!Last(samples).at /\ spot.price = Series!Last(samples).price
            /\ spot.received - spot.at <= MaxSampleAge /\ spot.received <= instant
        BY <2>6 DEF SeriesParts
      <3>2. PICK taken : taken = spot.received
        OBVIOUS
      <3>3. taken \in Nat /\ taken <= instant
        BY <3>1, <3>2
      <3>4. taken <= instant'
        BY <2>2, <2>3, <3>3, SeriesConstants
      <3>5. spot.received <= instant'
        BY <3>2, <3>4
      <3> QED BY <2>3, <2>4, <3>1, <3>5 DEF SeriesParts, Series!Last
    <2> QED BY <2>5, <2>6
  <1>2. ASSUME NEW lead \in Leads, NEW price \in SpotPrices,
               \/ Series!SpotTick(instant - lead, price)
               \/ Series!SpotTick(instant + lead, price)
               \/ Series!SpotTick((instant - lead) \div Ms, price)
        PROVE  SeriesParts'
    <2>1. lead \in Int /\ instant \in Int
      BY SeriesConstants DEF SeriesParts
    <2>2. instant - lead \in Int /\ instant + lead \in Int
      BY <2>1
    <2>3. PICK back : back = instant - lead
      OBVIOUS
    <2>4. back \div Ms \in Int
      BY <2>2, <2>3, SeriesConstants
    <2> QED BY <1>2, <2>2, <2>3, <2>4, SpotTaken
  <1>3. CASE UNCHANGED seriesVars
    BY <1>3 DEF seriesVars, SeriesParts, Series!Last
  <1> QED BY <1>1, <1>2, <1>3 DEF Series!Next

-----------------------------------------------------------------------------
(* The feeds                                                               *)

FeedsParts ==
  /\ stream = "cross"  => TrackerParts
  /\ stream = "book"   => BookParts /\ BookSorted /\ SweepKept
  /\ stream = "series" => SeriesParts

\* In every reachable state of each of the three feeds, its inductive invariant holds.
LEMMA FeedsKept == FeedsSpec => []FeedsParts
  <1>1. FeedsInit => FeedsParts
    <2> SUFFICES ASSUME FeedsInit PROVE FeedsParts
      OBVIOUS
    <2>1. CASE stream = "cross" /\ Cross!Init
      BY <2>1, TrackerStart DEF FeedsParts
    <2>2. CASE stream = "book" /\ Book!Init
      BY <2>2, BookStart, BookOrdered DEF FeedsParts, SweepKept, Book!Init
    <2>3. CASE stream = "series" /\ Series!Init
      BY <2>3, SeriesStart DEF FeedsParts
    <2> QED BY <2>1, <2>2, <2>3 DEF FeedsInit
  <1>2. FeedsParts /\ [FeedsNext]_feedsVars => FeedsParts'
    <2> SUFFICES ASSUME FeedsParts, [FeedsNext]_feedsVars PROVE FeedsParts'
      OBVIOUS
    <2>1. /\ stream' = stream
          /\ stream = "cross"  => Cross!Next \/ UNCHANGED crossVars
          /\ stream = "book"   => Book!Next \/ UNCHANGED bookVars
          /\ stream = "series" => Series!Next \/ UNCHANGED seriesVars
      BY DEF FeedsNext, feedsVars
    <2>2. stream = "cross" => TrackerParts'
      BY <2>1, TrackerStep DEF FeedsParts
    <2>3. stream = "book" => BookParts' /\ BookSorted' /\ SweepKept'
      BY <2>1, BookStep, BookOrdered, SweepStep DEF FeedsParts
    <2>4. stream = "series" => SeriesParts'
      BY <2>1, SeriesStep DEF FeedsParts
    <2> QED BY <2>1, <2>2, <2>3, <2>4 DEF FeedsParts
  <1> QED BY <1>1, <1>2, PTL DEF FeedsSpec

\* Whatever the books, trades, payloads and limits: the tracker's counts are those of
\* all leads it was shown (MidCrossTracker::observe_tick), the tape keeps no more than
\* its window (SideTape::record), no book is crossed after a trade, and no velocity is
\* given of samples that are old (SpotSeries, the SpotTick handler).
THEOREM FeedsAreKept == FeedsSpec => []FeedsInv
  <1>1. FeedsParts => FeedsInv
    <2> SUFFICES ASSUME FeedsParts PROVE FeedsInv
      OBVIOUS
    <2>1. stream = "cross" => Cross!TypeOK /\ Cross!CountsMatchHistory
      BY TrackedKnown DEF FeedsParts, Cross!TrackerInv
    <2>2. stream = "book" => Book!TypeOK /\ Book!TapeStaysShort /\ Book!SpreadStaysOpen
      BY DEF FeedsParts, BookParts, Book!TapeInv
    <2>3. stream = "series" =>
            Series!TypeOK /\ Series!SpotIsLastSample /\ Series!VelocityIsRecent
      BY SeriesFromParts DEF FeedsParts, Series!SeriesInv
    <2> QED BY <2>1, <2>2, <2>3 DEF FeedsInv
  <1> QED BY <1>1, FeedsKept, PTL

\* A tape pruned only when a print comes, and only from the front, still tells at every
\* moment what was bought in its window, however long the window and the session
\* (SideTape::snapshot).
THEOREM TapeTellsItsWindow == FeedsSpec => []SnapshotIsExact
  <1>1. FeedsParts => SnapshotIsExact
    BY TapeIsExact DEF FeedsParts, SnapshotIsExact
  <1> QED BY <1>1, FeedsKept, PTL

\* Whatever levels the books list, and whatever the limit, the amount and the number of
\* the clips: what the clips of a sweep have bought (sweep_endgame_clips) and what the
\* levels left offer (apply_fill_to_asks) make up the depth there was, and more is
\* bought only once no level is left, off the quote (simulate_taker_buy_fill).  The
\* sweep stays within its budget, and the levels are listed from the best one (sort_asks).
THEOREM SweepsFillLevelsOnce == FeedsSpec => []LevelsFillOnce
  <1>1. FeedsParts => LevelsFillOnce
    BY BookOrdered, LevelsShared DEF FeedsParts, LevelsFillOnce
  <1> QED BY <1>1, FeedsKept, PTL

\* Whatever the course of the market, the order its books come in, the prices between
\* them and the snapshots that fail: the tracker counts no cross the market did not make,
\* but for two to each disturbed tick (MidCrossTracker::observe_tick).
THEOREM CrossesAlwaysExplained == FeedsSpec => []CrossesExplained
  <1> DEFINE OnCourse == stream = "cross" => CourseParts
  <1>1. FeedsInit => OnCourse
    BY CourseStart DEF FeedsInit
  <1>2. FeedsParts /\ OnCourse /\ [FeedsNext]_feedsVars => OnCourse'
    <2> SUFFICES ASSUME FeedsParts, OnCourse, [FeedsNext]_feedsVars PROVE OnCourse'
      OBVIOUS
    <2>1. stream' = stream /\ (stream = "cross" => Cross!Next \/ UNCHANGED crossVars)
      BY DEF FeedsNext, feedsVars
    <2>2. stream = "cross" => CourseParts'
      BY <2>1, CourseStep DEF FeedsParts
    <2> QED BY <2>1, <2>2
  <1>3. FeedsParts /\ OnCourse => CrossesExplained
    BY CourseBounds DEF FeedsParts, CrossesExplained
  <1> HIDE DEF OnCourse
  <1> QED BY <1>1, <1>2, <1>3, FeedsKept, PTL DEF FeedsSpec

=============================================================================

------------------------- MODULE TraceProcess_proofs -------------------------
(***************************************************************************)
(* ProcessInv is an inductive invariant of the program.  From it follow,   *)
(* for every network and every moment of a first and a second Ctrl-C: the  *)
(* exit code tells the outcome, sockets are released, and an interrupted   *)
(* measurement is still shown.                                             *)
(***************************************************************************)
EXTENDS TraceProcess, RawBackend_proofs

-----------------------------------------------------------------------------
(* What an exception of the backend makes of it.                           *)

(* A step of the backend alone keeps its own invariant.                    *)
LEMMA BackendStep ==
  ASSUME ProcessInv, [Next]_backendVars
  PROVE  BackendInv'
BY StepKeepsInv DEF ProcessInv

(* The batch under way is of the protocol of the trace.                    *)
LEMMA ProtocolKept ==
  ASSUME ProcessInv,
         \/ \E b \in Batches : Ask(b)
         \/ specs' \in {specs, <<>>} /\ protocol' = protocol
  PROVE  AskedProtocol' /\ protocol' = protocol
<1>1. CASE specs' \in {specs, <<>>} /\ protocol' = protocol
  BY <1>1, NothingKept DEF ProcessInv, AskedProtocol
<1>2. CASE \E b \in Batches : Ask(b)
  <2>1. PICK b \in Batches : Ask(b)
    BY <1>2
  <2>2. /\ specs' = b /\ protocol' = protocol /\ b[1].flow.proto = protocol
    BY <2>1 DEF Ask
  <2> QED BY <2>2, ProtocolAssumption DEF AskedProtocol
<1> QED BY <1>1, <1>2

(* An answer kept of a finished batch comes from the target.               *)
LEMMA ArrivalsFromTarget ==
  ASSUME ProcessInv, Finish
  PROVE  \A e \in Arrivals(result') : FromTarget(e)
<1> SUFFICES ASSUME NEW e \in Arrivals(result') PROVE FromTarget(e)
  OBVIOUS
<1>1. PICK i \in DOMAIN result' : e = result'[i] /\ e.kind = "destination"
  BY DEF Arrivals
<1>2. /\ DOMAIN result' = 1..Len(outstanding)
      /\ DOMAIN outstanding = 1..Len(outstanding)
      /\ result'[i] = IF outstanding[i].id \in DOMAIN observations
                      THEN observations[outstanding[i].id] ELSE NoReply
  <2>1. outstanding \in Seq(flying)
    BY DEF ProcessInv, BackendInv, BatchInOrder
  <2> QED BY <1>1, <2>1 DEF Finish
<1>3. outstanding[i].id \in DOMAIN observations /\ e = observations[outstanding[i].id]
  BY <1>1, <1>2 DEF NoReply
<1>4. Contract!Truthful(e, probeCount - Len(outstanding), i, specs)
  BY <1>1, <1>2, <1>3 DEF ProcessInv, BackendInv, KeptTruthful
<1>5. i \in DOMAIN specs
  <2>1. pc = "wait"
    BY DEF Finish
  <2>2. Len(outstanding) = Len(specs)
    BY <2>1 DEF ProcessInv, BackendInv, BatchInOrder
  <2>3. specs \in Batches \cup {<<>>}
    BY DEF ProcessInv, BackendInv, BackendTypeOK
  <2>4. specs \in Seq(SpecShape)
    <3>1. CASE specs = <<>>
      BY <3>1
    <3>2. CASE specs \in Batches
      BY <3>2, BatchAssumption
    <3> QED BY <2>3, <3>1, <3>2
  <2> QED BY <1>1, <1>2, <2>2, <2>4
<1>6. specs[i].flow.proto = protocol
  BY <1>5 DEF ProcessInv, AskedProtocol
<1>7. CASE Contract!Chance(e)
  BY <1>7 DEF FromTarget
<1>8. CASE Contract!Genuine(e, probeCount - Len(outstanding) + i, specs[i])
  <2>1. /\ e.cause.session = Session /\ e.cause.ttl = specs[i].ttl
        /\ \E end \in Network[specs[i].ttl] :
             e.who = end.who /\ e.kind = Contract!Meaning(end.how, specs[i].flow.proto)
    BY <1>8 DEF Contract!Genuine
  <2> QED BY <1>1, <1>6, <2>1 DEF FromTarget, Meaning, Contract!Meaning
<1> QED BY <1>1, <1>4, <1>7, <1>8 DEF Contract!Truthful

-----------------------------------------------------------------------------
(* Each step keeps ProcessInv.                                             *)

(* The program starts with no socket and no verdict.                       *)
LEMMA ProcessInitially == ProcessInit => ProcessInv
<1> SUFFICES ASSUME ProcessInit PROVE ProcessInv
  OBVIOUS
<1>1. BackendInv
  BY InitiallyInv DEF ProcessInit
<1>2. AskedProtocol
  BY NothingKept DEF ProcessInit, Init, AskedProtocol
<1>3. StageInv
  BY DEF ProcessInit, Init, StageInv, InRun, AfterRun, Leaving
<1>4. OutcomeInv /\ SocketsReleased /\ \A e \in arrivals : FromTarget(e)
  BY DEF ProcessInit, OutcomeInv, Leaving, SocketsReleased, Exited
<1> QED BY <1>1, <1>2, <1>3, <1>4 DEF ProcessInv

(* Steps within the program: main has not decided how to leave.            *)
LEMMA WithinKeepsInv ==
  ASSUME ProcessInv, BackendInv', AskedProtocol', StageInv', stage' \notin Leaving,
         protocol' = protocol, \A e \in arrivals' : FromTarget(e)
  PROVE  ProcessInv'
<1>1. OutcomeInv' /\ SocketsReleased'
  BY DEF OutcomeInv, SocketsReleased, Exited, Leaving
<1>2. (\A e \in arrivals : FromTarget(e))'
  BY DEF FromTarget, Contract!Chance
<1> QED BY <1>1, <1>2 DEF ProcessInv

(* Steps that leave: an exit code is set.                                  *)
LEMMA LeavingKeepsInv ==
  ASSUME ProcessInv, BackendInv', AskedProtocol', StageInv', stage' = "leaving",
         protocol' = protocol, arrivals' = arrivals, OutcomeInv'
  PROVE  ProcessInv'
<1>1. SocketsReleased'
  BY DEF SocketsReleased, Exited
<1>2. (\A e \in arrivals : FromTarget(e))'
  BY DEF ProcessInv, FromTarget, Contract!Chance
<1> QED BY <1>1, <1>2 DEF ProcessInv

(* What main does on its own leaves the backend as it is.                  *)
LEMMA QuietBackend ==
  ASSUME ProcessInv, UNCHANGED backendVars
  PROVE  /\ BackendInv' /\ AskedProtocol' /\ protocol' = protocol /\ sockets' = sockets
         /\ error' = error /\ pc' = pc
<1>1. BackendInv'
  BY BackendStep
<1>2. /\ specs' = specs /\ protocol' = protocol /\ sockets' = sockets /\ error' = error
      /\ pc' = pc
  BY DEF backendVars, lifecycle, batch
<1> QED BY <1>1, <1>2, ProtocolKept

(* What an exception of the backend makes the exit code.                   *)
LEMMA RaisedCode ==
  ASSUME NEW e \in {"PrivilegeError", "BackendError", "AssertionError", "OSError"},
         Raise(e)
  PROVE  /\ error' = e /\ specs' = <<>>
         /\ CodeOf(error') = 1 => error' = "AssertionError"
         /\ CodeOf(error') = 3 => error' = "PrivilegeError"
         /\ CodeOf(error') \in {1, 2, 3}
BY DEF Raise, CodeOf

(* Leaving with a code, before a result was there.                         *)
LEMMA CodeWithoutResult ==
  ASSUME ProcessInv, stage \notin Leaving, stage' = "leaving",
         pressed' = pressed, printed' = printed,
         pressed = {} \/ exit' = 2, exit' \in {1, 2, 3},
         exit' = 1 => error' = "AssertionError", exit' = 3 => error' = "PrivilegeError"
  PROVE  OutcomeInv'
<1>1. ~printed
  BY DEF ProcessInv, StageInv
<1>2. Verdict'
  BY <1>1 DEF Verdict
<1> QED BY <1>2 DEF OutcomeInv

(* A configuration is refused before there is a socket.                    *)
LEMMA RejectKeeps == ProcessInv /\ Reject => ProcessInv'
<1> SUFFICES ASSUME ProcessInv, Reject PROVE ProcessInv'
  OBVIOUS
<1>1. /\ stage = "checking" /\ stage' = "leaving" /\ exit' = 2
      /\ UNCHANGED <<backendVars, held, arrivals, control, interrupted, printed, pressed>>
  BY DEF Reject, Leave, CodeOf
<1>2. /\ BackendInv' /\ AskedProtocol' /\ protocol' = protocol /\ sockets' = sockets
  BY <1>1, QuietBackend
<1>3. StageInv'
  BY <1>1, <1>2 DEF ProcessInv, StageInv, InRun, AfterRun, Leaving
<1>4. OutcomeInv'
  BY <1>1, CodeWithoutResult DEF Leaving
<1> QED BY <1>1, <1>2, <1>3, <1>4, LeavingKeepsInv

(* The constructor is called.                                              *)
LEMMA AcceptKeeps == ProcessInv /\ Accept => ProcessInv'
<1> SUFFICES ASSUME ProcessInv, Accept PROVE ProcessInv'
  OBVIOUS
<1>1. /\ stage = "checking" /\ stage' = "opening"
      /\ UNCHANGED <<backendVars, held, arrivals, control, interrupted, printed, pressed>>
  BY DEF Accept
<1>2. /\ BackendInv' /\ AskedProtocol' /\ protocol' = protocol
  BY <1>1, QuietBackend
<1>3. StageInv'
  BY <1>1 DEF ProcessInv, StageInv, InRun, AfterRun, Leaving
<1> QED BY <1>1, <1>2, <1>3, WithinKeepsInv DEF ProcessInv, Leaving

(* main holds its backend once all sockets are open.                       *)
LEMMA ConstructKeeps == ProcessInv /\ Construct => ProcessInv'
<1> SUFFICES ASSUME ProcessInv, Construct PROVE ProcessInv'
  OBVIOUS
<1>1. /\ stage = "opening" /\ OpenSocket /\ held' = (pc' = "idle")
      /\ stage' = (IF held' THEN "measuring" ELSE "opening")
      /\ UNCHANGED <<arrivals, control, interrupted, printed, exit, pressed>>
  BY DEF Construct
<1>2. BackendInv'
  BY <1>1, BackendStep DEF Next
<1>3. specs' = specs /\ protocol' = protocol
  BY <1>1 DEF OpenSocket, batch
<1>4. StageInv'
  BY <1>1 DEF ProcessInv, StageInv, InRun, AfterRun, Leaving
<1>5. stage' \notin Leaving
  BY <1>1 DEF Leaving
<1> QED BY <1>1, <1>2, <1>3, <1>4, <1>5, ProtocolKept, WithinKeepsInv DEF ProcessInv

(* A constructor that fails has closed its sockets.                        *)
LEMMA ConstructFailsKeeps == ProcessInv /\ ConstructFails => ProcessInv'
<1> SUFFICES ASSUME ProcessInv, ConstructFails PROVE ProcessInv'
  OBVIOUS
<1>1. /\ stage = "opening" /\ OpenFails /\ stage' = "leaving" /\ exit' = CodeOf(error')
      /\ UNCHANGED <<held, arrivals, control, interrupted, printed, pressed>>
  BY DEF ConstructFails, Leave
<1>2. PICK e \in {"PrivilegeError", "BackendError"} : Raise(e)
  BY <1>1 DEF OpenFails
<1>3. BackendInv'
  BY <1>1, BackendStep DEF Next
<1>4. protocol' = protocol /\ sockets' = {} /\ specs' = <<>>
  BY <1>1, <1>2, RaisedCode DEF OpenFails
<1>5. StageInv'
  BY <1>1, <1>4 DEF ProcessInv, StageInv, InRun, AfterRun, Leaving
<1>6. OutcomeInv'
  <2>1. pressed = {} /\ stage \notin Leaving
    BY <1>1 DEF ProcessInv, StageInv, Leaving
  <2> QED BY <1>1, <1>2, <2>1, RaisedCode, CodeWithoutResult
<1> QED BY <1>1, <1>3, <1>4, <1>5, <1>6, ProtocolKept, LeavingKeepsInv

(* The try block of run.                                                   *)
LEMMA RunKeeps ==
  ASSUME ProcessInv, Measure \/ ClockTicks \/ Learn
  PROVE  ProcessInv'
<1>1. /\ stage = "measuring" /\ stage' = stage
      /\ UNCHANGED <<held, control, interrupted, printed, exit, pressed>>
  BY DEF Measure, ClockTicks, Learn, mainVars
<1>2. /\ [Next]_backendVars
      /\ \/ \E b \in Batches : Ask(b)
         \/ SendProbe \/ Select \/ Receive \/ TimePasses \/ Finish
  BY DEF Measure, ClockTicks, Learn, Next, Deliver
<1>3. BackendInv'
  BY <1>2, BackendStep
<1>4. AskedProtocol' /\ protocol' = protocol
  BY <1>2, ProtocolKept DEF SendProbe, Select, Receive, TimePasses, Finish, lifecycle
<1>5. \A e \in arrivals' : FromTarget(e)
  <2>1. CASE Learn
    BY <2>1, ArrivalsFromTarget DEF Learn, ProcessInv
  <2>2. CASE Measure \/ ClockTicks
    BY <2>2 DEF Measure, ClockTicks, mainVars, ProcessInv
  <2> QED BY <2>1, <2>2
<1>6. StageInv'
  BY <1>1 DEF ProcessInv, StageInv, InRun, AfterRun, Leaving
<1> QED BY <1>1, <1>3, <1>4, <1>5, <1>6, WithinKeepsInv DEF Leaving

(* run leaves its try block.                                               *)
LEMMA RunEndsKeeps ==
  ASSUME ProcessInv, Measured \/ RunControl
  PROVE  ProcessInv'
<1>1. /\ stage \in InRun /\ stage' \in {"control", "reporting"}
      /\ UNCHANGED <<backendVars, held, arrivals, interrupted, printed, pressed>>
  BY DEF Measured, RunControl, InRun
<1>2. /\ BackendInv' /\ AskedProtocol' /\ protocol' = protocol
  BY <1>1, QuietBackend
<1>3. StageInv'
  BY <1>1 DEF ProcessInv, StageInv, InRun, AfterRun, Leaving
<1> QED BY <1>1, <1>2, <1>3, WithinKeepsInv DEF ProcessInv, Leaving

(* run catches Ctrl-C in its try block.                                    *)
LEMMA InterruptRunKeeps == ProcessInv /\ InterruptRun => ProcessInv'
<1> SUFFICES ASSUME ProcessInv, InterruptRun PROVE ProcessInv'
  OBVIOUS
<1>1. /\ stage \in InRun /\ stage' = "reporting" /\ interrupted' = TRUE
      /\ pressed' = pressed \cup {stage}
      /\ Interrupted \/ UNCHANGED backendVars
      /\ UNCHANGED <<held, arrivals, printed>>
  BY DEF InterruptRun, InRun
<1>2. BackendInv'
  BY <1>1, BackendStep DEF Next
<1>3. AskedProtocol' /\ protocol' = protocol
  <2>1. CASE Interrupted
    BY <2>1, ProtocolKept DEF Interrupted, Raise
  <2>2. CASE UNCHANGED backendVars
    BY <2>2, QuietBackend
  <2> QED BY <1>1, <2>1, <2>2
<1>4. StageInv'
  BY <1>1 DEF ProcessInv, StageInv, InRun, AfterRun, Leaving
<1> QED BY <1>1, <1>2, <1>3, <1>4, WithinKeepsInv DEF ProcessInv, Leaving

(* Other exceptions pass run and reach main.                               *)
LEMMA RunFailsKeeps ==
  ASSUME ProcessInv, MeasuringFails \/ ControlFails
  PROVE  ProcessInv'
<1>1. /\ stage \in InRun /\ stage' = "leaving"
      /\ UNCHANGED <<held, arrivals, interrupted, printed, pressed>>
  BY DEF MeasuringFails, ControlFails, Leave, InRun
<1>2. held /\ pressed = {} /\ stage \notin Leaving
  BY <1>1 DEF ProcessInv, StageInv, InRun, Leaving
<1>3. StageInv'
  BY <1>1, <1>2 DEF ProcessInv, StageInv, InRun, AfterRun, Leaving
<1>4. CASE MeasuringFails
  <2>1. /\ LateSocketFails \/ SendFails \/ ReceiveFails
        /\ exit' = CodeOf(error')
    BY <1>4 DEF MeasuringFails, Leave
  <2>2. PICK e \in {"BackendError", "AssertionError", "OSError"} : Raise(e)
    BY <2>1 DEF LateSocketFails, SendFails, ReceiveFails
  <2>3. BackendInv'
    BY <2>1, BackendStep DEF Next
  <2>4. protocol' = protocol /\ specs' = <<>>
    BY <2>1, <2>2, RaisedCode DEF LateSocketFails, SendFails, ReceiveFails
  <2>5. OutcomeInv'
    BY <1>1, <1>2, <2>1, <2>2, RaisedCode, CodeWithoutResult
  <2> QED BY <1>1, <1>3, <2>3, <2>4, <2>5, ProtocolKept, LeavingKeepsInv
<1>5. CASE ControlFails
  <2>1. exit' = 2 /\ UNCHANGED backendVars
    BY <1>5 DEF ControlFails, Leave, CodeOf
  <2>2. OutcomeInv'
    BY <1>1, <1>2, <2>1, CodeWithoutResult
  <2> QED BY <1>1, <1>3, <2>1, <2>2, QuietBackend, LeavingKeepsInv
<1> QED BY <1>4, <1>5

(* run closes the backend before it returns.                               *)
LEMMA FinalizeKeeps == ProcessInv /\ Finalize => ProcessInv'
<1> SUFFICES ASSUME ProcessInv, Finalize PROVE ProcessInv'
  OBVIOUS
<1>1. /\ stage = "reporting" /\ stage' = "printing" /\ Close
      /\ UNCHANGED <<held, arrivals, interrupted, printed, pressed>>
  BY DEF Finalize
<1>2. BackendInv'
  BY <1>1, BackendStep DEF Next
<1>3. AskedProtocol' /\ protocol' = protocol
  BY <1>1, ProtocolKept DEF Close, batch
<1>4. StageInv'
  BY <1>1 DEF ProcessInv, StageInv, InRun, AfterRun, Leaving
<1> QED BY <1>1, <1>2, <1>3, <1>4, WithinKeepsInv DEF ProcessInv, Leaving

(* The exit code is taken from the result printed.                         *)
LEMMA PrintResultKeeps == ProcessInv /\ PrintResult => ProcessInv'
<1> SUFFICES ASSUME ProcessInv, PrintResult PROVE ProcessInv'
  OBVIOUS
<1>1. /\ stage = "printing" /\ stage' = "leaving" /\ printed' = TRUE
      /\ exit' = (IF interrupted THEN 130 ELSE IF arrivals # {} THEN 0 ELSE 1)
      /\ UNCHANGED <<backendVars, held, arrivals, interrupted, pressed>>
  BY DEF PrintResult, Leave, reached
<1>2. /\ BackendInv' /\ AskedProtocol' /\ protocol' = protocol
  BY <1>1, QuietBackend
<1>3. StageInv'
  BY <1>1 DEF ProcessInv, StageInv, InRun, AfterRun, Leaving
<1>4. interrupted <=> pressed # {}
  BY <1>1 DEF ProcessInv, StageInv, AfterRun
<1>5. exit' = 0 => \E e \in arrivals : FromTarget(e)
  BY <1>1 DEF ProcessInv
<1>6. (\E e \in arrivals : FromTarget(e)) => (\E e \in arrivals : FromTarget(e))'
  BY <1>1, <1>2 DEF FromTarget, Contract!Chance
<1>7. Verdict'
  <2>1. CASE interrupted
    BY <1>1, <1>4, <2>1 DEF Verdict
  <2>2. CASE ~interrupted /\ arrivals # {}
    BY <1>1, <1>4, <1>5, <1>6, <2>2 DEF Verdict
  <2>3. CASE ~interrupted /\ arrivals = {}
    BY <1>1, <1>4, <2>3 DEF Verdict
  <2> QED BY <2>1, <2>2, <2>3
<1>8. OutcomeInv'
  BY <1>1, <1>7 DEF OutcomeInv
<1> QED BY <1>1, <1>2, <1>3, <1>8, LeavingKeepsInv

(* Printing fails.                                                         *)
LEMMA PrintFailsKeeps == ProcessInv /\ PrintFails => ProcessInv'
<1> SUFFICES ASSUME ProcessInv, PrintFails PROVE ProcessInv'
  OBVIOUS
<1>1. /\ stage = "printing" /\ stage' = "leaving" /\ exit' = 2
      /\ UNCHANGED <<backendVars, held, arrivals, interrupted, printed, pressed>>
  BY DEF PrintFails, Leave, CodeOf
<1>2. /\ BackendInv' /\ AskedProtocol' /\ protocol' = protocol
  BY <1>1, QuietBackend
<1>3. StageInv'
  BY <1>1 DEF ProcessInv, StageInv, InRun, AfterRun, Leaving
<1>4. OutcomeInv'
  BY <1>1, CodeWithoutResult DEF Leaving
<1> QED BY <1>1, <1>2, <1>3, <1>4, LeavingKeepsInv

(* Ctrl-C reaches main.                                                    *)
LEMMA InterruptMainKeeps == ProcessInv /\ InterruptMain => ProcessInv'
<1> SUFFICES ASSUME ProcessInv, InterruptMain PROVE ProcessInv'
  OBVIOUS
<1>1. /\ stage \in {"checking", "opening", "reporting", "printing"}
      /\ IF stage = "opening" THEN Interrupted ELSE UNCHANGED backendVars
      /\ stage' = "leaving" /\ exit' = 130 /\ pressed' = pressed \cup {stage}
      /\ UNCHANGED <<held, arrivals, interrupted>>
  BY DEF InterruptMain, Leave, CodeOf
<1>2. BackendInv'
  BY <1>1, BackendStep DEF Next
<1>3. AskedProtocol' /\ protocol' = protocol /\ sockets' = sockets
  <2>1. CASE Interrupted
    BY <2>1, ProtocolKept DEF Interrupted, Raise
  <2>2. CASE UNCHANGED backendVars
    BY <2>2, QuietBackend
  <2> QED BY <1>1, <2>1, <2>2
<1>4. StageInv'
  BY <1>1, <1>3 DEF ProcessInv, StageInv, InRun, AfterRun, Leaving
<1>5. OutcomeInv'
  <2>1. Verdict'
    BY <1>1 DEF Verdict
  <2>2. ~(pressed' \subseteq InRun)
    BY <1>1 DEF InRun
  <2> QED BY <2>1, <2>2 DEF OutcomeInv, InRun
<1> QED BY <1>1, <1>2, <1>3, <1>4, <1>5, LeavingKeepsInv

(* The finally clause closes what main holds.                              *)
LEMMA CleanKeeps == ProcessInv /\ Clean => ProcessInv'
<1> SUFFICES ASSUME ProcessInv, Clean PROVE ProcessInv'
  OBVIOUS
<1>1. /\ stage = "leaving" /\ stage' = "exited"
      /\ IF held THEN Close ELSE UNCHANGED backendVars
      /\ UNCHANGED <<held, arrivals, interrupted, printed, exit, pressed>>
  BY DEF Clean
<1>2. BackendInv'
  BY <1>1, BackendStep DEF Next
<1>3. /\ AskedProtocol' /\ protocol' = protocol /\ error' = error
      /\ held => sockets' = {}
      /\ ~held => sockets' = sockets
  <2>1. CASE held
    BY <1>1, <2>1, ProtocolKept DEF Close, batch
  <2>2. CASE ~held
    BY <1>1, <2>2, QuietBackend
  <2> QED BY <2>1, <2>2
<1>4. StageInv'
  BY <1>1, <1>3 DEF ProcessInv, StageInv, InRun, AfterRun, Leaving
<1>5. (\A e \in arrivals : FromTarget(e))'
  BY <1>1, <1>3 DEF ProcessInv, FromTarget, Contract!Chance
<1>6. OutcomeInv'
  <2>1. Verdict /\ (pressed # {} /\ pressed \subseteq InRun => printed \/ exit = 2)
    BY <1>1 DEF ProcessInv, OutcomeInv, Leaving
  <2>2. exit = 0 => (\E e \in arrivals : FromTarget(e))'
    <3>1. exit = 0 => arrivals # {}
      BY <2>1 DEF Verdict
    <3> QED BY <1>1, <1>5, <3>1
  <2>3. Verdict'
    BY <1>1, <1>3, <2>1, <2>2 DEF Verdict
  <2> QED BY <1>1, <2>1, <2>3 DEF OutcomeInv, InRun
<1>7. SocketsReleased'
  BY <1>1, <1>3 DEF ProcessInv, StageInv, SocketsReleased
<1> QED BY <1>2, <1>3, <1>4, <1>5, <1>6, <1>7 DEF ProcessInv

(* Ctrl-C in the finally clause replaces the exit code.                    *)
LEMMA InterruptCleaningKeeps == ProcessInv /\ InterruptCleaning => ProcessInv'
<1> SUFFICES ASSUME ProcessInv, InterruptCleaning PROVE ProcessInv'
  OBVIOUS
<1>1. /\ stage = "leaving" /\ stage' = "exited" /\ exit' = 130
      /\ pressed' = pressed \cup {"leaving"} /\ sockets' \subseteq sockets
      /\ UNCHANGED <<protocol, announced, error, pc, sending, batch>>
      /\ UNCHANGED <<held, arrivals, interrupted, printed>>
  BY DEF InterruptCleaning, CodeOf
<1>2. BackendInv'
  <2>1. BackendTypeOK'
    BY <1>1 DEF ProcessInv, BackendInv, BackendTypeOK, sending, batch
  <2>2. FlyingOurs'
    BY <1>1 DEF ProcessInv, BackendInv, FlyingOurs, sending, IdBehind
  <2>3. BatchInOrder'
    BY <1>1 DEF ProcessInv, BackendInv, BatchInOrder, sending, batch
  <2>4. KeptTruthful'
    BY <1>1 DEF ProcessInv, BackendInv, KeptTruthful, sending, batch,
       Contract!Truthful, Contract!Genuine
  <2> QED BY <2>1, <2>2, <2>3, <2>4 DEF BackendInv
<1>3. AskedProtocol'
  BY <1>1, ProtocolKept DEF batch
<1>4. StageInv'
  BY <1>1 DEF ProcessInv, StageInv, InRun, AfterRun, Leaving
<1>5. (\A e \in arrivals : FromTarget(e))'
  BY <1>1 DEF ProcessInv, FromTarget, Contract!Chance
<1>6. OutcomeInv'
  <2>1. Verdict'
    BY <1>1 DEF Verdict
  <2> QED BY <1>1, <2>1 DEF OutcomeInv, InRun
<1>7. SocketsReleased'
  BY <1>1 DEF SocketsReleased
<1> QED BY <1>2, <1>3, <1>4, <1>5, <1>6, <1>7 DEF ProcessInv

(* Every step of the program keeps ProcessInv.                             *)
LEMMA ProcessStep == ProcessInv /\ [ProcessNext]_processVars => ProcessInv'
<1> SUFFICES ASSUME ProcessInv, [ProcessNext]_processVars PROVE ProcessInv'
  OBVIOUS
<1>1. CASE UNCHANGED processVars
  <2>1. UNCHANGED backendVars /\ UNCHANGED mainVars
    BY <1>1 DEF processVars
  <2>2. BackendInv' /\ AskedProtocol' /\ protocol' = protocol /\ sockets' = sockets
        /\ error' = error
    BY <2>1, QuietBackend
  <2>3. UNCHANGED <<stage, held, arrivals, interrupted, printed, exit, pressed>>
    BY <2>1 DEF mainVars
  <2>4. StageInv'
    BY <2>2, <2>3 DEF ProcessInv, StageInv
  <2>5. (\A e \in arrivals : FromTarget(e))'
    BY <2>2, <2>3 DEF ProcessInv, FromTarget, Contract!Chance
  <2>6. OutcomeInv'
    BY <2>2, <2>3 DEF ProcessInv, OutcomeInv, Verdict, FromTarget, Contract!Chance
  <2>7. SocketsReleased'
    BY <2>2, <2>3 DEF ProcessInv, SocketsReleased, Exited
  <2> QED BY <2>2, <2>4, <2>5, <2>6, <2>7 DEF ProcessInv
<1> QED BY <1>1, RejectKeeps, AcceptKeeps, ConstructKeeps, ConstructFailsKeeps, RunKeeps,
           RunEndsKeeps, InterruptRunKeeps, RunFailsKeeps, FinalizeKeeps,
           PrintResultKeeps, PrintFailsKeeps, InterruptMainKeeps, CleanKeeps,
           InterruptCleaningKeeps
        DEF ProcessNext, Proceed

(* ProcessInv holds in every run.                                          *)
LEMMA ProcessInvAlways == ProcessSpec => []ProcessInv
BY ProcessInitially, ProcessStep, PTL DEF ProcessSpec

-----------------------------------------------------------------------------
(* The exit code tells the outcome, whenever Ctrl-C comes and whatever     *)
(* fails: success rests on an answer of the target to one of our probes    *)
(* (cli.py:184-203).                                                       *)
THEOREM ExitCodeAlwaysTells == ProcessSpec => []ExitCodeTells
<1>1. ProcessInv => ExitCodeTells
  BY DEF ProcessInv, OutcomeInv, ExitCodeTells, Exited, Leaving
<1> QED BY <1>1, ProcessInvAlways, PTL

(* No socket outlives the program, unless Ctrl-C came during the           *)
(* constructor or the closing itself (backend.py:132-151, cli.py:201-203). *)
THEOREM SocketsAlwaysReleased == ProcessSpec => []SocketsReleased
<1>1. ProcessInv => SocketsReleased
  BY DEF ProcessInv
<1> QED BY <1>1, ProcessInvAlways, PTL

(* A measurement that was interrupted is shown, or printing failed         *)
(* (controller.py:158-162).                                                *)
THEOREM PartialResultAlwaysShown == ProcessSpec => []PartialResultShown
<1>1. ProcessInv => PartialResultShown
  BY DEF ProcessInv, OutcomeInv, PartialResultShown, Exited, Leaving, InRun
<1> QED BY <1>1, ProcessInvAlways, PTL

=============================================================================

---------------------------- MODULE TraceProcess ----------------------------
(***************************************************************************)
(* The program from its checks to its exit code: cli.main (cli.py:168-203) *)
(* around the raw backend.  TraceController.run is reduced here to what    *)
(* main sees of it: it asks for batches until it has enough, may then run  *)
(* the kernel control, and returns a result, unless an exception gets past *)
(* its own except clause.                                                  *)
(*                                                                         *)
(* Ctrl-C may come at any time, also a second time.  Which exception       *)
(* reaches main depends on where run, the constructor or main itself is.   *)
(***************************************************************************)
EXTENDS RawBackend

(* The flows of a trace share its protocol.                                *)
ASSUME ProtocolAssumption ==
  \A b \in Batches : \A i \in DOMAIN b : b[i].flow.proto = b[1].flow.proto

VARIABLES
  stage,         (* where main is                                          *)
  held,          (* main's local variable backend is bound                 *)
  arrivals,      (* terminal answers of the destination on the main flow   *)
  control,       (* status of the kernel control                           *)
  interrupted,   (* result.interrupted                                     *)
  printed,       (* the result is on standard output                       *)
  exit,          (* exit code, negative while there is none                *)
  pressed        (* stages a Ctrl-C fell into                              *)

mainVars == <<stage, held, arrivals, control, interrupted, printed, exit, pressed>>
processVars == <<backendVars, mainVars>>

ProcessInit ==
  /\ Init
  /\ stage = "checking" /\ held = FALSE
  /\ arrivals = {} /\ control = "none"
  /\ interrupted = FALSE /\ printed = FALSE
  /\ exit = -1 /\ pressed = {}

(* An exception or a return statement: the finally clause is next.         *)
Leave(code) ==
  /\ stage' = "leaving" /\ exit' = code

(* The except clauses of main.  An AssertionError passes them all, and the *)
(* interpreter ends with a traceback.                                      *)
CodeOf(exception) ==
  CASE exception = "PrivilegeError" -> 3
    [] exception \in {"BackendError", "OSError", "ValueError"} -> 2
    [] exception = "KeyboardInterrupt" -> 130
    [] exception = "AssertionError" -> 1

-----------------------------------------------------------------------------
(* Configuration, name resolution, benchmark addresses, source route: what *)
(* is refused before a socket is opened is a ValueError or a BackendError. *)

Reject ==
  /\ stage = "checking"
  /\ Leave(CodeOf("ValueError"))
  /\ UNCHANGED <<backendVars, held, arrivals, control, interrupted, printed, pressed>>

Accept ==
  /\ stage = "checking"
  /\ stage' = "opening"
  /\ UNCHANGED <<backendVars, held, arrivals, control, interrupted, printed, exit, pressed>>

(* main has its backend once the constructor returned.                     *)
Construct ==
  /\ stage = "opening"
  /\ OpenSocket
  /\ held' = (pc' = "idle")
  /\ stage' = IF held' THEN "measuring" ELSE "opening"
  /\ UNCHANGED <<arrivals, control, interrupted, printed, exit, pressed>>

ConstructFails ==
  /\ stage = "opening"
  /\ OpenFails
  /\ Leave(CodeOf(error'))
  /\ UNCHANGED <<held, arrivals, control, interrupted, printed, pressed>>

-----------------------------------------------------------------------------
(* run: its try block.                                                     *)

Measure ==
  /\ stage = "measuring"
  /\ (\E b \in Batches : Ask(b)) \/ SendProbe \/ Select \/ Receive
  /\ UNCHANGED mainVars

ClockTicks ==
  /\ stage = "measuring"
  /\ TimePasses
  /\ UNCHANGED mainVars

(* Only the main flow tells where the path ends.                           *)
Arrivals(answers) ==
  {answers[i] : i \in {j \in DOMAIN answers : /\ answers[j].kind = "destination"
                                              /\ specs[j].flow.port = "main"}}

Learn ==
  /\ stage = "measuring"
  /\ Finish
  /\ arrivals' = arrivals \cup Arrivals(result')
  /\ UNCHANGED <<stage, held, control, interrupted, printed, exit, pressed>>

(* Nothing but KeyboardInterrupt is caught by run.                         *)
MeasuringFails ==
  /\ stage = "measuring"
  /\ LateSocketFails \/ SendFails \/ ReceiveFails
  /\ Leave(CodeOf(error'))
  /\ UNCHANGED <<held, arrivals, control, interrupted, printed, pressed>>

Measured ==
  /\ stage = "measuring" /\ pc = "idle"
  /\ stage' \in {"reporting"} \cup (IF protocol = "tcp" THEN {"control"} ELSE {})
  /\ UNCHANGED <<backendVars, held, arrivals, control, interrupted, printed, exit, pressed>>

(* What connect_ex may return or raise, and what the control makes of it.  *)
ConnectCodes == {"0", "ECONNREFUSED", "ETIMEDOUT", "EAGAIN", "ENETUNREACH", "EHOSTUNREACH",
                 "EHOSTDOWN", "EACCES", "socket.timeout", "OSError"}

ControlStatus(code) ==
  CASE code = "0" -> "connected"
    [] code = "ECONNREFUSED" -> "refused"
    [] code \in {"ETIMEDOUT", "EAGAIN", "socket.timeout"} -> "timeout"
    [] code \in {"ENETUNREACH", "EHOSTUNREACH", "EHOSTDOWN"} -> "unreachable"
    [] OTHER -> "error"

RunControl ==
  /\ stage = "control"
  /\ \E code \in ConnectCodes : control' = ControlStatus(code)
  /\ stage' = "reporting"
  /\ UNCHANGED <<backendVars, held, arrivals, interrupted, printed, exit, pressed>>

(* Its socket is made outside its try block.                               *)
ControlFails ==
  /\ stage = "control"
  /\ Leave(CodeOf("OSError"))
  /\ UNCHANGED <<backendVars, held, arrivals, control, interrupted, printed, pressed>>

(* Fault: the except clause of run forgotten.                              *)
InterruptEscapes ==
  /\ stage \in {"measuring", "control"}
  /\ IF stage = "measuring" THEN Interrupted ELSE UNCHANGED backendVars
  /\ Leave(CodeOf("KeyboardInterrupt"))
  /\ pressed' = pressed \cup {stage}
  /\ UNCHANGED <<held, arrivals, control, interrupted, printed>>

(* run keeps the answers it has; those of the batch under way are lost.    *)
InterruptRun ==
  /\ stage \in {"measuring", "control"}
  /\ IF stage = "measuring" THEN Interrupted ELSE UNCHANGED backendVars
  /\ interrupted' = TRUE
  /\ stage' = "reporting"
  /\ pressed' = pressed \cup {stage}
  /\ UNCHANGED <<held, arrivals, control, printed, exit>>

-----------------------------------------------------------------------------
(* run returns its result after closing the backend; main prints it.       *)

Finalize ==
  /\ stage = "reporting"
  /\ Close
  /\ stage' = "printing"
  /\ UNCHANGED <<held, arrivals, control, interrupted, printed, exit, pressed>>

reached == arrivals # {}

(* Fault: the exit code looks at the path first.                           *)
PrintReachedFirst ==
  /\ stage = "printing"
  /\ printed' = TRUE
  /\ Leave(IF reached THEN 0 ELSE IF interrupted THEN 130 ELSE 1)
  /\ UNCHANGED <<backendVars, held, arrivals, control, interrupted, pressed>>

PrintResult ==
  /\ stage = "printing"
  /\ printed' = TRUE
  /\ Leave(IF interrupted THEN 130 ELSE IF reached THEN 0 ELSE 1)
  /\ UNCHANGED <<backendVars, held, arrivals, control, interrupted, pressed>>

PrintFails ==
  /\ stage = "printing"
  /\ Leave(CodeOf("OSError"))
  /\ UNCHANGED <<backendVars, held, arrivals, control, interrupted, printed, pressed>>

(* Ctrl-C outside the try block of run.  In the constructor, the sockets   *)
(* already open have no owner yet; the constructor catches OSError only.   *)
InterruptMain ==
  /\ stage \in {"checking", "opening", "reporting", "printing"}
  /\ IF stage = "opening" THEN Interrupted ELSE UNCHANGED backendVars
  /\ Leave(CodeOf("KeyboardInterrupt"))
  /\ pressed' = pressed \cup {stage}
  /\ printed' \in IF stage = "printing" THEN BOOLEAN ELSE {FALSE}
  /\ UNCHANGED <<held, arrivals, control, interrupted>>

-----------------------------------------------------------------------------
(* The finally clause closes what main holds.  closing it twice is common. *)

Clean ==
  /\ stage = "leaving"
  /\ IF held THEN Close ELSE UNCHANGED backendVars
  /\ stage' = "exited"
  /\ UNCHANGED <<held, arrivals, control, interrupted, printed, exit, pressed>>

(* Ctrl-C again: some sockets may stay open, and the code is replaced.     *)
InterruptCleaning ==
  /\ stage = "leaving"
  /\ sockets' \in SUBSET sockets
  /\ exit' = CodeOf("KeyboardInterrupt")
  /\ stage' = "exited"
  /\ pressed' = pressed \cup {stage}
  /\ UNCHANGED <<protocol, announced, error, pc, sending, batch>>
  /\ UNCHANGED <<held, arrivals, control, interrupted, printed>>

-----------------------------------------------------------------------------
Proceed ==
  \/ Reject \/ Accept \/ Construct \/ ConstructFails
  \/ Measure \/ Learn \/ Measured \/ RunControl
  \/ Finalize \/ PrintResult \/ PrintFails \/ Clean

ProcessNext ==
  \/ Proceed \/ ClockTicks
  \/ MeasuringFails \/ ControlFails
  \/ InterruptRun \/ InterruptMain \/ InterruptCleaning

ProcessSpec == ProcessInit /\ [][ProcessNext]_processVars

FairProcess == ProcessSpec /\ WF_processVars(Proceed) /\ WF_processVars(ClockTicks)

-----------------------------------------------------------------------------
Exited == stage = "exited"

(* The exit code tells the outcome (cli.py:184-200).  Success needs a      *)
(* printed, uninterrupted result and an answer of the target to one of our *)
(* probes, or a coincidence the correlation cannot exclude; failure to     *)
(* reach it needs a printed result, unless the program crashed; and        *)
(* whoever pressed Ctrl-C never sees a verdict on the path.                *)
FromTarget(e) ==
  \/ Contract!Chance(e)
  \/ /\ e.cause.session = Session
     /\ \E end \in Network[e.cause.ttl] :
          e.who = end.who /\ Meaning(end.how, protocol) = "destination"

Verdict ==
  /\ exit = 0 => printed /\ \E e \in arrivals : FromTarget(e)
  /\ exit = 1 => error = "AssertionError" \/ (printed /\ arrivals = {})
  /\ exit = 3 => error = "PrivilegeError"
  /\ exit = 130 <=> pressed # {} /\ exit # 2
  /\ printed => exit \in {0, 1, 130}

ExitCodeTells == Exited => Verdict

(* The program leaves no socket open, whichever call failed, unless Ctrl-C *)
(* came during the constructor, whose sockets nobody holds yet, or during  *)
(* the closing itself (backend.py:132-151, cli.py:201-203).                *)
SocketsReleased ==
  Exited /\ pressed \cap {"opening", "leaving"} = {} => sockets = {}

(* One Ctrl-C during the measurement still shows what there is, unless it  *)
(* cannot be printed (controller.py:158-162, tests/test_cli.py:16-41).     *)
PartialResultShown ==
  Exited /\ pressed # {} /\ pressed \subseteq {"measuring", "control"} =>
    printed \/ exit = 2

(* The program ends, whatever keeps arriving.                              *)
ProcessEnds == <>Exited

-----------------------------------------------------------------------------
(* The inductive strengthening of the three invariants above: what main    *)
(* holds and knows at each of its stages.                                  *)

AfterRun == {"reporting", "printing"}
InRun == {"measuring", "control"}
Leaving == {"leaving", "exited"}

StageInv ==
  /\ stage \in {"checking", "opening"} \cup InRun \cup AfterRun \cup Leaving
  /\ stage = "checking" => sockets = {}
  /\ stage \in {"checking", "opening"} => ~held
  /\ stage \in InRun \cup AfterRun => held
  /\ stage \in {"checking", "opening"} \cup InRun => pressed = {} /\ ~interrupted
  /\ stage \in AfterRun => interrupted <=> pressed # {}
  /\ stage \notin Leaving => ~printed
  /\ stage = "leaving" /\ ~held /\ "opening" \notin pressed => sockets = {}

OutcomeInv ==
  stage \in Leaving =>
    /\ Verdict
    /\ pressed # {} /\ pressed \subseteq InRun => printed \/ exit = 2

(* Whole batches are of the trace's protocol.                              *)
AskedProtocol == \A i \in DOMAIN specs : specs[i].flow.proto = protocol

ProcessInv ==
  /\ BackendInv /\ AskedProtocol
  /\ StageInv /\ OutcomeInv
  /\ \A e \in arrivals : FromTarget(e)
  /\ SocketsReleased

=============================================================================

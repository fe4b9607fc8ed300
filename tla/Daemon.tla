------------------------------- MODULE Daemon -------------------------------
(***************************************************************************)
(* The processes that run an OspfDaemon, the PID file that is to keep them *)
(* apart, and the kernel's routes that they leave to each other.           *)
(*                                                                         *)
(* The state of Routes is that of the process that was last to start.      *)
(***************************************************************************)
EXTENDS Routes

CONSTANTS
    Proc,        \* processes
    WriteFails   \* TRUE: the PID file may be impossible to create

NoFile == "none"

ASSUME DaemonAssumption == WriteFails \in BOOLEAN /\ NoFile \notin Proc

VARIABLES
    at,        \* at[p]: "gone", "up", or "ended" after shutdown
    pidFile    \* the process that the PID file names, or NoFile

daemonVars == <<vars, at, pidFile>>

DaemonInit ==
    /\ Init
    /\ at = [p \in Proc |-> "gone"]
    /\ pidFile = NoFile

(* _write_pid creates the file and the event loop starts; a file that      *)
(* cannot be created is no reason not to.                                  *)
Begin(p) ==
    /\ at[p] = "gone" /\ pidFile = NoFile
    /\ pidFile' = p \/ (WriteFails /\ UNCHANGED pidFile)
    /\ at' = [at EXCEPT ![p] = "up"]
    /\ Start

RefuseAndClean(p) ==   \* mutant: the file is removed in a finally clause
    /\ at[p] = "gone" /\ pidFile # NoFile
    /\ pidFile' = NoFile
    /\ UNCHANGED <<vars, at>>
(* FileExistsError: exit, and leave the file to the other process.         *)
Refuse(p) ==
    /\ at[p] = "gone" /\ pidFile # NoFile
    /\ UNCHANGED <<vars, at, pidFile>>

Calculate(p) ==
    /\ at[p] = "up"
    /\ \E run \in Runs : RunSpf(run)
    /\ UNCHANGED <<at, pidFile>>

(* The loop stops, by a signal or an exception: the finally clause of      *)
(* _run_event_loop.                                                        *)
Stop(p) ==
    /\ at[p] = "up"
    /\ Shutdown
    /\ at' = [at EXCEPT ![p] = "ended"]
    /\ UNCHANGED pidFile

(* _remove_pid unlinks the file, whatever it names. *)
RemovePid(p) ==
    /\ at[p] = "ended"
    /\ at' = [at EXCEPT ![p] = "gone"]
    /\ pidFile' = NoFile
    /\ UNCHANGED vars

(* The process is killed, or OspfInstance cannot be made; the file stays.  *)
Crash(p) ==
    /\ at[p] # "gone"
    /\ at' = [at EXCEPT ![p] = "gone"]
    /\ UNCHANGED <<vars, pidFile>>

(* External: the operator, or a reboot, removes the file of a process that *)
(* is gone.                                                                *)
CleanUp ==
    /\ pidFile \in Proc /\ at[pidFile] = "gone"
    /\ pidFile' = NoFile
    /\ UNCHANGED <<vars, at>>

DaemonNext ==
    \/ CleanUp
    \/ \E p \in Proc : Begin(p) \/ Refuse(p) \/ Calculate(p) \/ Stop(p) \/ RemovePid(p) \/ Crash(p)

DaemonSpec == DaemonInit /\ [][DaemonNext]_daemonVars

-----------------------------------------------------------------------------
(* Properties.                                                             *)

(* "Another instance may be running": no two processes push routes, and    *)
(* the file names the one that does until it has withdrawn them.           *)
OneDaemon ==
    \A p \in Proc : at[p] # "gone" =>
       /\ pidFile = p
       /\ \A q \in Proc \ {p} : at[q] = "gone"

(* "Restart=on-failure" (ospfd.service): the file of a process that is     *)
(* gone does not keep the next one from starting.                          *)
FileGoesToo == pidFile # NoFile => at[pidFile] # "gone"
=============================================================================

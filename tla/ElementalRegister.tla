------------------------- MODULE ElementalRegister -------------------------
(***************************************************************************)
(* The machine: elemental-register, its state file, the installer, and the *)
(* reset of the network.  One elemental-register runs at a time.           *)
(***************************************************************************)
EXTENDS RegistrationServer

(***************************************************************************)
(* The profiles of NetworkManager.  app: /oem/elemental-network.yaml, which *)
(* writes the files at boot; files: the .nmconnection files; loaded: what  *)
(* NetworkManager would start with; inUse: the claimed addresses are used. *)
(***************************************************************************)
Network == [app : BOOLEAN, files : BOOLEAN, loaded : BOOLEAN, inUse : BOOLEAN]
NoNetwork == [app |-> FALSE, files |-> FALSE, loaded |-> FALSE, inUse |-> FALSE]
Configured == [app |-> TRUE, files |-> TRUE, loaded |-> TRUE, inUse |-> TRUE]

(***************************************************************************)
(* state: the registration state file (empty: no InitialRegistration; cut: *)
(* truncated); agent: the inventory the system agent is connected to;      *)
(* resetFile: /oem/reset-cloud-config.yaml; next: the next boot is into    *)
(* recovery; plan: how far the agent is with the reset plan.               *)
(***************************************************************************)
Host ==
  [booted : {"live", "active", "recovery"},
   state : {"absent", "empty", "registered", "cut"},
   agent : Inventories \cup {0}, resetFile : BOOLEAN, next : BOOLEAN,
   plan : {"none", "running", "done"}, nm : Network]

LiveHost ==
  [booted |-> "live", state |-> "absent", agent |-> 0, resetFile |-> FALSE,
   next |-> FALSE, plan |-> "none", nm |-> NoNetwork]

\* inv: the inventory named in the config it has received.
Process ==
  [mode : {"none", "update", "install", "network", "reset"},
   phase : {"idle", "dial", "wait", "save", "run",
            "files", "reload", "restart", "online", "agent", "cleanup"},
   known : BOOLEAN, sess : Sessions \cup {0}, inv : Inventories \cup {0}]
NoProcess ==
  [mode |-> "none", phase |-> "idle", known |-> FALSE, sess |-> 0, inv |-> 0]

VARIABLES
  host,       \* the machine
  proc,       \* its elemental-register
  confirmed,  \* inventories whose reset plan the agent has confirmed
  broke       \* history: a command of the network reset failed

hostVars == <<host, proc, confirmed, broke>>

Goto(phase) == proc' = [proc EXCEPT !.phase = phase]

\* The machine closes its end of the connection.
Untied(s) ==
  IF s = 0 THEN sess ELSE
    [sess EXCEPT ![s] = IF @.phase \in {"config", "error"} THEN NoSession
                        ELSE [@ EXCEPT !.tied = FALSE]]

\* The configurator of the registration applies to what is booted from disk.
Boot(h, env) ==
  LET files == h.nm.files \/ h.nm.app IN
  [h EXCEPT !.booted = env, !.next = FALSE, !.plan = "none",
            !.state = IF env = "live" THEN "absent" ELSE @,
            !.nm = [@ EXCEPT !.files = files, !.loaded = files, !.inUse = files]]

----------------------------------------------------------------------------

getRegistrationState(mode) == mode # "reset" /\ host.state = "registered"

Runs(mode) ==
  CASE mode = "update"  -> host.booted = "active" /\ host.agent # 0 /\ host.plan = "none"
    [] mode = "install" -> host.booted = (IF start.toolkit THEN "live" ELSE "active")
                             /\ host.agent = 0
    [] mode = "network" -> host.plan = "running" /\ start.network
    [] mode = "reset"   -> host.booted = "recovery" /\ host.resetFile

Run(mode) ==
  /\ proc = NoProcess
  /\ Runs(mode)
  /\ host.state # "cut" \/ mode = "reset"
  /\ host' = [host EXCEPT !.state = IF @ = "absent" THEN "empty" ELSE @]
  /\ proc' = [NoProcess EXCEPT !.mode = mode, !.phase = "dial",
                               !.known = getRegistrationState(mode)]
  /\ UNCHANGED <<regVars, invVars, sess, confirmed, broke, start, moves, faults>>

Dial ==
  /\ proc.phase = "dial" /\ Accepts(start.token)
  /\ \E s \in Sessions :
       /\ sess[s] = NoSession /\ \A o \in 1..(s - 1) : sess[o] # NoSession
       /\ sess' = [sess EXCEPT ![s] = Opened(start.token, proc.known)]
       /\ proc' = [proc EXCEPT !.phase = "wait", !.sess = s]
  /\ UNCHANGED <<regVars, invVars, host, confirmed, broke, start, moves, faults>>

DialFails ==
  /\ proc.phase = "dial" /\ ~Accepts(start.token)
  /\ proc' = NoProcess
  /\ UNCHANGED <<regVars, invVars, sess, host, confirmed, broke, start, moves, faults>>

\* getConfig: MsgConfig, or an error that ends the run.
Receive ==
  /\ proc.phase = "wait" /\ sess[proc.sess].phase \in {"config", "error"}
  /\ proc' = IF sess[proc.sess].phase = "error" THEN NoProcess
             ELSE [proc EXCEPT !.phase = "save", !.inv = sess[proc.sess].inv, !.sess = 0]
  /\ sess' = Untied(proc.sess)
  /\ UNCHANGED <<regVars, invVars, host, confirmed, broke, start, moves, faults>>

\* The connection breaks, or the deadline of ten seconds has passed.
LoseConnection ==
  /\ Move("lose")
  /\ proc.phase = "wait"
  /\ proc' = NoProcess
  /\ sess' = Untied(proc.sess)
  /\ UNCHANGED <<regVars, invVars, host, confirmed, broke, start, faults>>

\* The state is saved before anything is done with the config.
Save ==
  /\ proc.phase = "save"
  /\ host' = [host EXCEPT !.state = "registered"]
  /\ IF proc.mode = "update" THEN proc' = NoProcess ELSE Goto("run")
  /\ UNCHANGED <<regVars, invVars, sess, confirmed, broke, start, moves, faults>>

----------------------------------------------------------------------------
(***************************************************************************)
(* InstallElemental, followed by the reboot, or the files of the agent on  *)
(* a machine that is installed already.  The hook leaves the state, the    *)
(* connection of the agent and the network config for the first boot.      *)
(***************************************************************************)
InstalledHost ==
  IF start.toolkit
    THEN Boot([host EXCEPT !.agent = proc.inv, !.nm.app = start.network], "active")
    ELSE [host EXCEPT !.agent = proc.inv]

\* WriteLocalSystemAgentConfig creates the agent's directory after it has
\* written the first file into it.
DirectoryMissing == ~start.toolkit /\ ~start.confDir

Install ==
  /\ proc.mode = "install" /\ proc.phase = "run"
  /\ ~DirectoryMissing
  /\ host' = InstalledHost
  /\ proc' = NoProcess
  /\ UNCHANGED <<regVars, invVars, sess, confirmed, broke, start, moves, faults>>

InstallFails ==
  /\ proc.mode = "install" /\ proc.phase = "run"
  /\ IF DirectoryMissing THEN NoFault ELSE Fault
  /\ proc' = NoProcess
  /\ UNCHANGED <<regVars, invVars, sess, host, confirmed, broke, start, moves>>

\* ResetElemental: the system is new, with the state and the agent of the
\* registration that preceded; then the plan file is removed.
Reset ==
  /\ proc.mode = "reset" /\ proc.phase = "run"
  /\ host' = [host EXCEPT !.agent = proc.inv, !.plan = "none", !.nm.app = start.network]
  /\ Goto("cleanup")
  /\ UNCHANGED <<regVars, invVars, sess, confirmed, broke, start, moves, faults>>

ResetFails ==
  /\ proc.mode = "reset" /\ proc.phase = "run"
  /\ Fault
  /\ proc' = NoProcess
  /\ UNCHANGED <<regVars, invVars, sess, host, confirmed, broke, start, moves>>

\* The reboot into the system that was reset follows.
cleanupResetPlan ==
  /\ proc.phase = "cleanup"
  /\ host' = Boot([host EXCEPT !.resetFile = FALSE], "active")
  /\ proc' = NoProcess
  /\ UNCHANGED <<regVars, invVars, sess, confirmed, broke, start, moves, faults>>
=============================================================================

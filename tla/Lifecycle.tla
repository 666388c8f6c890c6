----------------------------- MODULE Lifecycle ------------------------------
(***************************************************************************)
(* The life of syauth-presenced processes: the start-up gate and the       *)
(* pairing-mode marker (main.rs), the pidfile lock (lock.rs), the socket   *)
(* file (server.rs), shutdown (runtime.rs run) and the activation script   *)
(* (desktop/bin/syauth-control).  The kernel's files and locks and         *)
(* systemd's Restart=on-failure are external; CleansRuntimeDir tells the   *)
(* packaged unit, whose RuntimeDirectory= is removed when the service      *)
(* stops, from the one under crates/syauth-presenced/dist.                 *)
(***************************************************************************)
EXTENDS Naturals, FiniteSets

CONSTANTS
    Proc,             \* processes that run the daemon
    Unit,             \* the one systemd started
    CleansRuntimeDir, \* the runtime directory goes with the unit
    Inode,            \* the inodes a pidfile can have, one more than there are processes
    Crashing,         \* the processes that may crash
    MaxCrashes,       \* bound on their crashes
    MaxPairings       \* bound on the bonds made

ASSUME LifecycleAssumption ==
    /\ Unit \in Proc /\ Crashing \subseteq Proc
    /\ CleansRuntimeDir \in BOOLEAN
    /\ Inode \subseteq Nat \ {0} /\ IsFiniteSet(Inode) /\ Cardinality(Inode) > Cardinality(Proc)
    /\ {MaxCrashes, MaxPairings} \subseteq Nat

VARIABLES
    pc,      \* where each process is
    path,    \* the inode the pidfile's name refers to, 0 for none
    fd,      \* the inode each process has open, 0 for none
    locked,  \* the processes that hold the lock of the inode they have open
    sock,    \* the socket file: its listener, stale without one, or none
    bonds,   \* the store has a bonded phone
    marker,  \* the pairing-mode marker
    window,  \* history: a pairing was asked for and no bond was made since
    left     \* crashes and pairings still possible

lifecycle == <<pc, path, fd, locked, sock, bonds, marker, window, left>>

Alive == {"starting", "open", "lock", "bind", "running", "deaf", "stopping", "failing", "unlink", "closing", "dying"}

\* The types, and where a process is tells what it holds: the lock from its acquisition until the file is
\* closed, the open file from one step earlier, the socket only between bind and its guard.
LifecycleTypeOK ==
    /\ pc \in [Proc -> Alive \cup {"off", "failed"}]
    /\ path \in Inode \cup {0}
    /\ fd \in [Proc -> Inode \cup {0}] /\ locked \subseteq Proc
    /\ sock \in Proc \cup {"none", "stale"}
    /\ {bonds, marker, window} \subseteq BOOLEAN
    /\ left \in [crashes : 0..MaxCrashes, pairings : 0..MaxPairings]
    /\ locked = {i \in Proc : pc[i] \in {"bind", "running", "deaf", "stopping", "failing", "unlink", "closing", "dying"}}
    /\ \A i \in Proc : (fd[i] # 0) = (i \in locked \/ pc[i] = "lock")
    /\ sock \in Proc => pc[sock] \in {"running", "stopping"}

LifecycleInit ==
    /\ pc = [i \in Proc |-> "off"]
    /\ path = 0
    /\ fd = [i \in Proc |-> 0] /\ locked = {}
    /\ sock = "none"
    /\ bonds \in BOOLEAN /\ marker = FALSE /\ window = FALSE
    /\ left = [crashes |-> MaxCrashes, pairings |-> MaxPairings]

GoesTo(i, p) == pc' = [pc EXCEPT ![i] = p]

\* What is left behind when process i ends: systemd restarts a failed unit, and may remove its directory.
Ends(i, failed) ==
    /\ GoesTo(i, IF failed /\ i = Unit THEN "failed" ELSE "off")
    /\ fd' = [fd EXCEPT ![i] = 0]
    /\ locked' = locked \ {i}
    /\ IF i = Unit /\ CleansRuntimeDir
       THEN path' = 0 /\ sock' = "none" /\ marker' = FALSE
       ELSE sock' = (IF sock = i THEN "stale" ELSE sock) /\ UNCHANGED <<path, marker>>
    /\ UNCHANGED <<bonds, window>>

-----------------------------------------------------------------------------
(* Start                                                                   *)

\* on_cmd: without a bond, activation opens the pairing window first.
Activate ==
    /\ pc[Unit] = "off"
    /\ GoesTo(Unit, "starting")
    /\ marker' = (marker \/ ~bonds)
    /\ window' = (window \/ ~bonds)
    /\ UNCHANGED <<path, fd, locked, sock, bonds, left>>

\* The login session or an operator starts the daemon without opening a window.
Started(i) ==
    /\ pc[i] = "off"
    /\ GoesTo(i, "starting")
    /\ UNCHANGED <<path, fd, locked, sock, bonds, marker, window, left>>

\* Restart=on-failure
Restart ==
    /\ pc[Unit] = "failed"
    /\ GoesTo(Unit, "starting")
    /\ UNCHANGED <<path, fd, locked, sock, bonds, marker, window, left>>

MutantGateNeedsMarker(i) ==
    /\ pc[i] = "starting"
    /\ IF marker
       THEN GoesTo(i, "open") /\ UNCHANGED <<path, fd, locked, sock, bonds, marker, window>>
       ELSE Ends(i, FALSE)
    /\ UNCHANGED left

\* prepare_startup: nothing to serve, or serve and close a window that is over.
Gate(i) ==
    /\ pc[i] = "starting"
    /\ IF marker \/ bonds
       THEN /\ GoesTo(i, "open")
            /\ marker' = (marker /\ ~bonds)
            /\ UNCHANGED <<path, fd, locked, sock, bonds, window>>
       ELSE Ends(i, FALSE)
    /\ UNCHANGED left

\* An inode no name and no open file refers to.
FreeInode == CHOOSE n \in Inode : n # path /\ \A i \in Proc : fd[i] # n

\* open_pidfile creates the file when its name is free.
Open(i) ==
    /\ pc[i] = "open"
    /\ path' = IF path = 0 THEN FreeInode ELSE path
    /\ fd' = [fd EXCEPT ![i] = path']
    /\ GoesTo(i, "lock")
    /\ UNCHANGED <<locked, sock, bonds, marker, window, left>>

\* try_lock_exclusive: the kernel's lock belongs to the inode, not to the name.
Lock(i) ==
    /\ pc[i] = "lock"
    /\ \A j \in locked : fd[j] # fd[i]
    /\ locked' = locked \cup {i}
    /\ GoesTo(i, "bind")
    /\ UNCHANGED <<path, fd, sock, bonds, marker, window, left>>

MutantWaitsForLock(i) ==
    /\ pc[i] = "lock"
    /\ \E j \in locked : fd[j] = fd[i]
    /\ UNCHANGED lifecycle

AlreadyRunning(i) ==
    /\ pc[i] = "lock"
    /\ \E j \in locked : fd[j] = fd[i]
    /\ Ends(i, TRUE)
    /\ UNCHANGED left

\* serve binds the socket; when its name is taken the task ends and run goes on without it.
Bind(i) ==
    /\ pc[i] = "bind"
    /\ IF sock = "none" THEN sock' = i /\ GoesTo(i, "running") ELSE GoesTo(i, "deaf") /\ UNCHANGED sock
    /\ UNCHANGED <<path, fd, locked, bonds, marker, window, left>>

-----------------------------------------------------------------------------
(* Service, shutdown and crash                                             *)

Promote(i) ==
    /\ pc[i] \in {"running", "deaf"} /\ ~bonds /\ left.pairings > 0
    /\ bonds' = TRUE /\ window' = FALSE
    /\ left' = [left EXCEPT !.pairings = @ - 1]
    /\ UNCHANGED <<pc, path, fd, locked, sock, marker>>

\* The run loop leaves wait_for_reason; serve's failure, if any, is reported only now.
Leave(i) == GoesTo(i, IF pc[i] = "running" THEN "stopping" ELSE "failing")

\* The last bond goes and the orchestrator stops the daemon.
Dissociate(i) ==
    /\ pc[i] \in {"running", "deaf"} /\ bonds
    /\ bonds' = FALSE
    /\ Leave(i)
    /\ UNCHANGED <<path, fd, locked, sock, marker, window, left>>

\* syauth revoke while no daemon serves.
Revoke ==
    /\ bonds /\ \A i \in Proc : pc[i] \notin {"running", "deaf"}
    /\ bonds' = FALSE
    /\ UNCHANGED <<pc, path, fd, locked, sock, marker, window, left>>

Terminate(i) ==
    /\ pc[i] \in {"running", "deaf"}
    /\ Leave(i)
    /\ UNCHANGED <<path, fd, locked, sock, bonds, marker, window, left>>

\* SocketGuard unlinks the name, whoever listens behind it.
DropSocket(i) ==
    /\ pc[i] = "stopping"
    /\ sock' = "none"
    /\ GoesTo(i, "unlink")
    /\ UNCHANGED <<path, fd, locked, bonds, marker, window, left>>

\* PidFileLock::drop unlinks the name first and closes the file, with its lock, after.
Unlink(i) ==
    /\ pc[i] \in {"unlink", "failing"}
    /\ path' = 0
    /\ GoesTo(i, IF pc[i] = "unlink" THEN "closing" ELSE "dying")
    /\ UNCHANGED <<fd, locked, sock, bonds, marker, window, left>>

Close(i) ==
    /\ pc[i] \in {"closing", "dying"}
    /\ Ends(i, pc[i] = "dying")
    /\ UNCHANGED left

Crash(i) ==
    /\ i \in Crashing /\ pc[i] \in Alive /\ left.crashes > 0
    /\ left' = [left EXCEPT !.crashes = @ - 1]
    /\ Ends(i, TRUE)

Runs(i) ==
    Gate(i) \/ Open(i) \/ Lock(i) \/ AlreadyRunning(i) \/ Bind(i) \/ DropSocket(i) \/ Unlink(i) \/ Close(i)

LifecycleNext ==
    \/ Activate \/ Restart \/ Revoke
    \/ \E i \in Proc : Started(i) \/ Runs(i) \/ Promote(i) \/ Dissociate(i) \/ Terminate(i) \/ Crash(i)

LifecycleSpec == LifecycleInit /\ [][LifecycleNext]_lifecycle

\* A process that can go on does, and systemd restarts a failed unit.
FairLifecycle == LifecycleSpec /\ WF_lifecycle(Restart) /\ \A i \in Proc : WF_lifecycle(Runs(i))

-----------------------------------------------------------------------------
(* Properties                                                              *)

\* After a crash with a phone bonded the daemon listens again (Restart=on-failure, serve), unless it is
\* stopped or dissociated meanwhile or another instance runs.
CrashIsRecovered ==
    pc[Unit] = "failed" /\ bonds ~> sock = Unit \/ pc[Unit] \in {"stopping", "failing"} \/ ~bonds \/ locked \ {Unit} # {}

\* A start never hangs behind another instance (try_lock_exclusive does not wait): it serves, is refused, or
\* finds nothing to serve, whatever files earlier instances left behind.
EveryStartSettles == \A i \in Proc : pc[i] = "starting" ~> pc[i] \in {"running", "deaf", "off", "failed"}

\* "a later start with no bond must be quiet again without anyone having to remember to clean up"
\* (prepare_startup): a daemon that starts to serve without a bond does so in a window opened since the last one.
QuietAfterDissociation == [][\A i \in Proc : pc[i] = "starting" /\ pc'[i] = "open" => bonds \/ window]_lifecycle

\* "Single-instance pidfile lock" (lock.rs): at most one process is past the lock and not yet on its way out.
SingleInstance == Cardinality({i \in Proc : pc[i] \in {"bind", "running", "deaf"}}) <= 1
=============================================================================

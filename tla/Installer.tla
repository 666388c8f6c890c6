------------------------------ MODULE Installer ------------------------------
(***************************************************************************)
(* `syauth install-pam`, `uninstall-pam` and `install-presenced`: editing   *)
(* one PAM service file beside its .bak, and installing the daemon's unit   *)
(* and binary.  Every file operation is a step of its own; an invocation    *)
(* may fail or be killed between any two, and the administrator edits the   *)
(* same files.  A service file is the sequence of its lines, each a kind:   *)
(* "auth" and "account" directives, "u2f" and "syauth" for an auth line of  *)
(* pam_u2f.so and pam_syauth.so that the recognition regexes match,         *)
(* "bracketed" for a pam_syauth.so line whose control field has spaces      *)
(* ("[success=done ...]"), "comment" for a comment that names the module.   *)
(***************************************************************************)
EXTENDS Naturals, Sequences, SequencesExt

CONSTANTS
    Process,    \* invocations of the tools that may overlap
    Bodies,     \* what the service file may hold before the first install
    Line,       \* the line build_line makes: "syauth", or "bracketed" for such a --control
    Bundled,    \* what run_install does after install(): "unit", or "idle" for --with-presenced=false
    MaxEdits,   \* bound on the administrator's edits
    None

VARIABLES
    service,    \* lines of <pam_dir>/<service>
    backup,     \* lines of <service>.bak, or None
    pc,         \* per invocation: the next step of install, uninstall or install_presenced
    held,       \* per invocation: the body it read, of the service file or of the .bak
    fallback,   \* per invocation: --with-u2f-fallback
    unit,       \* ExecStart of the unit file: None, "libexec" or "from"
    binary,     \* the binary under libexec: None, "whole" or "torn"
    enabled,    \* the unit is enabled
    running,    \* where the running daemon was started from, or None
    edits,      \* edits made so far
    clean       \* history: the last body of the service file without a pam_syauth.so line

files == <<service, backup>>
presenced == <<unit, binary, enabled, running>>
vars == <<files, pc, held, fallback, presenced, edits, clean>>

Torn == <<"torn">>
Names(line) == line \in {"syauth", "bracketed", "comment"}
Wires(body) == \E i \in 1..Len(body) : body[i] \in {"syauth", "bracketed"}
Has(body, line) == \E i \in 1..Len(body) : body[i] = line

-----------------------------------------------------------------------------
\* insert_line: above the first auth directive, or at the top.
IsAuthDirective(line) == line \in {"auth", "syauth", "bracketed", "u2f"}

InsertLine(body, line) ==
    LET first == SelectInSeq(body, IsAuthDirective)
    IN  InsertAt(body, IF first = 0 THEN 1 ELSE first, line)

\* Mutant: the fallback is put above the line it backs up.
MutantAbove(body, wanted) ==
    LET first == SelectInSeq(body, Names)
    IN  IF ~wanted \/ Has(body, "u2f") \/ first = 0 THEN body ELSE InsertAt(body, first, "u2f")

\* maybe_insert_u2f_fallback: below the first line that names the module.
MaybeInsertU2fFallback(body, wanted) ==
    LET first == SelectInSeq(body, Names)
    IN  IF ~wanted \/ Has(body, "u2f") \/ first = 0 THEN body ELSE InsertAt(body, first + 1, "u2f")

-----------------------------------------------------------------------------
Go(p, step) == pc' = [pc EXCEPT ![p] = step]

\* install(): reads the file and decides whether a line or the fallback is missing.
Install(p) ==
    /\ pc[p] = "idle"
    /\ held' = [held EXCEPT ![p] = service]
    /\ \E wanted \in BOOLEAN :
         /\ fallback' = [fallback EXCEPT ![p] = wanted]
         /\ IF ~Has(service, "syauth") THEN Go(p, "backup")
            ELSE IF wanted /\ ~Has(service, "u2f") THEN Go(p, "write")
            ELSE \E next \in Bundled : Go(p, next)
    /\ UNCHANGED <<files, presenced, edits, clean>>

\* Mutant: a .bak that exists is taken for this install's.
MutantKeepsOldBackup(p) ==
    /\ pc[p] = "backup"
    /\ Go(p, IF backup # None THEN "write" ELSE "copy")
    /\ UNCHANGED <<files, held, fallback, presenced, edits, clean>>

\* An existing .bak is refused (BackupExists).
CheckBackup(p) ==
    /\ pc[p] = "backup"
    /\ Go(p, IF backup # None THEN "idle" ELSE "copy")
    /\ UNCHANGED <<files, held, fallback, presenced, edits, clean>>

\* fs::copy of the file as it is now, not of the body that was read.
CopyBackup(p) ==
    /\ pc[p] = "copy"
    /\ backup' = service
    /\ Go(p, "write")
    /\ UNCHANGED <<service, held, fallback, presenced, edits, clean>>

\* Mutant: the line is put in again when only the fallback was missing.
MutantInsertsAgain(p) ==
    /\ pc[p] = "write"
    /\ service' = MaybeInsertU2fFallback(InsertLine(held[p], Line), fallback[p])
    /\ \E next \in Bundled : Go(p, next)
    /\ UNCHANGED <<backup, held, fallback, presenced, edits, clean>>

\* atomic_write of the body read at the start, with the missing lines.
Write(p) ==
    /\ pc[p] = "write"
    /\ service' = MaybeInsertU2fFallback(
                      IF Has(held[p], "syauth") THEN held[p] ELSE InsertLine(held[p], Line), fallback[p])
    /\ \E next \in Bundled : Go(p, next)
    /\ UNCHANGED <<backup, held, fallback, presenced, edits, clean>>

\* uninstall(): a no-op without a recognised line, an error without a .bak; else the .bak is read.
Uninstall(p) ==
    /\ pc[p] = "idle"
    /\ Has(service, "syauth") /\ backup # None
    /\ held' = [held EXCEPT ![p] = backup]
    /\ Go(p, "restore")
    /\ UNCHANGED <<files, fallback, presenced, edits, clean>>

\* atomic_restore.
Restore(p) ==
    /\ pc[p] = "restore"
    /\ service' = held[p]
    /\ clean' = IF Wires(held[p]) THEN clean ELSE held[p]
    /\ Go(p, "remove")
    /\ UNCHANGED <<backup, held, fallback, presenced, edits>>

RemoveBackup(p) ==
    /\ pc[p] = "remove"
    /\ backup' = None
    /\ Go(p, "idle")
    /\ UNCHANGED <<service, held, fallback, presenced, edits, clean>>

-----------------------------------------------------------------------------
\* install_presenced, alone or after install(): the unit is written first; a dry run ends there.
WriteUnit(p) ==
    /\ pc[p] \in {"unit", "idle"}
    /\ \E path \in {"libexec", "from"} : unit' = path
    /\ \E next \in {"binary", "idle"} :
         /\ (unit' = "libexec") => next = "binary"
         /\ Go(p, next)
    /\ UNCHANGED <<files, held, fallback, binary, enabled, running, edits, clean>>

\* Mutant: systemctl runs before the binary is in place.
MutantEnablesFirst(p) ==
    /\ pc[p] = "binary"
    /\ Go(p, "enable")
    /\ UNCHANGED <<files, held, fallback, presenced, edits, clean>>

\* fs::copy over the libexec path, which the system refuses (text busy) while the daemon runs from it.
CopyBinary(p) ==
    /\ pc[p] = "binary"
    /\ running # "libexec"
    /\ binary' = "whole"
    /\ Go(p, "enable")
    /\ UNCHANGED <<files, held, fallback, unit, enabled, running, edits, clean>>

\* systemctl --user daemon-reload and enable --now, which leaves a running daemon alone.
Enable(p) ==
    /\ pc[p] = "enable"
    /\ enabled' = TRUE
    /\ running' = IF running = None THEN unit ELSE running
    /\ Go(p, "idle")
    /\ UNCHANGED <<files, held, fallback, unit, binary, edits, clean>>

\* Any step may return an error or the process may be killed; fs::copy may be cut short.
Fail(p) ==
    /\ pc[p] # "idle"
    /\ Go(p, "idle")
    /\ \/ UNCHANGED <<backup, binary>>
       \/ pc[p] = "copy" /\ backup' = Torn /\ UNCHANGED binary
       \/ pc[p] = "binary" /\ running # "libexec" /\ binary' = "torn" /\ UNCHANGED backup
    /\ UNCHANGED <<service, held, fallback, unit, enabled, running, edits, clean>>

-----------------------------------------------------------------------------
\* The administrator, while no tool runs: adds a line, takes the syauth line out by hand, or moves the
\* .bak aside as the BackupExists message says; and stops the daemon or restarts the host.
Quiet == \A p \in Process : pc[p] = "idle"

Edit ==
    /\ Quiet /\ edits < MaxEdits
    /\ edits' = edits + 1
    /\ \E body \in {Append(service, "account"), SelectSeq(service, LAMBDA l : l \notin {"syauth", "bracketed"})} :
         /\ service' = body
         /\ clean' = IF Wires(body) THEN clean ELSE body
    /\ UNCHANGED <<backup, pc, held, fallback, presenced>>

MoveBackupAside ==
    /\ Quiet
    /\ backup' = None
    /\ UNCHANGED <<service, pc, held, fallback, presenced, edits, clean>>

StopDaemon ==
    /\ running' = None
    /\ UNCHANGED <<files, pc, held, fallback, unit, binary, enabled, edits, clean>>

Boot ==
    /\ Quiet
    /\ running' = IF enabled /\ (unit = "libexec" => binary = "whole") THEN unit ELSE None
    /\ UNCHANGED <<files, pc, held, fallback, unit, binary, enabled, edits, clean>>

Init ==
    /\ service \in Bodies /\ clean = service
    /\ backup = None
    /\ pc = [p \in Process |-> "idle"]
    /\ held = [p \in Process |-> <<>>]
    /\ fallback = [p \in Process |-> FALSE]
    /\ unit = None /\ binary = None /\ enabled = FALSE /\ running = None
    /\ edits = 0

Next ==
    \/ \E p \in Process :
         \/ Install(p) \/ CheckBackup(p) \/ CopyBackup(p) \/ Write(p)
         \/ Uninstall(p) \/ Restore(p) \/ RemoveBackup(p)
         \/ WriteUnit(p) \/ CopyBinary(p) \/ Enable(p) \/ Fail(p)
    \/ Edit \/ MoveBackupAside \/ StopDaemon \/ Boot

Spec == Init /\ [][Next]_vars

-----------------------------------------------------------------------------
\* install_pam::install and uninstall_pam::uninstall: what an uninstall puts back is the service file as it last
\* was without a syauth line - never a .bak cut short by a crash, left over from an earlier install, or older than
\* an edit made before the line was put in.
RestoresClean ==
    [][\A p \in Process : pc[p] = "restore" /\ pc'[p] = "remove" => service' = clean]_vars

\* install_pam::install: however often installs are repeated, fail or are undone by hand, the service file never
\* names the module in two auth directives.
SingleLine ==
    \A i, j \in 1..Len(service) :
        service[i] \in {"syauth", "bracketed"} /\ service[j] \in {"syauth", "bracketed"} => i = j

\* maybe_insert_u2f_fallback: where the installers put both, pam_u2f.so is tried directly after pam_syauth.so.
FallbackFollows ==
    \A i, j \in 1..Len(service) : service[i] \in {"syauth", "bracketed"} /\ service[j] = "u2f" => j = i + 1

\* install_presenced: across failures, restarts of the host and --from installs, a unit enabled at boot has a
\* binary under libexec.
EnabledHasBinary == enabled => binary # None

\* Refuted for overlapping installs: a .bak is never overwritten.
NeverOverwritesBackup == [][backup # None => backup' \in {backup, None}]_vars

\* Refuted for a control field with spaces: an uninstall with a .bak beside a wired service file unwires it.
UninstallFindsLine == Wires(service) => Has(service, "syauth")

\* Refuted when install-presenced fails: once install-pam has ended, a wired service has its daemon enabled.
WiredHasDaemon == Quiet /\ Wires(service) => enabled
=============================================================================

--------------------------------- MODULE Upgrade -------------------------------
(***************************************************************************)
(* `corky upgrade', and the same from the daemon, which then replaces      *)
(* itself (src/src/upgrade.rs, try_auto_upgrade of watch.rs).  Every run   *)
(* downloads to the same archive and unpacks it to the same temporary file *)
(* beside the program, which it renames or copies over the program.        *)
(***************************************************************************)
EXTENDS Naturals, FiniteSets

CONSTANTS Procs, MaxVersion, MaxRuns \* bounds: releases, runs

VARIABLES
    released, \* the version of the latest release
    cache,    \* the version cache: [version, fresh]; version 0: there is none
    program,  \* the file at the path of the program: its version
    archive,  \* the archive: the version it holds, whole or not; 0: there is none
    unpacked, \* the temporary file, likewise
    writer,   \* the process whose tar still writes the file: it may be the program by now
    session,  \* session[p]: [pc, daemon, current, wants]
    overlap,  \* history: two runs have used the temporary files at once
    cut,      \* history: a copy over the program is under way, or broke off
    runs

vars == <<released, cache, program, archive, unpacked, writer, session, overlap, cut, runs>>

None == [version |-> 0, whole |-> TRUE]
File(v, w) == [version |-> v, whole |-> w]
Idle == [pc |-> "idle", daemon |-> FALSE, current |-> 0, wants |-> 0]

Init ==
    /\ released = 1 /\ cache = [version |-> 0, fresh |-> FALSE]
    /\ program = File(1, TRUE) /\ archive = None /\ unpacked = None /\ writer = {}
    /\ session = [p \in Procs |-> Idle] /\ overlap = FALSE /\ cut = FALSE /\ runs = 0

Moves(p, from, to) == session[p].pc = from /\ session' = [session EXCEPT ![p].pc = to]

\* run says Ok, whatever has come of it; the daemon goes on to replace itself.
Returns(p) == session' = [session EXCEPT ![p] =
    IF @.daemon THEN [@ EXCEPT !.pc = "exec"] ELSE Idle]

\* Other runs between the download and the end of the installation.
Others(p) ==
    \E q \in Procs \ {p} : session[q].pc \in {"unpack", "unpacking", "install", "copying"}

\* A program is started; a process keeps the version it was started with.
Begin(p, daemon) ==
    /\ session[p].pc = "idle" /\ runs < MaxRuns /\ runs' = runs + 1 /\ program.whole
    /\ session' = [session EXCEPT ![p] = [pc |-> IF daemon THEN "watch" ELSE "fetch",
                       daemon |-> daemon, current |-> program.version, wants |-> 0]]
    /\ UNCHANGED <<released, cache, program, archive, unpacked, writer, overlap, cut>>

\* check_for_update: the cached version while it is fresh, or else that of crates.io.
CheckForUpdate(p) ==
    /\ session[p].pc = "watch" /\ runs < MaxRuns /\ runs' = runs + 1
    /\ LET latest == IF cache.version # 0 /\ cache.fresh THEN cache.version ELSE released
       IN /\ cache' = [version |-> latest, fresh |-> TRUE]
          /\ session' = IF latest > session[p].current THEN [session EXCEPT ![p].pc = "fetch"]
                        ELSE session
    /\ UNCHANGED <<released, program, archive, unpacked, writer, overlap, cut>>

\* run: the latest version again, from crates.io, which may give none.
Fetch(p) ==
    /\ session[p].pc = "fetch"
    /\ \/ released > session[p].current
          /\ session' = [session EXCEPT ![p].pc = "download", ![p].wants = released]
       \/ Returns(p)
    /\ UNCHANGED <<released, cache, program, archive, unpacked, writer, overlap, cut, runs>>

\* try_github_release_upgrade: the whole archive is read, then written.
Download(p) ==
    /\ Moves(p, "download", "unpack")
    /\ archive' = File(session[p].wants, TRUE)
    /\ overlap' = (overlap \/ Others(p))
    /\ UNCHANGED <<released, cache, program, unpacked, writer, cut, runs>>

\* tar unpacks into a new file in place of the one there is.
Unpack(p) ==
    /\ Moves(p, "unpack", "unpacking") /\ archive # None
    /\ unpacked' = File(archive.version, FALSE) /\ writer' = {p}
    /\ UNCHANGED <<released, cache, program, archive, overlap, cut, runs>>

Unpacked(p) ==
    /\ Moves(p, "unpacking", "install") /\ archive' = None
    /\ writer' = writer \ {p}
    /\ unpacked' = IF writer = {p} /\ unpacked # None THEN File(unpacked.version, TRUE) ELSE unpacked
    /\ program' = IF writer = {p} /\ unpacked = None THEN File(program.version, TRUE) ELSE program
    /\ UNCHANGED <<released, cache, overlap, cut, runs>>

\* Mutant: the file is renamed while tar is at work.
ReadyEarly(p) == session[p].pc \in {"unpacking", "install"}

\* The file is moved when tar has ended with success.
Ready(p) == session[p].pc = "install"

\* The rename replaces the program at once.
Install(p) ==
    /\ Ready(p) /\ unpacked # None
    /\ program' = unpacked /\ unpacked' = None /\ cut' = FALSE
    /\ Returns(p)
    /\ UNCHANGED <<released, cache, archive, writer, overlap, runs>>

\* The rename fails: the file is copied over the program, which std::fs::copy truncates ...
CopyOver(p) ==
    /\ Moves(p, "install", "copying") /\ unpacked # None
    /\ program' = File(unpacked.version, FALSE) /\ cut' = TRUE
    /\ UNCHANGED <<released, cache, archive, unpacked, writer, overlap, runs>>

\* ... before it writes it.
Copied(p) ==
    /\ session[p].pc = "copying" /\ unpacked # None
    /\ program' = unpacked /\ unpacked' = None /\ cut' = FALSE
    /\ Returns(p)
    /\ UNCHANGED <<released, cache, archive, writer, overlap, runs>>

\* The download, tar, the rename or the copy fails; cargo or pip may install the release or
\* not.
FallBack(p) ==
    /\ session[p].pc \in {"download", "unpack", "unpacking", "install", "copying"}
    /\ archive' = IF session[p].pc \in {"unpack", "unpacking"} THEN None ELSE archive
    /\ unpacked' = IF session[p].pc = "download" THEN unpacked ELSE None
    /\ writer' = writer \ {p}
    /\ \/ UNCHANGED <<program, cut>>
       \/ program' = File(released, TRUE) /\ cut' = FALSE
    /\ Returns(p)
    /\ UNCHANGED <<released, cache, overlap, runs>>

\* The daemon runs what is at the path now, perhaps the version it is.  An exec that fails
\* leaves it as it is; on Linux that is so once the program has been replaced, for
\* current_exe then names a deleted file.
Exec(p) ==
    /\ session[p].pc = "exec"
    /\ \E v \in {session[p].current} \cup (IF program.whole THEN {program.version} ELSE {}) :
         session' = [session EXCEPT ![p].pc = "watch", ![p].current = v]
    /\ UNCHANGED <<released, cache, program, archive, unpacked, writer, overlap, cut, runs>>

Kill(p) ==
    /\ session[p].pc # "idle" /\ session' = [session EXCEPT ![p] = Idle]
    /\ writer' = writer \ {p}
    /\ UNCHANGED <<released, cache, program, archive, unpacked, overlap, cut, runs>>

\* A release is published; the cache gets older than 24 hours.
Release ==
    /\ released < MaxVersion /\ released' = released + 1
    /\ UNCHANGED <<cache, program, archive, unpacked, writer, session, overlap, cut, runs>>

Age ==
    /\ cache.fresh /\ cache' = [cache EXCEPT !.fresh = FALSE]
    /\ UNCHANGED <<released, program, archive, unpacked, writer, session, overlap, cut, runs>>

Next ==
    \/ \E p \in Procs, daemon \in BOOLEAN : Begin(p, daemon)
    \/ \E p \in Procs : \/ CheckForUpdate(p) \/ Fetch(p) \/ Download(p) \/ Unpack(p)
                        \/ Unpacked(p) \/ Install(p) \/ CopyOver(p) \/ Copied(p)
                        \/ FallBack(p) \/ Exec(p) \/ Kill(p)
    \/ Release \/ Age

Spec == Init /\ [][Next]_vars

-----------------------------------------------------------------------------
(* Properties *)

\* The file at the program's path is a whole program, whatever fails and even if an
\* upgrade is killed, unless two runs were at their temporary files at once, or the rename
\* failed and the copy that is tried instead has not come through.
StaysRunnable == ~ overlap /\ ~ cut => program.whole
=============================================================================

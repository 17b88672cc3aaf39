-------------------------------- MODULE Vfs ---------------------------------
(***************************************************************************)
(* Path lookup of fs/vfs.c: get_fs_type finds the mount point of a path    *)
(* with a walk over the list of mount points that leaves its result in     *)
(* static variables, and hands the rest of the path to the driver.         *)
(*                                                                         *)
(* A path is a sequence of tokens; "dev" and every other name stand for    *)
(* one character each.  The timer may preempt the calling task anywhere:   *)
(* every store to a static variable is a step of its own, and so is what   *)
(* is read between two stores.                                             *)
(***************************************************************************)
EXTENDS Integers, Sequences, SequencesExt

CONSTANTS
    Tasks,          \* the tasks that call into the file system
    Tokens,         \* what paths are made of
    Paths,          \* the paths they pass
    Fds,            \* the descriptors they pass
    Implemented     \* the <<driver, operation>> pairs whose pointer is not NULL

VARIABLES
    mp_swap, most_long, path_swap,  \* the static variables of the walk
    task,           \* the call each task is in
    result          \* what the last call of each task came to

statics == <<mp_swap, most_long, path_swap>>
vars == <<statics, task, result>>

ASSUME VfsAssumption == {"/", "dev"} \subseteq Tokens /\ Paths \subseteq Seq(Tokens)

MINIX_FS_DRV == 1
DEVFS_FS_DRV == 2

\* In the order in which list_iter meets what fs_init inserted.
mount_points ==
    <<[path |-> <<"/">>, driver_id |-> MINIX_FS_DRV],
      [path |-> <<"/", "dev">>, driver_id |-> DEVFS_FS_DRV]>>

pwd == <<"/">>
NoMount == 0
NoResult == [path |-> <<>>, type |-> 0, baked |-> <<>>, ret |-> "none"]
\* A baked path behind the end of the string.
Beyond == <<"?">>

Idle == [pc |-> "idle", op |-> "none", path |-> <<>>, at |-> 0]

-----------------------------------------------------------------------------

Init ==
    /\ mp_swap = NoMount /\ most_long = 0 /\ path_swap = <<>>
    /\ task = [t \in Tasks |-> Idle]
    /\ result = [t \in Tasks |-> NoResult]

\* fs_open and fs_mkdir enter get_fs_type.
call(t, op, path) ==
    /\ task[t].pc = "idle"
    /\ task' = [task EXCEPT ![t] = [pc |-> "reset", op |-> op, path |-> path, at |-> 1]]
    /\ result' = [result EXCEPT ![t] = NoResult]
    /\ UNCHANGED statics

reset(t) ==
    /\ task[t].pc = "reset"
    /\ mp_swap' = NoMount
    /\ task' = [task EXCEPT ![t].pc = "zero"]
    /\ UNCHANGED <<most_long, path_swap, result>>

\* mutant: the longest match of the call before stays
zero_kept(t) ==
    /\ task[t].pc = "zero"
    /\ task' = [task EXCEPT ![t].pc = "publish"]
    /\ UNCHANGED <<statics, result>>

\* most_long = 0
zero(t) ==
    /\ task[t].pc = "zero"
    /\ most_long' = 0
    /\ task' = [task EXCEPT ![t].pc = "publish"]
    /\ UNCHANGED <<mp_swap, path_swap, result>>

IsAbsolute(path) == path # <<>> /\ path[1] = "/"

absolute(path) == IF IsAbsolute(path) THEN path ELSE pwd \o path

publish(t) ==
    /\ task[t].pc = "publish"
    /\ path_swap' = absolute(task[t].path)
    /\ task' = [task EXCEPT ![t].pc = "walk"]
    /\ UNCHANGED <<mp_swap, most_long, result>>

\* list_iter goes on to the next mount point, or is through.
next_mount(c) ==
    [c EXCEPT !.pc = IF c.at = Len(mount_points) THEN "end" ELSE "walk", !.at = @ + 1]

\* The comparisons of get_fs_type_callback.
get_fs_type_callback(t) ==
    LET c == task[t]
        mp == mount_points[c.at].path
    IN  /\ c.pc = "walk"
        /\ task' = [task EXCEPT ![t] =
             IF IsPrefix(mp, path_swap) /\ Len(mp) > most_long
             THEN [c EXCEPT !.pc = "longest"] ELSE next_mount(c)]
        /\ UNCHANGED <<statics, result>>

\* Its two stores, of the length and then of the mount point.
set_most_long(t) ==
    /\ task[t].pc = "longest"
    /\ most_long' = Len(mount_points[task[t].at].path)
    /\ task' = [task EXCEPT ![t].pc = "pointer"]
    /\ UNCHANGED <<mp_swap, path_swap, result>>

set_mp_swap(t) ==
    /\ task[t].pc = "pointer"
    /\ mp_swap' = task[t].at
    /\ task' = [task EXCEPT ![t] = next_mount(task[t])]
    /\ UNCHANGED <<most_long, path_swap, result>>

strip(path) == IF IsAbsolute(path) THEN Tail(path) ELSE path

\* path + path_len: taken from the caller's path, relative or not.
bake(path, len) ==
    IF len > Len(path) THEN Beyond ELSE strip(SubSeq(path, len + 1, Len(path)))

\* The end of get_fs_type and of fs_open or fs_mkdir.
finish(t) ==
    LET c == task[t]
        mp == mount_points[mp_swap]
    IN  /\ c.pc = "end"
        /\ result' = [result EXCEPT ![t] =
             IF mp_swap = NoMount
             THEN [path |-> c.path, type |-> 0, baked |-> <<>>, ret |-> "ENOENT"]
             ELSE [path |-> c.path, type |-> mp.driver_id,
                   baked |-> bake(c.path, Len(mp.path)),
                   ret |-> IF <<mp.driver_id, c.op>> \in Implemented
                           THEN "driver" ELSE "EPERM"]]
        /\ task' = [task EXCEPT ![t] = Idle]
        /\ UNCHANGED statics

\* fs_close, fs_read and fs_write: nothing is ever put into the tree of open
\* files, so get_fd_info finds none.
fd_call(t, op, fd) ==
    /\ task[t].pc = "idle"
    /\ result' = [result EXCEPT ![t] = [NoResult EXCEPT !.ret = "ENFILE"]]
    /\ UNCHANGED <<statics, task>>

Next ==
    \E t \in Tasks :
        \/ \E op \in {"open", "mkdir"}, p \in Paths : call(t, op, p)
        \/ reset(t)
        \/ zero(t)
        \/ publish(t)
        \/ get_fs_type_callback(t)
        \/ set_most_long(t)
        \/ set_mp_swap(t)
        \/ finish(t)
        \/ \E op \in {"close", "read", "write"}, fd \in Fds : fd_call(t, op, fd)

Spec == Init /\ [][Next]_vars

-----------------------------------------------------------------------------
(* What a path means, component by component                               *)

\* The path lies at or below the mount point: the component ends with it.
Below(path, mp) ==
    /\ IsPrefix(mp.path, path)
    /\ \/ Last(mp.path) = "/"
       \/ Len(path) = Len(mp.path)
       \/ path[Len(mp.path) + 1] = "/"

Meaning(path) ==
    LET full == absolute(path)
        mp == IF Below(full, mount_points[2]) THEN mount_points[2] ELSE mount_points[1]
    IN  <<mp.driver_id, strip(SubSeq(full, Len(mp.path) + 1, Len(full)))>>

\* "/devx": the mount point ends inside a component.
Straddles(path) == IsPrefix(<<"/", "dev">>, path) /\ ~ Below(path, mount_points[2])

Done(r) == r.ret \in {"driver", "EPERM", "ENOENT"}

(* Every absolute path goes to the driver of its innermost mount point,     *)
(* with the mount point and one slash taken off, whatever the calls before  *)
(* left in the static variables.  A name that only begins like a mount      *)
(* point ("/devx") is left out: the comparison takes it for the mount point.*)
AbsolutePathsConverted ==
    \A t \in Tasks :
        LET r == result[t]
        IN  Done(r) /\ IsAbsolute(r.path) /\ ~ Straddles(r.path) =>
                <<r.type, r.baked>> = Meaning(r.path)

(* The driver receives the path below its mount point, also when the caller *)
(* passed it relative to its working directory.                             *)
RelativePathsConverted ==
    \A t \in Tasks :
        LET r == result[t]
        IN  Done(r) /\ ~ IsAbsolute(r.path) => <<r.type, r.baked>> = Meaning(r.path)
=============================================================================

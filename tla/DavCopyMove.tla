---------------------------- MODULE DavCopyMove ----------------------------
(***************************************************************************)
(* moveFiles and copyFiles of the WebDAV server (server/webdav/file.go):   *)
(* an existing destination is renamed to a backup, the source transferred, *)
(* and the backup removed, or put back when the transfer failed.           *)
(*                                                                         *)
(* Every call to package fs may fail.  A rename is all or nothing, as is   *)
(* the upload of a file (Local.Put writes a temporary file); removing or   *)
(* copying a directory may stop half way.  The caller holds the WebDAV     *)
(* locks on both names, and no other transfer has the same group.          *)
(***************************************************************************)
EXTENDS FiniteSets

CONSTANTS Files,  \* the files a source directory can have
          Twin,   \* the one of them that is named like the directory itself
          Solo    \* the content of a source that is a plain file

ASSUME FilesAssumption == Twin \in Files /\ Solo \notin Files

VARIABLES call,    \* the request and the storages it runs into
          src,     \* the content that is at the source
          dst,     \* what is at the destination
          backup,  \* what of the old destination is at the backup path
          todo,    \* the files still to be uploaded
          pc, status,
          failed   \* the parts of the request in which a call to fs failed

vars == <<call, src, dst, backup, todo, pc, status, failed>>

Absent == [kind |-> "none", files |-> {}]
Old    == [kind |-> "old", files |-> {}]
New(S) == [kind |-> "new", files |-> S]

\* isDir and content describe the source, old whether the destination exists, oldDir
\* whether it is a directory, sameStorage and sameDir where it is; native says that
\* the driver can do the transfer itself, otherwise it returns NotImplement.
Calls == [method : {"COPY", "MOVE"}, isDir : BOOLEAN,
          content : SUBSET Files \cup {{Solo}}, old : BOOLEAN, oldDir : BOOLEAN,
          sameStorage : BOOLEAN, sameDir : BOOLEAN, native : BOOLEAN,
          overwrite : BOOLEAN, canRemove : BOOLEAN]

Init == /\ call \in {c \in Calls : /\ c.isDir <=> c.content # {Solo}
                                   /\ c.oldDir => c.old
                                   /\ c.sameDir => c.sameStorage}
        /\ src = call.content
        /\ dst = IF call.old THEN Old ELSE Absent
        /\ backup = "none"
        /\ todo = {}
        /\ pc = "check"
        /\ status = 0
        /\ failed = {}

Return(code) == pc' = "done" /\ status' = code

\* A call to package fs fails, in the request proper, while undoing it or while
\* removing the backup.
Fails(part) == failed' = failed \cup {part}

-----------------------------------------------------------------------------
\* moveFiles and copyFiles check the user's permissions before they do anything.
checkPermissions ==
    /\ pc = "check"
    /\ \/ pc' = "prepare" /\ UNCHANGED <<status, failed>>
       \/ \E code \in {401, 403} : Return(code) /\ UNCHANGED failed
       \/ Fails("do") /\ Return(500)
    /\ UNCHANGED <<call, src, dst, backup, todo>>

\* prepareDestination up to the rename; 500 if fs.Get or unusedBackupPath fails.
prepareDestination ==
    /\ pc = "prepare"
    /\ \/ dst = Absent /\ pc' = "transfer" /\ UNCHANGED <<status, failed>>
       \/ dst # Absent /\ ~call.overwrite /\ Return(412) /\ UNCHANGED failed
       \/ /\ dst # Absent /\ call.overwrite /\ ~call.canRemove
          /\ Return(403) /\ UNCHANGED failed
       \/ /\ dst # Absent /\ call.overwrite /\ call.canRemove
          /\ pc' = "preserve" /\ UNCHANGED <<status, failed>>
       \/ Fails("do") /\ Return(500)
    /\ UNCHANGED <<call, src, dst, backup, todo>>

\* fs.Rename of the destination to the backup path.  (Mutant: it is removed.)
preserve_Removes ==
    /\ pc = "preserve"
    /\ dst' = Absent /\ pc' = "transfer"
    /\ UNCHANGED <<call, src, backup, status, todo, failed>>

preserve ==
    /\ pc = "preserve"
    /\ \/ /\ dst' = Absent /\ backup' = "whole" /\ pc' = "transfer"
          /\ UNCHANGED <<status, failed>>
       \/ Fails("do") /\ Return(500) /\ UNCHANGED <<dst, backup>>
    /\ UNCHANGED <<call, src, todo>>

-----------------------------------------------------------------------------
(***************************************************************************)
(* fs.MoveTo and fs.CopyTo without a task                                  *)
(***************************************************************************)

\* op.Move and op.Copy refuse a destination in the source's own directory.
inPlace ==
    /\ pc = "transfer" /\ call.sameStorage /\ call.sameDir
    /\ pc' = "purge"
    /\ UNCHANGED <<call, src, dst, backup, todo, status, failed>>

\* The driver's own transfer.  A failed copy of a directory leaves a part of it.
nativeTransfer ==
    /\ pc = "transfer" /\ call.sameStorage /\ ~call.sameDir /\ call.native
    /\ \/ /\ dst' = New(call.content)
          /\ src' = IF call.method = "MOVE" THEN {} ELSE src
          /\ pc' = "cleanup"
          /\ UNCHANGED failed
       \/ /\ dst' \in IF call.method = "COPY" /\ call.isDir
                      THEN {Absent} \cup {New(S) : S \in SUBSET call.content}
                      ELSE {dst}
          /\ pc' = "purge"
          /\ Fails("do")
          /\ UNCHANGED src
    /\ UNCHANGED <<call, backup, todo, status>>

\* NotImplement, or another storage: RunWithNextTaskCallback gets and lists the
\* source.  A native copy of a directory may have begun before it gave up.
startTask ==
    /\ pc = "transfer" /\ ~call.sameDir /\ ~(call.sameStorage /\ call.native)
    /\ \/ /\ dst' \in IF call.sameStorage /\ call.method = "COPY" /\ call.isDir
                      THEN {dst} \cup {New(S) : S \in SUBSET call.content}
                      ELSE {dst}
          /\ todo' = src
          /\ pc' = "upload"
          /\ UNCHANGED failed
       \/ Fails("do") /\ pc' = "purge" /\ UNCHANGED <<dst, todo>>
    /\ UNCHANGED <<call, src, backup, status>>

\* HookAndRemove: the group's name is the path of the destination, and
\* verifyAndRemove looks below it for an object named like the source.
\* The result is what can be left at the source; a failed removal is logged.
HookAndRemove(there) ==
    IF call.method = "MOVE" /\ Twin \in there THEN SUBSET src ELSE {src}

\* One file is uploaded, or the first failure ends the loop.  If any upload has
\* succeeded, Done runs the completion of the group before the error returns.
upload ==
    /\ pc = "upload" /\ todo # {}
    /\ \/ \E f \in todo : /\ dst' = New(dst.files \cup {f})
                          /\ todo' = todo \ {f}
                          /\ UNCHANGED <<src, pc, failed>>
       \/ /\ src' \in IF todo = call.content THEN {src} ELSE HookAndRemove(dst.files)
          /\ Fails("do")
          /\ pc' = "purge"
          /\ UNCHANGED <<dst, todo>>
    /\ UNCHANGED <<call, backup, status>>

\* All are uploaded.
finishTask ==
    /\ pc = "upload" /\ todo = {}
    /\ src' \in HookAndRemove(dst.files)
    /\ pc' = "cleanup"
    /\ UNCHANGED <<call, dst, backup, todo, status, failed>>

-----------------------------------------------------------------------------
\* compensateFailedTransfer: purgeIfExists of the partial destination.  A failed
\* purge of a directory leaves a part of it.  (Mutant: a failure is ignored.)
purge_Ignored ==
    /\ pc = "purge"
    /\ \/ dst' = Absent
       \/ UNCHANGED dst
    /\ IF backup # "none" THEN pc' = "restore" /\ UNCHANGED status ELSE Return(500)
    /\ UNCHANGED <<call, src, backup, todo, failed>>

purge ==
    /\ pc = "purge"
    /\ \/ /\ dst' = Absent
          /\ IF backup # "none" THEN pc' = "restore" /\ UNCHANGED status ELSE Return(500)
          /\ UNCHANGED failed
       \/ /\ dst' \in {dst} \cup (IF dst.kind = "new" /\ call.isDir
                                  THEN {New(S) : S \in SUBSET dst.files} ELSE {})
          /\ Fails("undo")
          /\ Return(500)
    /\ UNCHANGED <<call, src, backup, todo>>

\* The backup is renamed to the destination.
restore ==
    /\ pc = "restore"
    /\ \/ dst' = Old /\ backup' = "none" /\ UNCHANGED failed
       \/ Fails("undo") /\ UNCHANGED <<dst, backup>>
    /\ Return(500)
    /\ UNCHANGED <<call, src, todo>>

\* The reply, which tells whether something was overwritten.  (Mutants: 201
\* whether or not it was, and 200.)
reply_Created == 201

reply_OK == 200

reply == IF call.old THEN 204 ELSE 201

\* fs.Remove of the backup.  A failed removal of a directory may leave a part.
cleanupBackup ==
    /\ pc = "cleanup"
    /\ \/ backup' = "none" /\ Return(reply) /\ UNCHANGED failed
       \/ /\ backup # "none"
          /\ backup' \in {backup} \cup (IF call.oldDir THEN {"part"} ELSE {})
          /\ Fails("cleanup") /\ Return(500)
    /\ UNCHANGED <<call, src, dst, todo>>

-----------------------------------------------------------------------------
Next == \/ checkPermissions \/ prepareDestination \/ preserve
        \/ inPlace \/ nativeTransfer \/ startTask \/ upload \/ finishTask
        \/ purge \/ restore \/ cleanupBackup

Spec == Init /\ [][Next]_vars

-----------------------------------------------------------------------------
(***************************************************************************)
(* Properties                                                              *)
(***************************************************************************)

\* The locals and the storages are well formed.
TypeOK ==
    /\ call \in Calls
    /\ src \subseteq call.content
    /\ dst \in {Absent, Old} \cup {New(S) : S \in SUBSET call.content}
    /\ backup \in {"none", "whole", "part"}
    /\ todo \subseteq call.content
    /\ pc \in {"check", "prepare", "preserve", "transfer", "upload", "purge",
               "restore", "cleanup", "done"}
    /\ status \in {0, 201, 204, 401, 403, 412, 500}
    /\ failed \subseteq {"do", "undo", "cleanup"}

\* The whole of a source that had content is at the destination.
Transferred == call.content # {} => dst = New(call.content)

\* Overwriting does not cost the old destination: it is whole at the destination
\* or at the backup path until all of the source is at the destination.  Only
\* then does cleanupBackup remove it, which may stop half way; a part of it that
\* is left is at the backup path, and it is gone only under the reply 204.
OldSurvives ==
    call.old => \/ dst = Old \/ backup = "whole"
                \/ Transferred /\ (backup = "part" \/ status = 204)

\* A request that failed leaves the destination as it was.  If undoing it failed
\* too, the whole old destination is at the backup path; if only the removal of
\* the backup failed, the transfer is complete and the backup is still there.
FailureUndone ==
    (pc = "done" /\ status \notin {201, 204})
    => CASE "cleanup" \in failed -> Transferred /\ backup # "none"
         [] "undo" \in failed -> call.old => backup = "whole"
         [] OTHER -> backup = "none" /\ dst = IF call.old THEN Old ELSE Absent

\* A reply of success is truthful: the whole of a source that had content is at
\* the destination, no backup is left behind, and 204 tells of an overwrite.
SuccessTruthful ==
    (pc = "done" /\ status \in {201, 204})
    => /\ Transferred
       /\ backup = "none"
       /\ status = 204 <=> call.old

=============================================================================

------------------------- MODULE DavCopyMoveProofs -------------------------
(***************************************************************************)
(* The promises of moveFiles and copyFiles, for every set of files, and    *)
(* what PROPFIND and PROPPATCH answer, for every tree.                     *)
(***************************************************************************)
EXTENDS DavCopyMove, DavProps, TLAPS, FiniteSetTheorems, SequenceTheorems, WellFoundedInduction

\* Before the transfer nothing has happened yet.
Before == /\ dst = IF call.old THEN Old ELSE Absent
          /\ backup = "none"
          /\ pc = "preserve" => call.old
          /\ src = call.content

\* From the rename on, the old destination is exactly at the backup path.
During == /\ backup = IF call.old THEN "whole" ELSE "none"
          /\ dst # Old
          /\ pc = "transfer" => dst = Absent /\ src = call.content
          /\ pc = "upload" => call.content = dst.files \cup todo
          /\ pc = "restore" => call.old /\ dst = Absent
          /\ pc = "cleanup" => Transferred

\* The inductive invariant: TypeOK, and where the old destination is at each
\* point of the request.
IInv == /\ TypeOK
        /\ pc # "done" => status = 0 /\ failed \subseteq {"do"}
        /\ pc \in {"check", "prepare", "preserve"} => Before
        /\ pc \in {"transfer", "upload", "purge", "restore", "cleanup"} => During
        /\ pc = "done" => /\ status # 0
                          /\ OldSurvives /\ FailureUndone /\ SuccessTruthful

Promise == TypeOK /\ OldSurvives /\ FailureUndone /\ SuccessTruthful

\* The invariant holds before the request starts.
LEMMA InitIInv == Init => IInv
  BY FilesAssumption, ZenonT(30) DEF Init, IInv, TypeOK, Before, During, Transferred, Calls, Absent, Old, New,
     OldSurvives, Transferred, FailureUndone, SuccessTruthful

\* What is at the destination is one of three distinguishable kinds.
LEMMA Kinds == /\ Old # Absent
               /\ \A S : New(S) # Old /\ New(S) # Absent
               /\ \A S, T : New(S) = New(T) => S = T
               /\ \A S : New(S).files = S /\ New(S).kind = "new"
               /\ Absent.files = {} /\ Old.kind # "new" /\ Absent.kind # "new"
  BY DEF Old, Absent, New

\* Every action keeps the inductive invariant.
LEMMA NextIInv == IInv /\ [Next]_vars => IInv'
<1> SUFFICES ASSUME IInv, [Next]_vars PROVE IInv'
  OBVIOUS
<1>0. CASE checkPermissions
  <2>1. TypeOK'
    <3>1. (call \in Calls /\ src \subseteq call.content /\ todo \subseteq call.content)'
      BY <1>0 DEF IInv, TypeOK, checkPermissions, Return, Fails
    <3>2. (dst \in {Absent, Old} \cup {New(S) : S \in SUBSET call.content})'
      BY <1>0, Kinds DEF IInv, TypeOK, checkPermissions, Return, Fails
    <3>3. (backup \in {"none", "whole", "part"})'
      BY <1>0 DEF IInv, TypeOK, checkPermissions, Return, Fails
    <3>4. (/\ pc \in {"check", "prepare", "preserve", "transfer", "upload", "purge",
                      "restore", "cleanup", "done"}
           /\ status \in {0, 201, 204, 401, 403, 412, 500})'
      BY <1>0 DEF IInv, TypeOK, checkPermissions, Return, Fails
    <3>5. (failed \subseteq {"do", "undo", "cleanup"})'
      BY <1>0, ZenonT(30) DEF IInv, TypeOK, checkPermissions, Return, Fails
    <3> QED
      BY <3>1, <3>2, <3>3, <3>4, <3>5 DEF TypeOK
  <2>2. (pc # "done" => status = 0 /\ failed \subseteq {"do"})'
    BY <1>0 DEF IInv, checkPermissions, Return, Fails
  <2>3. (pc \in {"check", "prepare", "preserve"} => Before)'
    BY <1>0, Kinds DEF IInv, TypeOK, Before, checkPermissions, Return, Fails
  <2>4. (pc \in {"transfer", "upload", "purge", "restore", "cleanup"} => During)'
    BY <1>0, Kinds DEF IInv, TypeOK, Before, During, Transferred, checkPermissions, Return, Fails
  <2>5. (pc = "done" => /\ status # 0
                       /\ OldSurvives /\ FailureUndone /\ SuccessTruthful)'
    BY <1>0, Kinds DEF IInv, TypeOK, Before, During, Transferred, OldSurvives, FailureUndone,
       SuccessTruthful, checkPermissions, Return, Fails
  <2> QED
    BY <2>1, <2>2, <2>3, <2>4, <2>5 DEF IInv
<1>1. CASE prepareDestination
  <2>1. TypeOK'
    <3>1. (call \in Calls /\ src \subseteq call.content /\ todo \subseteq call.content)'
      BY <1>1 DEF IInv, TypeOK, prepareDestination, Return, Fails
    <3>2. (dst \in {Absent, Old} \cup {New(S) : S \in SUBSET call.content})'
      BY <1>1, Kinds DEF IInv, TypeOK, prepareDestination, Return, Fails
    <3>3. (backup \in {"none", "whole", "part"})'
      BY <1>1 DEF IInv, TypeOK, prepareDestination, Return, Fails
    <3>4. (/\ pc \in {"check", "prepare", "preserve", "transfer", "upload", "purge",
                      "restore", "cleanup", "done"}
           /\ status \in {0, 201, 204, 401, 403, 412, 500})'
      BY <1>1 DEF IInv, TypeOK, prepareDestination, Return, Fails
    <3>5. (failed \subseteq {"do", "undo", "cleanup"})'
      BY <1>1, ZenonT(30) DEF IInv, TypeOK, prepareDestination, Return, Fails
    <3> QED
      BY <3>1, <3>2, <3>3, <3>4, <3>5 DEF TypeOK
  <2>2. (pc # "done" => status = 0 /\ failed \subseteq {"do"})'
    BY <1>1 DEF IInv, prepareDestination, Return, Fails
  <2>3. (pc \in {"check", "prepare", "preserve"} => Before)'
    BY <1>1, Kinds DEF IInv, TypeOK, Before, prepareDestination, Return, Fails
  <2>4. (pc \in {"transfer", "upload", "purge", "restore", "cleanup"} => During)'
    BY <1>1, Kinds DEF IInv, TypeOK, Before, During, Transferred, prepareDestination, Return, Fails
  <2>5. (pc = "done" => /\ status # 0
                       /\ OldSurvives /\ FailureUndone /\ SuccessTruthful)'
    BY <1>1, Kinds DEF IInv, TypeOK, Before, During, Transferred, OldSurvives, FailureUndone,
       SuccessTruthful, prepareDestination, Return, Fails
  <2> QED
    BY <2>1, <2>2, <2>3, <2>4, <2>5 DEF IInv
<1>2. CASE preserve
  <2>1. TypeOK'
    <3>1. (call \in Calls /\ src \subseteq call.content /\ todo \subseteq call.content)'
      BY <1>2 DEF IInv, TypeOK, preserve, Return, Fails
    <3>2. (dst \in {Absent, Old} \cup {New(S) : S \in SUBSET call.content})'
      BY <1>2, Kinds DEF IInv, TypeOK, preserve, Return, Fails
    <3>3. (backup \in {"none", "whole", "part"})'
      BY <1>2, ZenonT(30) DEF IInv, TypeOK, preserve, Return, Fails
    <3>4. (/\ pc \in {"check", "prepare", "preserve", "transfer", "upload", "purge",
                      "restore", "cleanup", "done"}
           /\ status \in {0, 201, 204, 401, 403, 412, 500})'
      BY <1>2 DEF IInv, TypeOK, preserve, Return, Fails
    <3>5. (failed \subseteq {"do", "undo", "cleanup"})'
      BY <1>2, ZenonT(30) DEF IInv, TypeOK, preserve, Return, Fails
    <3> QED
      BY <3>1, <3>2, <3>3, <3>4, <3>5 DEF TypeOK
  <2>2. (pc # "done" => status = 0 /\ failed \subseteq {"do"})'
    BY <1>2 DEF IInv, preserve, Return, Fails
  <2>3. (pc \in {"check", "prepare", "preserve"} => Before)'
    BY <1>2, Kinds DEF IInv, TypeOK, Before, preserve, Return, Fails
  <2>4. (pc \in {"transfer", "upload", "purge", "restore", "cleanup"} => During)'
    BY <1>2, Kinds DEF IInv, TypeOK, Before, During, Transferred, preserve, Return, Fails
  <2>5. (pc = "done" => /\ status # 0
                       /\ OldSurvives /\ FailureUndone /\ SuccessTruthful)'
    BY <1>2, Kinds DEF IInv, TypeOK, Before, During, Transferred, OldSurvives, FailureUndone,
       SuccessTruthful, preserve, Return, Fails
  <2> QED
    BY <2>1, <2>2, <2>3, <2>4, <2>5 DEF IInv
<1>3. CASE inPlace
  <2>1. TypeOK'
    BY <1>3, Kinds DEF IInv, TypeOK, inPlace
  <2>2. (pc # "done" => status = 0 /\ failed \subseteq {"do"})'
    BY <1>3 DEF IInv, inPlace
  <2>3. (pc \in {"check", "prepare", "preserve"} => Before)'
    BY <1>3, Kinds DEF IInv, TypeOK, Before, inPlace
  <2>4. (pc \in {"transfer", "upload", "purge", "restore", "cleanup"} => During)'
    BY <1>3, Kinds DEF IInv, TypeOK, Before, During, Transferred, inPlace
  <2>5. (pc = "done" => /\ status # 0
                       /\ OldSurvives /\ FailureUndone /\ SuccessTruthful)'
    BY <1>3, Kinds DEF IInv, TypeOK, Before, During, Transferred, OldSurvives, FailureUndone,
       SuccessTruthful, inPlace
  <2> QED
    BY <2>1, <2>2, <2>3, <2>4, <2>5 DEF IInv
<1>4. CASE nativeTransfer
  <2>1. TypeOK'
    <3>1. (call \in Calls /\ src \subseteq call.content /\ todo \subseteq call.content)'
      BY <1>4 DEF IInv, TypeOK, nativeTransfer, Fails
    <3>2. (dst \in {Absent, Old} \cup {New(S) : S \in SUBSET call.content})'
      BY <1>4, Kinds DEF IInv, TypeOK, nativeTransfer, Fails
    <3>3. (backup \in {"none", "whole", "part"})'
      BY <1>4 DEF IInv, TypeOK, nativeTransfer, Fails
    <3>4. (/\ pc \in {"check", "prepare", "preserve", "transfer", "upload", "purge",
                      "restore", "cleanup", "done"}
           /\ status \in {0, 201, 204, 401, 403, 412, 500})'
      BY <1>4 DEF IInv, TypeOK, nativeTransfer, Fails
    <3>5. (failed \subseteq {"do", "undo", "cleanup"})'
      BY <1>4 DEF IInv, TypeOK, nativeTransfer, Fails
    <3> QED
      BY <3>1, <3>2, <3>3, <3>4, <3>5 DEF TypeOK
  <2>2. (pc # "done" => status = 0 /\ failed \subseteq {"do"})'
    BY <1>4 DEF IInv, nativeTransfer, Fails
  <2>3. (pc \in {"check", "prepare", "preserve"} => Before)'
    BY <1>4, Kinds DEF IInv, TypeOK, Before, nativeTransfer, Fails
  <2>4. (pc \in {"transfer", "upload", "purge", "restore", "cleanup"} => During)'
    BY <1>4, Kinds DEF IInv, TypeOK, Before, During, Transferred, nativeTransfer, Fails
  <2>5. (pc = "done" => /\ status # 0
                       /\ OldSurvives /\ FailureUndone /\ SuccessTruthful)'
    BY <1>4, Kinds DEF IInv, TypeOK, Before, During, Transferred, OldSurvives, FailureUndone,
       SuccessTruthful, nativeTransfer, Fails
  <2> QED
    BY <2>1, <2>2, <2>3, <2>4, <2>5 DEF IInv
<1>5. CASE startTask
  <2>1. TypeOK'
    <3>1. (call \in Calls /\ src \subseteq call.content /\ todo \subseteq call.content)'
      BY <1>5 DEF IInv, TypeOK, startTask, Fails
    <3>2. (dst \in {Absent, Old} \cup {New(S) : S \in SUBSET call.content})'
      BY <1>5, Kinds DEF IInv, TypeOK, startTask, Fails
    <3>3. (backup \in {"none", "whole", "part"})'
      BY <1>5 DEF IInv, TypeOK, startTask, Fails
    <3>4. (/\ pc \in {"check", "prepare", "preserve", "transfer", "upload", "purge",
                      "restore", "cleanup", "done"}
           /\ status \in {0, 201, 204, 401, 403, 412, 500})'
      BY <1>5 DEF IInv, TypeOK, startTask, Fails
    <3>5. (failed \subseteq {"do", "undo", "cleanup"})'
      BY <1>5, ZenonT(30) DEF IInv, TypeOK, startTask, Fails
    <3> QED
      BY <3>1, <3>2, <3>3, <3>4, <3>5 DEF TypeOK
  <2>2. (pc # "done" => status = 0 /\ failed \subseteq {"do"})'
    BY <1>5 DEF IInv, startTask, Fails
  <2>3. (pc \in {"check", "prepare", "preserve"} => Before)'
    BY <1>5, Kinds DEF IInv, TypeOK, Before, startTask, Fails
  <2>4. (pc \in {"transfer", "upload", "purge", "restore", "cleanup"} => During)'
    BY <1>5, Kinds DEF IInv, TypeOK, Before, During, Transferred, startTask, Fails
  <2>5. (pc = "done" => /\ status # 0
                       /\ OldSurvives /\ FailureUndone /\ SuccessTruthful)'
    BY <1>5, Kinds DEF IInv, TypeOK, Before, During, Transferred, OldSurvives, FailureUndone,
       SuccessTruthful, startTask, Fails
  <2> QED
    BY <2>1, <2>2, <2>3, <2>4, <2>5 DEF IInv
<1>6. CASE upload
  <2>1. /\ UNCHANGED <<call, backup, status>>
        /\ pc = "upload" /\ todo \subseteq call.content
        /\ dst.files \subseteq call.content /\ dst # Old /\ backup = (IF call.old THEN "whole" ELSE "none")
        /\ call.content = dst.files \cup todo
        /\ status = 0 /\ failed \subseteq {"do"}
    BY <1>6, Kinds DEF IInv, TypeOK, During, Transferred, upload
  <2>2. src' \subseteq src
    BY <1>6 DEF upload, HookAndRemove
  <2>3. CASE \E x \in todo : /\ dst' = New(dst.files \cup {x})
                            /\ todo' = todo \ {x}
                            /\ pc' = pc /\ failed' = failed
    <3>1. PICK x \in todo : /\ dst' = New(dst.files \cup {x})
                           /\ todo' = todo \ {x}
                           /\ pc' = pc /\ failed' = failed
      BY <2>3
    <3>2. dst.files \cup {x} \in SUBSET call.content
      BY <2>1
    <3>3. TypeOK'
      BY <2>1, <2>2, <3>1, <3>2 DEF IInv, TypeOK
    <3>4. During'
      BY <2>1, <3>1, Kinds DEF During, Transferred
    <3> QED
      BY <2>1, <3>1, <3>3, <3>4 DEF IInv
  <2>4. CASE dst' = dst /\ todo' = todo /\ pc' = "purge" /\ failed' = failed \cup {"do"}
    <3>1. TypeOK'
      BY <2>1, <2>2, <2>4 DEF IInv, TypeOK
    <3>2. During'
      BY <2>1, <2>4 DEF During, Transferred
    <3> QED
      BY <2>1, <2>4, <3>1, <3>2 DEF IInv
  <2> QED
    BY <1>6, <2>3, <2>4 DEF upload, Fails
<1>7. CASE finishTask
  <2>1. TypeOK'
    BY <1>7, Kinds DEF IInv, TypeOK, finishTask, HookAndRemove
  <2>2. (pc # "done" => status = 0 /\ failed \subseteq {"do"})'
    BY <1>7 DEF IInv, finishTask, HookAndRemove
  <2>3. (pc \in {"check", "prepare", "preserve"} => Before)'
    BY <1>7, Kinds DEF IInv, TypeOK, Before, finishTask, HookAndRemove
  <2>4. (pc \in {"transfer", "upload", "purge", "restore", "cleanup"} => During)'
    BY <1>7, Kinds DEF IInv, TypeOK, Before, During, Transferred, finishTask, HookAndRemove
  <2>5. (pc = "done" => /\ status # 0
                       /\ OldSurvives /\ FailureUndone /\ SuccessTruthful)'
    BY <1>7, Kinds DEF IInv, TypeOK, Before, During, Transferred, OldSurvives, FailureUndone,
       SuccessTruthful, finishTask, HookAndRemove
  <2> QED
    BY <2>1, <2>2, <2>3, <2>4, <2>5 DEF IInv
<1>8. CASE purge
  <2>1. TypeOK'
    <3>1. (call \in Calls /\ src \subseteq call.content /\ todo \subseteq call.content)'
      BY <1>8 DEF IInv, TypeOK, purge, Return, Fails
    <3>2. (dst \in {Absent, Old} \cup {New(S) : S \in SUBSET call.content})'
      BY <1>8, Kinds DEF IInv, TypeOK, purge, Return, Fails
    <3>3. (backup \in {"none", "whole", "part"})'
      BY <1>8 DEF IInv, TypeOK, purge, Return, Fails
    <3>4. (/\ pc \in {"check", "prepare", "preserve", "transfer", "upload", "purge",
                      "restore", "cleanup", "done"}
           /\ status \in {0, 201, 204, 401, 403, 412, 500})'
      BY <1>8 DEF IInv, TypeOK, purge, Return, Fails
    <3>5. (failed \subseteq {"do", "undo", "cleanup"})'
      <4>1. failed' = failed \/ failed' = failed \cup {"undo"}
        BY <1>8 DEF purge, Fails
      <4> QED
        BY <4>1, ZenonT(30) DEF IInv, TypeOK
    <3> QED
      BY <3>1, <3>2, <3>3, <3>4, <3>5 DEF TypeOK
  <2>2. (pc # "done" => status = 0 /\ failed \subseteq {"do"})'
    BY <1>8 DEF IInv, purge, Return, Fails
  <2>3. (pc \in {"check", "prepare", "preserve"} => Before)'
    BY <1>8, Kinds DEF IInv, TypeOK, Before, purge, Return, Fails
  <2>4. (pc \in {"transfer", "upload", "purge", "restore", "cleanup"} => During)'
    BY <1>8, Kinds DEF IInv, TypeOK, Before, During, Transferred, purge, Return, Fails
  <2>5. (pc = "done" => /\ status # 0
                       /\ OldSurvives /\ FailureUndone /\ SuccessTruthful)'
    BY <1>8, Kinds DEF IInv, TypeOK, Before, During, Transferred, OldSurvives, FailureUndone,
       SuccessTruthful, purge, Return, Fails
  <2> QED
    BY <2>1, <2>2, <2>3, <2>4, <2>5 DEF IInv
<1>9. CASE restore
  <2>1. TypeOK'
    <3>1. (call \in Calls /\ src \subseteq call.content /\ todo \subseteq call.content)'
      BY <1>9 DEF IInv, TypeOK, restore, Return, Fails
    <3>2. (dst \in {Absent, Old} \cup {New(S) : S \in SUBSET call.content})'
      BY <1>9, Kinds DEF IInv, TypeOK, restore, Return, Fails
    <3>3. (backup \in {"none", "whole", "part"})'
      BY <1>9 DEF IInv, TypeOK, restore, Return, Fails
    <3>4. (/\ pc \in {"check", "prepare", "preserve", "transfer", "upload", "purge",
                      "restore", "cleanup", "done"}
           /\ status \in {0, 201, 204, 401, 403, 412, 500})'
      BY <1>9 DEF IInv, TypeOK, restore, Return, Fails
    <3>5. (failed \subseteq {"do", "undo", "cleanup"})'
      BY <1>9, ZenonT(30) DEF IInv, TypeOK, restore, Return, Fails
    <3> QED
      BY <3>1, <3>2, <3>3, <3>4, <3>5 DEF TypeOK
  <2>2. (pc # "done" => status = 0 /\ failed \subseteq {"do"})'
    BY <1>9 DEF IInv, restore, Return, Fails
  <2>3. (pc \in {"check", "prepare", "preserve"} => Before)'
    BY <1>9, Kinds DEF IInv, TypeOK, Before, restore, Return, Fails
  <2>4. (pc \in {"transfer", "upload", "purge", "restore", "cleanup"} => During)'
    BY <1>9, Kinds DEF IInv, TypeOK, Before, During, Transferred, restore, Return, Fails
  <2>5. (pc = "done" => /\ status # 0
                       /\ OldSurvives /\ FailureUndone /\ SuccessTruthful)'
    <3>1. /\ call' = call /\ call.old /\ backup = "whole" /\ failed \subseteq {"do"}
          /\ pc' = "done" /\ status' = 500
      BY <1>9 DEF IInv, During, Transferred, restore, Return
    <3>2. CASE dst' = Old /\ backup' = "none" /\ failed' = failed
      BY <3>1, <3>2 DEF OldSurvives, Transferred, FailureUndone, SuccessTruthful
    <3>3. CASE backup' = "whole" /\ failed' = failed \cup {"undo"}
      BY <3>1, <3>3 DEF OldSurvives, Transferred, FailureUndone, SuccessTruthful
    <3> QED
      BY <1>9, <3>1, <3>2, <3>3 DEF restore, Fails
  <2> QED
    BY <2>1, <2>2, <2>3, <2>4, <2>5 DEF IInv
<1>10. CASE cleanupBackup
  <2>1. TypeOK'
    <3>1. (call \in Calls /\ src \subseteq call.content /\ todo \subseteq call.content)'
      BY <1>10 DEF IInv, TypeOK, cleanupBackup, Return, Fails, reply
    <3>2. (dst \in {Absent, Old} \cup {New(S) : S \in SUBSET call.content})'
      BY <1>10, Kinds DEF IInv, TypeOK, cleanupBackup, Return, Fails, reply
    <3>3. (backup \in {"none", "whole", "part"})'
      BY <1>10, ZenonT(30) DEF IInv, TypeOK, cleanupBackup, Return, Fails, reply
    <3>4. (/\ pc \in {"check", "prepare", "preserve", "transfer", "upload", "purge",
                      "restore", "cleanup", "done"}
           /\ status \in {0, 201, 204, 401, 403, 412, 500})'
      BY <1>10 DEF IInv, TypeOK, cleanupBackup, Return, Fails, reply
    <3>5. (failed \subseteq {"do", "undo", "cleanup"})'
      BY <1>10, ZenonT(30) DEF IInv, TypeOK, cleanupBackup, Return, Fails, reply
    <3> QED
      BY <3>1, <3>2, <3>3, <3>4, <3>5 DEF TypeOK
  <2>2. (pc # "done" => status = 0 /\ failed \subseteq {"do"})'
    BY <1>10 DEF IInv, cleanupBackup, Return, Fails, reply
  <2>3. (pc \in {"check", "prepare", "preserve"} => Before)'
    BY <1>10, Kinds DEF IInv, TypeOK, Before, cleanupBackup, Return, Fails, reply
  <2>4. (pc \in {"transfer", "upload", "purge", "restore", "cleanup"} => During)'
    BY <1>10, Kinds DEF IInv, TypeOK, Before, During, Transferred, cleanupBackup, Return, Fails, reply
  <2>5. (pc = "done" => /\ status # 0
                       /\ OldSurvives /\ FailureUndone /\ SuccessTruthful)'
    BY <1>10, Kinds DEF IInv, TypeOK, Before, During, Transferred, OldSurvives, FailureUndone,
       SuccessTruthful, cleanupBackup, Return, Fails, reply
  <2> QED
    BY <2>1, <2>2, <2>3, <2>4, <2>5 DEF IInv
<1>11. CASE UNCHANGED vars
  BY <1>11 DEF vars, IInv, TypeOK, Before, During, Transferred, OldSurvives, FailureUndone,
     SuccessTruthful
<1> QED
  BY <1>0, <1>1, <1>2, <1>3, <1>4, <1>5, <1>6, <1>7, <1>8, <1>9, <1>10,
     <1>11 DEF Next

\* The invariant gives the promises, before and after the reply.
LEMMA IInvImplies == IInv => Promise
  BY Kinds DEF IInv, Promise, TypeOK, OldSurvives, Transferred, FailureUndone, SuccessTruthful,
     Before, During, Transferred

\* The invariant holds throughout every request.
LEMMA Always == Spec => []IInv
  BY InitIInv, NextIInv, PTL DEF Spec

\* The locals of moveFiles and copyFiles and the storages are well formed in
\* every reachable state.
THEOREM TypeCorrect == Spec => []TypeOK
  <1>1. IInv => TypeOK
    BY DEF IInv
  <1> QED
    BY <1>1, Always, PTL

\* Overwriting a destination by MOVE or COPY does not cost its old content,
\* whichever call to the storages fails, before the whole source is at the
\* destination; what a removal of the backup that stops half way leaves is at
\* the backup path (moveFiles, copyFiles, cleanupBackup).
THEOREM OldAlwaysSurvives == Spec => []OldSurvives
  <1>1. IInv => OldSurvives
    BY IInvImplies DEF Promise
  <1> QED
    BY <1>1, Always, PTL

\* A failed MOVE or COPY leaves the destination as it was, or all of the old
\* content at the backup path (compensateFailedTransfer), or else the transfer is
\* complete and only the removal of the backup failed (cleanupBackup).
THEOREM FailuresAreUndone == Spec => []FailureUndone
  <1>1. IInv => FailureUndone
    BY IInvImplies DEF Promise
  <1> QED
    BY <1>1, Always, PTL

\* The reply of success is truthful about the destination (moveFiles, copyFiles).
THEOREM SuccessIsTruthful == Spec => []SuccessTruthful
  <1>1. IInv => SuccessTruthful
    BY IInvImplies DEF Promise
  <1> QED
    BY <1>1, Always, PTL

-----------------------------------------------------------------------------
(***************************************************************************)
(* PROPFIND and PROPPATCH                                                  *)
(***************************************************************************)

\* m is n or above it.
PAbove(m, n) == Len(m) <= Len(n) /\ \A i \in 1..Len(m) : m[i] = n[i]
PFits(n) == preq.depth = Infinite \/ Len(n) <= preq.depth
PDepth(n) == IF preq.depth = Infinite THEN Infinite ELSE preq.depth - Len(n)
\* The nodes that wait are apart from each other and from those that were answered, and
\* whatever is within the depth was answered or is below one that waits.
PWaiting ==
  /\ ppending \in Seq([node : DOMAIN PTree, depth : Int])
  /\ \A i \in 1..Len(ppending) : PFits(ppending[i].node) /\ ppending[i].depth = PDepth(ppending[i].node)
  /\ \A i, j \in 1..Len(ppending) : PAbove(ppending[i].node, ppending[j].node) => i = j
PBuffered ==
  /\ pbuf \in Seq([node : DOMAIN PTree, stats : {Asked(n) : n \in DOMAIN PTree}])
  /\ \A k \in 1..Len(pbuf) : PFits(pbuf[k].node) /\ pbuf[k].stats = Asked(pbuf[k].node)
  /\ \A k, l \in 1..Len(pbuf) : pbuf[k].node = pbuf[l].node => k = l
PWalking ==
  /\ PWaiting
  /\ \A i \in 1..Len(ppending), k \in 1..Len(pbuf) : ~PAbove(ppending[i].node, pbuf[k].node)
  /\ \A n \in DOMAIN PTree : PFits(n) => \/ \E k \in 1..Len(pbuf) : pbuf[k].node = n
                                         \/ \E i \in 1..Len(ppending) : PAbove(ppending[i].node, n)
  /\ pmw = (IF pbuf = <<>> THEN "none" ELSE "open")
PropInv ==
  /\ preq.method \in {"", "PROPFIND", "PROPPATCH"}
  /\ preq.method = "" => preply = 0 /\ pmw = "none" /\ pbuf = <<>>
  /\ preq.method = "PROPFIND" =>
       /\ preq.depth \in {0, 1, Infinite} /\ preq.body \in PBodies /\ preply \in {0, 404, 207} /\ PBuffered
       /\ preply # 404 => readPropfind(preq.body)
       /\ preply = 0 => PWalking
       /\ preply = 207 => PWhole
  /\ preq.method = "PROPPATCH" /\ preply = 207 =>
       pbuf = <<[node |-> PRoot, stats |-> patch(Patched(preq.body))]>>

-----------------------------------------------------------------------------
(* The tree                                                                     *)

\* A set of naturals that is not empty has a smallest one.
LEMMA SmallestOf ==
  ASSUME NEW T, T \subseteq Nat, T # {}
  PROVE  \E m \in T : \A n \in T : m <= n
  <1> DEFINE R == {xy \in Nat \X Nat : xy[1] < xy[2]}
  <1>1. IsWellFoundedOn(R, Nat)
    <2>1. R = OpToRel(<, Nat)
      BY DEF OpToRel
    <2> QED
      BY <2>1, NatLessThanWellFounded
  <1>2. PICK m \in T : \A n \in T : ~(<<n, m>> \in R)
    BY <1>1, WFMin
  <1>3. \A n \in T : ~(n < m)
    BY <1>2
  <1> QED
    BY <1>3

LEMMA TreeNode ==
  ASSUME NEW n \in DOMAIN PTree
  PROVE  /\ n \in Seq(PNames) /\ Len(n) \in Nat
         /\ n # PRoot => /\ Len(n) # 0 /\ Front(n) \in DOMAIN PTree /\ PTree[Front(n)] /\ Len(Front(n)) = Len(n) - 1
                         /\ \A i \in 1..(Len(n) - 1) : Front(n)[i] = n[i]
<1>1. n \in Seq(PNames) /\ Len(n) \in Nat
  BY PAssumption
<1>2. ASSUME n # PRoot PROVE Len(n) # 0 /\ Len(Front(n)) = Len(n) - 1 /\ \A i \in 1..(Len(n) - 1) : Front(n)[i] = n[i]
  <2>1. Len(n) # 0
    BY <1>1, <1>2 DEF PRoot
  <2>2. Len(n) - 1 \in Nat /\ Front(n) = SubSeq(n, 1, Len(n) - 1)
    BY <1>1, <2>1 DEF Front
  <2>3. \A m \in Nat : m <= Len(n) => Len(SubSeq(n, 1, m)) = m /\ \A i \in 1..m : SubSeq(n, 1, m)[i] = n[i]
    BY <1>1
  <2>4. PICK m \in Nat : m = Len(n) - 1 /\ m <= Len(n)
    BY <1>1, <2>2
  <2>5. Len(SubSeq(n, 1, m)) = m /\ \A i \in 1..m : SubSeq(n, 1, m)[i] = n[i]
    BY <2>3, <2>4
  <2>6. Front(n) = SubSeq(n, 1, m)
    BY <2>2, <2>4
  <2> QED BY <2>1, <2>4, <2>5, <2>6
<1> QED BY <1>1, <1>2, PAssumption

LEMMA SameNode ==
  ASSUME NEW m \in DOMAIN PTree, NEW n \in DOMAIN PTree, Len(m) = Len(n), PAbove(m, n)
  PROVE  m = n
<1>1. m \in Seq(PNames) /\ n \in Seq(PNames)
  BY TreeNode
<1> QED BY <1>1 DEF PAbove

\* Every node below a, except a, is below a member of a.
LEMMA MemberAbove ==
  ASSUME NEW a \in DOMAIN PTree, NEW n \in DOMAIN PTree, PAbove(a, n), a # n
  PROVE  PTree[a] /\ \E c \in DOMAIN PTree : c # PRoot /\ Front(c) = a /\ PAbove(c, n)
<1> DEFINE Up(k) == \E c \in DOMAIN PTree : Len(c) = k /\ PAbove(c, n)
           Ks == {k \in Nat : k > Len(a) /\ Up(k)}
<1>1. Len(a) \in Nat /\ Len(n) \in Nat /\ Len(a) < Len(n)
  BY TreeNode, SameNode DEF PAbove
<1>2. Up(Len(n))
  BY <1>1 DEF PAbove
<1>3. PICK k \in Ks : \A l \in Ks : k <= l
  <2>1. Ks # {} /\ Ks \subseteq Nat
    BY <1>1, <1>2
  <2> HIDE DEF Ks
  <2> QED BY <2>1, SmallestOf
<1>4. PICK c \in DOMAIN PTree : Len(c) = k /\ PAbove(c, n)
  OBVIOUS
<1>5. c # PRoot /\ k \in Nat /\ k > Len(a)
  BY <1>1, <1>4 DEF PRoot
<1>6. /\ Front(c) \in DOMAIN PTree /\ PTree[Front(c)] /\ Len(Front(c)) = k - 1
      /\ PAbove(Front(c), n) /\ \A i \in 1..(k - 1) : Front(c)[i] = c[i]
  <2>1. Front(c) \in DOMAIN PTree /\ PTree[Front(c)] /\ Len(Front(c)) = k - 1 /\ \A i \in 1..(k - 1) : Front(c)[i] = c[i]
    BY <1>4, <1>5, TreeNode
  <2> QED BY <1>4, <1>5, <2>1 DEF PAbove
<1>7. k - 1 = Len(a)
  <2>1. k - 1 \in Nat /\ ~(k - 1 \in Ks)
    BY <1>1, <1>3, <1>5
  <2> QED BY <1>1, <1>5, <1>6, <2>1
<1>8. PAbove(Front(c), a)
  BY <1>1, <1>6, <1>7 DEF PAbove
<1>9. Front(c) = a
  BY <1>6, <1>7, <1>8, SameNode
<1> QED BY <1>4, <1>5, <1>6, <1>9

\* walkFS: the members of a node, each once.
LEMMA MembersOnce ==
  ASSUME NEW S \in SUBSET (DOMAIN PTree)
  PROVE  LET w == SetToSeq(S)
         IN  /\ w \in Seq(S) /\ Len(w) \in Nat
             /\ \A i, j \in 1..Len(w) : w[i] = w[j] => i = j
             /\ \A c \in S : \E i \in 1..Len(w) : w[i] = c
<1> DEFINE n == Cardinality(S)
           w == CHOOSE g \in [1..n -> S] : IsInjective(g)
<1>1. IsFiniteSet(S) /\ n \in Nat /\ ExistsBijection(1..n, S)
  <2>1. IsFiniteSet(S)
    BY PAssumption, FS_Subset
  <2> QED BY <2>1, FS_CardinalityType
<1>2. IsFiniteSet(1..n) /\ Cardinality(1..n) = Cardinality(S)
  <2>1. PICK m \in Nat : m = n
    BY <1>1
  <2>2. IsFiniteSet(1..m) /\ Cardinality(1..m) = m
    <3>1. 1 \in Int /\ m \in Int /\ (1 > m <=> m = 0)
      BY <2>1
    <3>2. IsFiniteSet(1..m) /\ Cardinality(1..m) = IF 1 > m THEN 0 ELSE m - 1 + 1
      BY <3>1, FS_Interval
    <3> QED BY <3>1, <3>2
  <2> QED BY <2>1, <2>2
<1>3. SetToSeq(S) = w
  BY DEF SetToSeq
<1> HIDE DEF n
<1>4. \E g \in [1..n -> S] : IsInjective(g)
  BY <1>1 DEF ExistsBijection, Bijection, Injection
<1>5. w \in [1..n -> S] /\ IsInjective(w)
  BY <1>4
<1> HIDE DEF w
<1>6. w \in Surjection(1..n, S)
  <2>1. w \in Injection(1..n, S)
    BY <1>5 DEF Injection
  <2> QED BY <1>1, <1>2, <2>1, FS_Injection
<1>7. w \in Seq(S) /\ Len(w) = n /\ \A c \in S : \E i \in 1..n : w[i] = c
  BY <1>1, <1>5, <1>6 DEF Surjection
<1>8. \A i, j \in 1..n : w[i] = w[j] => i = j
  BY <1>5 DEF IsInjective
<1> QED BY <1>1, <1>3, <1>7, <1>8

-----------------------------------------------------------------------------
(* Propstats                                                                    *)

\* makePropstats leaves out what has no names.
LEMMA MadeOf ==
  ASSUME NEW x, NEW y, x.names # <<>> \/ y.names # <<>>
  PROVE  LET s == makePropstats(x, y)
         IN  /\ DOMAIN s \in {1..1, 1..2} /\ \A i \in DOMAIN s : s[i] \in {x, y} /\ s[i].names # <<>>
             /\ x.names # <<>> => 1 \in DOMAIN s /\ s[1] = x
             /\ y.names # <<>> => Len(s) \in DOMAIN s /\ s[Len(s)] = y
             /\ x.names # <<>> /\ y.names # <<>> => DOMAIN s = 1..2 /\ Len(s) = 2
             /\ x.names = <<>> \/ y.names = <<>> => DOMAIN s = 1..1 /\ Len(s) = 1
<1>1. CASE x.names # <<>> /\ y.names # <<>>
  <2>1. PICK a \in Seq({x, y}), b \in Seq({x, y}) : a = <<x>> /\ b = <<y>> /\ Len(a) = 1 /\ Len(b) = 1 /\ a[1] = x /\ b[1] = y
    <3>1. <<x>> \in Seq({x, y}) /\ Len(<<x>>) = 1 /\ <<x>>[1] = x
      OBVIOUS
    <3>2. <<y>> \in Seq({x, y}) /\ Len(<<y>>) = 1 /\ <<y>>[1] = y
      OBVIOUS
    <3> QED BY <3>1, <3>2
  <2>2. makePropstats(x, y) = a \o b
    BY <1>1, <2>1 DEF makePropstats
  <2>3. Len(a \o b) = 2 /\ DOMAIN (a \o b) = 1..2 /\ (a \o b)[1] = x /\ (a \o b)[2] = y
    BY <2>1
  <2> QED BY <1>1, <2>2, <2>3
<1>2. CASE x.names # <<>> /\ y.names = <<>>
  <2>1. makePropstats(x, y) = <<x>>
    BY <1>2 DEF makePropstats
  <2> QED BY <1>2, <2>1
<1>3. CASE x.names = <<>> /\ y.names # <<>>
  <2>1. makePropstats(x, y) = <<y>>
    BY <1>3 DEF makePropstats
  <2> QED BY <1>3, <2>1
<1> QED BY <1>1, <1>2, <1>3

\* Every place of the request is in one of the two propstats, by whether its name is in S.
LEMMA SplitsIn ==
  ASSUME NEW names, names = [k \in DOMAIN names |-> names[k]], NEW S, NEW st, NEW other, st # other
  PROVE  LET s == Split(st, names, S, other)
         IN  /\ With(s, st) = Range(names) \cap S /\ With(s, other) = Range(names) \ S
             /\ \A z : z \notin {200, st, other} => With(s, z) = {}
             /\ 200 \notin {st, other} => With(s, 200) = {}
             /\ \A k \in DOMAIN names : \E j \in DOMAIN s : Holding(s, k) = {j} /\ s[j].names[k] = names[k]
<1> DEFINE In == Restrict(names, Places(names, S))
           Out == Restrict(names, DOMAIN names \ Places(names, S))
           x == Pstat(st, In)
           y == Pstat(other, Out)
           s == Split(st, names, S, other)
<1>1. /\ DOMAIN In = Places(names, S) /\ DOMAIN Out = DOMAIN names \ Places(names, S)
      /\ \A k \in DOMAIN In : In[k] = names[k]
      /\ \A k \in DOMAIN Out : Out[k] = names[k]
      /\ Places(names, S) \subseteq DOMAIN names
  BY DEF Restrict, Places
<1>2. /\ Range(In) = Range(names) \cap S /\ Range(Out) = Range(names) \ S
  BY <1>1 DEF Range, Places
<1>3. (In = <<>> <=> DOMAIN In = {}) /\ (Out = <<>> <=> DOMAIN Out = {})
  <2>1. \A P : Restrict(names, P) = <<>> <=> P = {}
    <3> TAKE P
    <3>1. DOMAIN Restrict(names, P) = P
      BY DEF Restrict
    <3>2. P = {} => Restrict(names, P) = [k \in {} |-> names[k]]
      BY DEF Restrict
    <3>3. [k \in {} |-> names[k]] = <<>>
      OBVIOUS
    <3>4. DOMAIN <<>> = {}
      OBVIOUS
    <3> QED BY <3>1, <3>2, <3>3, <3>4
  <2> QED BY <1>1, <2>1
<1>4. x.names = In /\ y.names = Out /\ x.status = st /\ y.status = other
  BY DEF Pstat
<1>5. s = makePropstats(x, y)
  BY DEF Split
<1> HIDE DEF In, Out, x, y, s
<1>6. CASE In = <<>> /\ Out = <<>>
  <2>1. s = <<Pstat(200, <<>>)>>
    BY <1>4, <1>5, <1>6 DEF makePropstats
  <2>2. DOMAIN names = {} /\ Range(names) = {}
    BY <1>1, <1>3, <1>6 DEF Range
  <2>3. DOMAIN s = {1} /\ s[1].status = 200 /\ s[1].names = <<>>
    BY <2>1 DEF Pstat
  <2>4. Range(<<>>) = {}
    BY DEF Range
  <2>5. \A z : With(s, z) = {}
    BY <2>3, <2>4 DEF With
  <2> QED BY <2>2, <2>5 DEF s
<1>7. CASE In # <<>> \/ Out # <<>>
  <2>1. /\ DOMAIN s \in {1..1, 1..2} /\ \A i \in DOMAIN s : s[i] \in {x, y} /\ s[i].names # <<>>
        /\ In # <<>> => 1 \in DOMAIN s /\ s[1] = x
        /\ Out # <<>> => Len(s) \in DOMAIN s /\ s[Len(s)] = y
        /\ In # <<>> /\ Out # <<>> => DOMAIN s = 1..2 /\ Len(s) = 2
        /\ In = <<>> \/ Out = <<>> => DOMAIN s = 1..1 /\ Len(s) = 1
    BY <1>4, <1>5, <1>7, MadeOf
  <2>2. \A z, n : n \in With(s, z) <=> (z = st /\ n \in Range(In)) \/ (z = other /\ n \in Range(Out))
    <3>1. ASSUME NEW z, NEW n, n \in With(s, z) PROVE (z = st /\ n \in Range(In)) \/ (z = other /\ n \in Range(Out))
      <4>1. PICK i \in DOMAIN s : s[i].status = z /\ n \in Range(s[i].names)
        BY <3>1 DEF With
      <4> QED BY <1>4, <2>1, <4>1
    <3>2. ASSUME NEW n, n \in Range(In) PROVE n \in With(s, st)
      <4>1. In # <<>>
        BY <1>3, <3>2 DEF Range
      <4> QED BY <1>4, <2>1, <3>2, <4>1 DEF With
    <3>3. ASSUME NEW n, n \in Range(Out) PROVE n \in With(s, other)
      <4>1. Out # <<>>
        BY <1>3, <3>3 DEF Range
      <4> QED BY <1>4, <2>1, <3>3, <4>1 DEF With
    <3> QED BY <3>1, <3>2, <3>3
  <2>3. ASSUME NEW k \in DOMAIN names PROVE \E j \in DOMAIN s : Holding(s, k) = {j} /\ s[j].names[k] = names[k]
    <3>1. CASE k \in DOMAIN In
      <4>1. k \notin DOMAIN Out /\ In # <<>>
        BY <1>1, <1>3, <3>1
      <4>2. 1 \in DOMAIN s /\ s[1] = x /\ \A i \in DOMAIN s : i # 1 => s[i] = y
        BY <2>1, <4>1
      <4>3. Holding(s, k) = {1}
        BY <1>4, <3>1, <4>1, <4>2 DEF Holding
      <4> QED BY <1>1, <1>4, <3>1, <4>2, <4>3
    <3>2. CASE k \in DOMAIN Out
      <4>1. k \notin DOMAIN In /\ Out # <<>>
        BY <1>1, <1>3, <3>2
      <4>2. Len(s) \in DOMAIN s /\ s[Len(s)] = y /\ \A i \in DOMAIN s : i # Len(s) => s[i] = x
        BY <2>1, <4>1
      <4>3. Holding(s, k) = {Len(s)}
        BY <1>4, <3>2, <4>1, <4>2 DEF Holding
      <4> QED BY <1>1, <1>4, <3>2, <4>2, <4>3
    <3> QED BY <1>1, <2>3, <3>1, <3>2
  <2>4. \A z, n : n \in With(s, z) <=> (z = st /\ n \in Range(names) \cap S) \/ (z = other /\ n \in Range(names) \ S)
    BY <1>2, <2>2
  <2>5. /\ With(s, st) = Range(names) \cap S /\ With(s, other) = Range(names) \ S
        /\ \A z : z \notin {st, other} => With(s, z) = {}
    BY <2>4
  <2> QED BY <2>3, <2>5 DEF s
<1> QED BY <1>6, <1>7

-----------------------------------------------------------------------------
(* Steps                                                                        *)

LEMMA Joined ==
  ASSUME NEW X, NEW b \in Seq(X), NEW t \in Seq(X)
  PROVE  /\ b \o t \in Seq(X) /\ Len(b \o t) = Len(b) + Len(t) /\ Len(t) \in Nat
         /\ \A i \in 1..Len(b \o t) : (b \o t)[i] = IF i <= Len(b) THEN b[i] ELSE t[i - Len(b)]
OBVIOUS

LEMMA Nodes ==
  ASSUME PBuffered
  PROVE  DOMAIN pbuf = 1..Len(pbuf) /\ \A k \in 1..Len(pbuf) : pbuf[k].node \in DOMAIN PTree
<1> DEFINE R == [node : DOMAIN PTree, stats : {Asked(n) : n \in DOMAIN PTree}]
<1>1. pbuf \in Seq(R)
  BY DEF PBuffered
<1>2. DOMAIN pbuf = 1..Len(pbuf) /\ \A k \in 1..Len(pbuf) : pbuf[k] \in R
  <2> HIDE DEF R
  <2> QED BY <1>1
<1> QED BY <1>2

LEMMA AboveFacts ==
  /\ \A n \in DOMAIN PTree : PAbove(n, n)
  /\ \A a, c, n \in DOMAIN PTree : PAbove(a, c) /\ PAbove(c, n) => PAbove(a, n)
<1>1. \A n \in DOMAIN PTree : Len(n) \in Nat
  BY TreeNode
<1> QED BY <1>1 DEF PAbove

\* The members of a node, with the depth that walkFS gives them.
LEMMA BelowHas ==
  ASSUME PropInv, preq.method = "PROPFIND", NEW at \in [node : DOMAIN PTree, depth : Int],
         PFits(at.node), at.depth = PDepth(at.node), PTree[at.node], at.depth # 0
  PROVE  LET kids == SetToSeq({n \in DOMAIN PTree : n # PRoot /\ Front(n) = at.node})
             below == [i \in DOMAIN kids |-> [node |-> kids[i], depth |-> IF at.depth = 1 THEN 0 ELSE at.depth]]
         IN  /\ below \in Seq([node : DOMAIN PTree, depth : Int])
             /\ \A i \in 1..Len(below) : /\ PFits(below[i].node) /\ below[i].depth = PDepth(below[i].node)
                                         /\ PAbove(at.node, below[i].node) /\ Len(below[i].node) = Len(at.node) + 1
             /\ \A i, j \in 1..Len(below) : below[i].node = below[j].node => i = j
             /\ \A n \in DOMAIN PTree : n # PRoot /\ Front(n) = at.node => \E i \in 1..Len(below) : below[i].node = n
<1> DEFINE a == at.node
           S == {n \in DOMAIN PTree : n # PRoot /\ Front(n) = a}
           kids == SetToSeq(S)
           below == [i \in DOMAIN kids |-> [node |-> kids[i], depth |-> IF at.depth = 1 THEN 0 ELSE at.depth]]
<1>1. /\ kids \in Seq(S) /\ Len(kids) \in Nat
      /\ \A i, j \in 1..Len(kids) : kids[i] = kids[j] => i = j
      /\ \A c \in S : \E i \in 1..Len(kids) : kids[i] = c
  <2>1. S \in SUBSET (DOMAIN PTree)
    OBVIOUS
  <2> HIDE DEF S
  <2> QED BY <2>1, MembersOnce
<1>2. \A c \in S : /\ c \in DOMAIN PTree /\ PAbove(a, c) /\ Len(c) = Len(a) + 1 /\ Len(a) \in Nat
  <2> SUFFICES ASSUME NEW c \in S PROVE /\ PAbove(a, c) /\ Len(c) = Len(a) + 1 /\ Len(a) \in Nat
    OBVIOUS
  <2>1. Len(c) \in Nat /\ Len(c) # 0 /\ Len(a) = Len(c) - 1 /\ \A i \in 1..(Len(c) - 1) : a[i] = c[i]
    BY TreeNode
  <2> QED BY <2>1 DEF PAbove
<1>3. preq.depth \in {0, 1, Infinite} /\ at.depth \in Int /\ Infinite = -1
  BY DEF PropInv, Infinite
<1>4. \A c \in S : PFits(c) /\ (IF at.depth = 1 THEN 0 ELSE at.depth) = PDepth(c) /\ PDepth(c) \in Int
  <2> SUFFICES ASSUME NEW c \in S PROVE PFits(c) /\ (IF at.depth = 1 THEN 0 ELSE at.depth) = PDepth(c) /\ PDepth(c) \in Int
    OBVIOUS
  <2>1. Len(c) = Len(a) + 1 /\ Len(a) \in Nat
    BY <1>2
  <2> HIDE DEF S
  <2>2. CASE preq.depth = Infinite
    BY <1>3, <2>1, <2>2 DEF PFits, PDepth
  <2>3. CASE preq.depth # Infinite
    <3>1. preq.depth \in {0, 1} /\ Len(a) <= preq.depth /\ at.depth = preq.depth - Len(a)
      BY <1>3, <2>3 DEF PFits, PDepth
    <3>2. Len(a) = 0 /\ preq.depth = 1 /\ at.depth = 1
      BY <2>1, <3>1
    <3> QED BY <1>3, <2>1, <3>2 DEF PFits, PDepth
  <2> QED BY <2>2, <2>3
<1> HIDE DEF S, kids
<1>5. /\ DOMAIN kids = 1..Len(kids) /\ DOMAIN below = 1..Len(kids) /\ Len(below) = Len(kids)
      /\ \A i \in 1..Len(kids) : kids[i] \in S /\ below[i].node = kids[i] /\ below[i].depth = IF at.depth = 1 THEN 0 ELSE at.depth
      /\ \A i \in 1..Len(kids) : below[i] = [node |-> kids[i], depth |-> IF at.depth = 1 THEN 0 ELSE at.depth]
  <2>1. DOMAIN kids = 1..Len(kids) /\ Len(kids) \in Nat /\ \A i \in 1..Len(kids) : kids[i] \in S
    BY <1>1
  <2>2. DOMAIN below = 1..Len(kids)
    BY <2>1
  <2>3. \A i \in 1..Len(kids) : below[i] = [node |-> kids[i], depth |-> IF at.depth = 1 THEN 0 ELSE at.depth]
    BY <2>1
  <2>4. Len(below) = Len(kids)
    BY <2>1, <2>2
  <2> HIDE DEF below
  <2> QED BY <2>1, <2>2, <2>3, <2>4
<1>6. \A i \in 1..Len(kids) : below[i] \in [node : DOMAIN PTree, depth : Int]
  <2> SUFFICES ASSUME NEW i \in 1..Len(kids) PROVE below[i] \in [node : DOMAIN PTree, depth : Int]
    OBVIOUS
  <2>1. kids[i] \in S /\ below[i] = [node |-> kids[i], depth |-> PDepth(kids[i])]
    BY <1>4, <1>5
  <2>2. kids[i] \in DOMAIN PTree /\ PDepth(kids[i]) \in Int
    BY <1>2, <1>4, <2>1
  <2> HIDE DEF below
  <2> QED BY <2>1, <2>2
<1>7. below \in Seq([node : DOMAIN PTree, depth : Int])
  BY <1>1, <1>5, <1>6
<1> HIDE DEF below
<1>8. \A i \in 1..Len(below) : /\ PFits(below[i].node) /\ below[i].depth = PDepth(below[i].node)
                               /\ PAbove(a, below[i].node) /\ Len(below[i].node) = Len(a) + 1
  BY <1>2, <1>4, <1>5
<1>9. \A i, j \in 1..Len(below) : below[i].node = below[j].node => i = j
  BY <1>1, <1>5
<1>10. \A n \in DOMAIN PTree : n # PRoot /\ Front(n) = a => \E i \in 1..Len(below) : below[i].node = n
  BY <1>1, <1>5 DEF S
<1> QED BY <1>7, <1>8, <1>9, <1>10 DEF below, kids, S

\* A node is answered, and its members wait in its place.
LEMMA walkKeeps ==
  ASSUME PropInv, walkFS
  PROVE  PropInv'
<1> DEFINE at == Head(ppending)
           a == at.node
           kids == SetToSeq({n \in DOMAIN PTree : n # PRoot /\ Front(n) = at.node})
           below == [i \in DOMAIN kids |-> [node |-> kids[i], depth |-> IF at.depth = 1 THEN 0 ELSE at.depth]]
           B == IF PTree[at.node] /\ at.depth # 0 THEN below ELSE <<>>
           T == Tail(ppending)
           E == [node : DOMAIN PTree, depth : Int]
<1>1. /\ preq.method = "PROPFIND" /\ preply = 0 /\ ppending # <<>> /\ UNCHANGED <<preq, preply>>
      /\ pmw' = "open" /\ pbuf' = Append(pbuf, [node |-> a, stats |-> Asked(a)]) /\ ppending' = B \o T
  BY DEF walkFS, mwWrite
<1>2. PWaiting /\ PWalking /\ PBuffered
  BY <1>1 DEF PropInv, PWalking
<1>3. /\ ppending \in Seq(E) /\ Len(ppending) \in Nat \ {0} /\ at = ppending[1] /\ at \in E /\ a \in DOMAIN PTree
      /\ T \in Seq(E) /\ Len(T) = Len(ppending) - 1 /\ \A i \in 1..Len(T) : i + 1 \in 1..Len(ppending) /\ T[i] = ppending[i + 1]
  <2>1. ppending \in Seq(E) /\ ppending # <<>>
    BY <1>1, <1>2 DEF PWaiting
  <2> HIDE DEF E
  <2>2. /\ Len(ppending) \in Nat \ {0} /\ at = ppending[1] /\ at \in E
        /\ T \in Seq(E) /\ Len(T) = Len(ppending) - 1 /\ \A i \in 1..Len(T) : i + 1 \in 1..Len(ppending) /\ T[i] = ppending[i + 1]
    BY <2>1
  <2> QED BY <2>1, <2>2 DEF E
<1>4. PFits(a) /\ at.depth = PDepth(a)
  BY <1>2, <1>3 DEF PWaiting
<1>5. /\ B \in Seq(E) /\ Len(B) \in Nat
      /\ \A i \in 1..Len(B) : /\ B[i] \in E /\ PFits(B[i].node) /\ B[i].depth = PDepth(B[i].node)
                              /\ PAbove(a, B[i].node) /\ Len(B[i].node) = Len(a) + 1
      /\ \A i, j \in 1..Len(B) : B[i].node = B[j].node => i = j
      /\ PTree[a] /\ at.depth # 0 =>
           \A n \in DOMAIN PTree : n # PRoot /\ Front(n) = a => \E i \in 1..Len(B) : B[i].node = n
  <2>1. CASE PTree[a] /\ at.depth # 0
    <3>1. B = below
      BY <2>1
    <3>2. /\ below \in Seq(E)
          /\ \A i \in 1..Len(below) : /\ PFits(below[i].node) /\ below[i].depth = PDepth(below[i].node)
                                      /\ PAbove(a, below[i].node) /\ Len(below[i].node) = Len(a) + 1
          /\ \A i, j \in 1..Len(below) : below[i].node = below[j].node => i = j
          /\ \A n \in DOMAIN PTree : n # PRoot /\ Front(n) = a => \E i \in 1..Len(below) : below[i].node = n
      BY <1>1, <1>3, <1>4, <2>1, BelowHas
    <3> HIDE DEF below, B, E
    <3>3. Len(B) \in Nat /\ \A i \in 1..Len(B) : B[i] \in E
      BY <3>1, <3>2
    <3> QED BY <3>1, <3>2, <3>3
  <2>2. CASE ~(PTree[a] /\ at.depth # 0)
    <3>1. B = <<>>
      BY <2>2
    <3>2. B \in Seq(E) /\ Len(B) = 0
      BY <3>1
    <3> HIDE DEF B
    <3> QED BY <2>2, <3>2
  <2> QED BY <2>1, <2>2
<1> HIDE DEF B, T, at
<1>6. /\ ppending' \in Seq(E) /\ Len(ppending') = Len(B) + Len(T) /\ Len(T) \in Nat
      /\ \A i \in 1..Len(ppending') : ppending'[i] = IF i <= Len(B) THEN B[i] ELSE T[i - Len(B)]
      /\ \A i \in 1..Len(B) : i \in 1..Len(ppending') /\ ppending'[i] = B[i]
      /\ \A i \in 1..Len(T) : Len(B) + i \in 1..Len(ppending') /\ ppending'[Len(B) + i] = T[i]
  <2>0. B \in Seq(E) /\ T \in Seq(E)
    BY <1>3, <1>5
  <2> HIDE DEF E
  <2>1. /\ B \o T \in Seq(E) /\ Len(B \o T) = Len(B) + Len(T) /\ Len(T) \in Nat
        /\ \A i \in 1..Len(B \o T) : (B \o T)[i] = IF i <= Len(B) THEN B[i] ELSE T[i - Len(B)]
    BY <2>0, Joined
  <2> QED BY <1>1, <1>5, <2>1
<1>7. \A n : PFits(n)' = PFits(n) /\ PDepth(n)' = PDepth(n) /\ Asked(n)' = Asked(n)
  BY <1>1 DEF PFits, PDepth, Asked
\* What waited with the node is apart from it, and so from its members.
<1>8. \A i \in 1..Len(T) : /\ T[i] \in E /\ PFits(T[i].node) /\ T[i].depth = PDepth(T[i].node)
                           /\ ~PAbove(a, T[i].node) /\ ~PAbove(T[i].node, a)
  <2> SUFFICES ASSUME NEW i \in 1..Len(T)
               PROVE  /\ T[i] \in E /\ PFits(T[i].node) /\ T[i].depth = PDepth(T[i].node)
                      /\ ~PAbove(a, T[i].node) /\ ~PAbove(T[i].node, a)
    OBVIOUS
  <2>1. T[i] = ppending[i + 1] /\ i + 1 \in 1..Len(ppending) /\ 1 \in 1..Len(ppending) /\ i + 1 # 1 /\ a = ppending[1].node
    BY <1>3
  <2>2. ppending[i + 1] \in E
    <3>1. ppending \in Seq(E)
      BY <1>3
    <3> HIDE DEF E
    <3> QED BY <2>1, <3>1
  <2> HIDE DEF E, a
  <2> QED BY <1>2, <2>1, <2>2 DEF PWaiting
<1>9. \A i \in 1..Len(B), j \in 1..Len(T) : ~PAbove(B[i].node, T[j].node) /\ ~PAbove(T[j].node, B[i].node)
  <2> SUFFICES ASSUME NEW i \in 1..Len(B), NEW j \in 1..Len(T)
               PROVE  ~PAbove(B[i].node, T[j].node) /\ ~PAbove(T[j].node, B[i].node)
    OBVIOUS
  <2> DEFINE b == B[i].node
             t == T[j].node
  <2>1. b \in DOMAIN PTree /\ t \in DOMAIN PTree /\ PAbove(a, b) /\ Len(b) = Len(a) + 1 /\ ~PAbove(a, t) /\ ~PAbove(t, a)
    BY <1>5, <1>8
  <2>2. Len(a) \in Nat /\ Len(b) \in Nat /\ Len(t) \in Nat
    BY <1>3, <2>1, TreeNode
  <2> HIDE DEF a, b, t
  <2>3. ~PAbove(b, t)
    BY <1>3, <2>1, AboveFacts DEF a
  <2>4. ASSUME PAbove(t, b) PROVE FALSE
    <3>1. CASE Len(t) = Len(b)
      BY <2>1, <2>4, <3>1, SameNode
    <3>2. CASE Len(t) <= Len(a)
      BY <2>1, <2>2, <2>4, <3>2 DEF PAbove
    <3> QED BY <2>1, <2>2, <2>4, <3>1, <3>2 DEF PAbove
  <2> QED BY <2>3, <2>4 DEF b, t
<1>10. PWaiting'
  <2>1. ASSUME NEW i \in 1..Len(ppending'), NEW j \in 1..Len(ppending'), PAbove(ppending'[i].node, ppending'[j].node) PROVE i = j
    <3>1. CASE i <= Len(B) /\ j <= Len(B)
      <4>1. i \in 1..Len(B) /\ j \in 1..Len(B) /\ ppending'[i] = B[i] /\ ppending'[j] = B[j]
        BY <1>5, <1>6, <3>1
      <4>2. B[i].node = B[j].node
        <5>1. B[i].node \in DOMAIN PTree /\ B[j].node \in DOMAIN PTree /\ Len(B[i].node) = Len(B[j].node)
          BY <1>5, <4>1
        <5> QED BY <2>1, <4>1, <5>1, SameNode
      <4> QED BY <1>5, <4>1, <4>2
    <3>2. CASE i <= Len(B) /\ j > Len(B)
      <4>1. i \in 1..Len(B) /\ j - Len(B) \in 1..Len(T) /\ ppending'[i] = B[i] /\ ppending'[j] = T[j - Len(B)]
        BY <1>5, <1>6, <3>2
      <4> QED BY <1>9, <2>1, <4>1
    <3>3. CASE i > Len(B) /\ j <= Len(B)
      <4>1. j \in 1..Len(B) /\ i - Len(B) \in 1..Len(T) /\ ppending'[j] = B[j] /\ ppending'[i] = T[i - Len(B)]
        BY <1>5, <1>6, <3>3
      <4> QED BY <1>9, <2>1, <4>1
    <3>4. CASE i > Len(B) /\ j > Len(B)
      <4>1. /\ j - Len(B) \in 1..Len(T) /\ i - Len(B) \in 1..Len(T)
            /\ ppending'[j] = T[j - Len(B)] /\ ppending'[i] = T[i - Len(B)]
        <5>1. i - Len(B) \in Int /\ j - Len(B) \in Int /\ i - Len(B) > 0 /\ j - Len(B) > 0
          BY <1>5, <3>4
        <5>2. i - Len(B) <= Len(T) /\ j - Len(B) <= Len(T) /\ Len(T) \in Nat
          BY <1>5, <1>6
        <5>3. ppending'[j] = T[j - Len(B)] /\ ppending'[i] = T[i - Len(B)]
          BY <1>5, <1>6, <3>4
        <5> QED BY <5>1, <5>2, <5>3
      <4>2. PICK k \in 1..Len(T), l \in 1..Len(T) : k = i - Len(B) /\ l = j - Len(B)
        BY <4>1
      <4>5. ppending'[i] = T[k] /\ ppending'[j] = T[l]
        BY <4>1, <4>2
      <4>3. /\ k + 1 \in 1..Len(ppending) /\ l + 1 \in 1..Len(ppending)
            /\ ppending'[i] = ppending[k + 1] /\ ppending'[j] = ppending[l + 1]
        BY <1>3, <4>5
      <4>4. k + 1 = l + 1
        BY <1>2, <2>1, <4>3 DEF PWaiting
      <4> QED BY <1>5, <4>2, <4>4
    <3> QED BY <1>5, <3>1, <3>2, <3>3, <3>4
  <2>2. \A i \in 1..Len(ppending') : PFits(ppending'[i].node) /\ ppending'[i].depth = PDepth(ppending'[i].node)
    <3> SUFFICES ASSUME NEW i \in 1..Len(ppending') PROVE PFits(ppending'[i].node) /\ ppending'[i].depth = PDepth(ppending'[i].node)
      OBVIOUS
    <3>1. (i \in 1..Len(B) /\ ppending'[i] = B[i]) \/ (i - Len(B) \in 1..Len(T) /\ ppending'[i] = T[i - Len(B)])
      <4>1. CASE i <= Len(B)
        BY <1>5, <1>6, <4>1
      <4>2. CASE i > Len(B)
        BY <1>5, <1>6, <4>2
      <4> QED BY <1>5, <4>1, <4>2
    <3> QED BY <1>5, <1>8, <3>1
  <2> QED BY <1>6, <1>7, <2>1, <2>2 DEF PWaiting
<1>11. /\ Len(pbuf) \in Nat /\ Len(pbuf') = Len(pbuf) + 1
       /\ pbuf'[Len(pbuf) + 1] = [node |-> a, stats |-> Asked(a)]
       /\ \A k \in 1..Len(pbuf) : pbuf'[k] = pbuf[k] /\ k \in 1..Len(pbuf')
  <2>1. PICK Z : pbuf \in Seq(Z)
    BY <1>2 DEF PBuffered
  <2> QED BY <1>1, <2>1
<1>12. \A k \in 1..Len(pbuf') : \/ k \in 1..Len(pbuf) /\ pbuf'[k] = pbuf[k]
                                \/ k = Len(pbuf) + 1 /\ pbuf'[k].node = a /\ pbuf'[k].stats = Asked(a)
  BY <1>11
<1>13. \A k \in 1..Len(pbuf) : pbuf[k].node \in DOMAIN PTree /\ ~PAbove(a, pbuf[k].node)
  <2>1. \A k \in 1..Len(pbuf) : pbuf[k].node \in DOMAIN PTree
    BY <1>2, Nodes
  <2>2. 1 \in 1..Len(ppending) /\ a = ppending[1].node
    BY <1>3
  <2> QED BY <1>2, <2>1, <2>2 DEF PWalking
<1>14. PBuffered'
  <2>1. pbuf' \in Seq([node : DOMAIN PTree, stats : {Asked(n) : n \in DOMAIN PTree}])
    <3>1. [node |-> a, stats |-> Asked(a)] \in [node : DOMAIN PTree, stats : {Asked(n) : n \in DOMAIN PTree}]
      BY <1>3
    <3> QED BY <1>1, <1>2, <3>1 DEF PBuffered
  <2>2. {Asked(n) : n \in DOMAIN PTree}' = {Asked(n) : n \in DOMAIN PTree}
    BY <1>7
  <2>3. \A k \in 1..Len(pbuf') : PFits(pbuf'[k].node) /\ pbuf'[k].stats = Asked(pbuf'[k].node)
    BY <1>2, <1>4, <1>12 DEF PBuffered
  <2>4. ASSUME NEW k \in 1..Len(pbuf'), NEW l \in 1..Len(pbuf'), pbuf'[k].node = pbuf'[l].node PROVE k = l
    <3>1. \A i \in 1..Len(pbuf) : pbuf[i].node # a
      BY <1>13, AboveFacts
    <3> QED BY <1>2, <1>12, <2>4, <3>1 DEF PBuffered
  <2> QED BY <1>7, <2>1, <2>2, <2>3, <2>4 DEF PBuffered
<1>15. ASSUME NEW i \in 1..Len(ppending'), NEW k \in 1..Len(pbuf'), PAbove(ppending'[i].node, pbuf'[k].node) PROVE FALSE
  <2>1. CASE i \in 1..Len(B) /\ ppending'[i] = B[i]
    <3>1. B[i].node \in DOMAIN PTree /\ PAbove(a, B[i].node) /\ Len(B[i].node) = Len(a) + 1 /\ Len(a) \in Nat
      BY <1>3, <1>5, <2>1, TreeNode
    <3>2. CASE k \in 1..Len(pbuf) /\ pbuf'[k] = pbuf[k]
      BY <1>3, <1>13, <1>15, <2>1, <3>1, <3>2, AboveFacts
    <3>3. CASE pbuf'[k].node = a
      BY <1>15, <2>1, <3>1, <3>3 DEF PAbove
    <3> QED BY <1>12, <3>2, <3>3
  <2>2. CASE i - Len(B) \in 1..Len(T) /\ ppending'[i] = T[i - Len(B)]
    <3>0. PICK m \in 1..Len(T) : m = i - Len(B)
      BY <2>2
    <3>4. ppending'[i] = T[m]
      BY <2>2, <3>0
    <3>1. m + 1 \in 1..Len(ppending) /\ ppending'[i] = ppending[m + 1]
      BY <1>3, <3>4
    <3>2. CASE k \in 1..Len(pbuf) /\ pbuf'[k] = pbuf[k]
      BY <1>2, <1>15, <3>1, <3>2 DEF PWalking
    <3>3. CASE pbuf'[k].node = a
      BY <1>8, <1>15, <2>2, <3>3
    <3> QED BY <1>12, <3>2, <3>3
  <2> QED BY <1>5, <1>6, <2>1, <2>2
<1>16. ASSUME NEW n \in DOMAIN PTree, PFits(n)
       PROVE  \/ \E k \in 1..Len(pbuf') : pbuf'[k].node = n
              \/ \E i \in 1..Len(ppending') : PAbove(ppending'[i].node, n)
  <2>1. CASE \E k \in 1..Len(pbuf) : pbuf[k].node = n
    BY <1>11, <2>1
  <2>2. ASSUME NEW i \in 1..Len(ppending), i # 1, PAbove(ppending[i].node, n) PROVE \E j \in 1..Len(ppending') : PAbove(ppending'[j].node, n)
    <3>1. i - 1 \in 1..Len(T) /\ T[i - 1] = ppending[i]
      BY <1>3, <2>2
    <3> QED BY <1>6, <2>2, <3>1
  <2>3. CASE PAbove(a, n)
    <3>1. CASE a = n
      <4>1. Len(pbuf) + 1 \in 1..Len(pbuf') /\ pbuf'[Len(pbuf) + 1].node = n
        BY <1>11, <3>1
      <4> QED BY <4>1
    <3>2. CASE a # n
      <4>1. PTree[a] /\ \E c \in DOMAIN PTree : c # PRoot /\ Front(c) = a /\ PAbove(c, n)
        BY <1>3, <2>3, <3>2, MemberAbove
      <4>2. at.depth # 0
        <5>1. Len(a) \in Nat /\ Len(n) \in Nat /\ Len(a) < Len(n)
          <6>1. Len(a) \in Nat /\ Len(n) \in Nat
            BY <1>3, TreeNode
          <6>2. Len(a) # Len(n)
            BY <1>3, <2>3, <3>2, SameNode
          <6> QED BY <2>3, <6>1, <6>2 DEF PAbove
        <5>2. preq.depth \in {0, 1, Infinite} /\ Infinite = -1
          BY <1>1 DEF PropInv, Infinite
        <5> QED BY <1>4, <1>16, <5>1, <5>2 DEF PFits, PDepth
      <4>3. \E i \in 1..Len(B) : PAbove(B[i].node, n)
        BY <1>5, <4>1, <4>2
      <4> QED BY <1>6, <4>3
    <3> QED BY <3>1, <3>2
  <2>4. \/ \E k \in 1..Len(pbuf) : pbuf[k].node = n
        \/ \E i \in 1..Len(ppending) : PAbove(ppending[i].node, n)
    BY <1>2, <1>16 DEF PWalking
  <2> QED BY <1>3, <2>1, <2>2, <2>3, <2>4
<1>17. pbuf' # <<>>
  BY <1>11
<1>18. PWalking'
  <2>1. \A n \in DOMAIN PTree : PFits(n)' => \/ \E k \in 1..Len(pbuf') : pbuf'[k].node = n
                                             \/ \E i \in 1..Len(ppending') : PAbove(ppending'[i].node, n)
    BY <1>7, <1>16
  <2> QED BY <1>1, <1>10, <1>15, <1>17, <2>1 DEF PWalking
<1>19. /\ preq'.method = "PROPFIND" /\ preply' = 0 /\ readPropfind(preq'.body)
       /\ preq'.body \in PBodies /\ preq'.depth \in {0, 1, Infinite}
  BY <1>1 DEF PropInv
<1> QED
  <2>1. preq'.method \in {"", "PROPFIND", "PROPPATCH"} /\ preq'.method # "" /\ preq'.method # "PROPPATCH"
    BY <1>19
  <2>2. preply' \in {0, 404, 207} /\ preply' # 207
    BY <1>19
  <2> QED BY <2>1, <2>2, <1>14, <1>18, <1>19 DEF PropInv

\* All is answered when nothing waits.
LEMMA walkEndsKeeps ==
  ASSUME PropInv, walkEnds
  PROVE  PropInv'
<1>1. /\ preq.method = "PROPFIND" /\ preply = 0 /\ ppending = <<>> /\ preply' = 207 /\ pmw' = (IF pmw = "none" THEN "none" ELSE "closed")
      /\ UNCHANGED <<preq, ppending, pbuf>>
  BY DEF walkEnds, mwClose
<1>2. PWalking /\ PBuffered /\ readPropfind(preq.body) /\ preq.body \in PBodies /\ preq.depth \in {0, 1, Infinite}
  BY <1>1 DEF PropInv
<1>3. PBuffered'
  <2>1. \A n : PFits(n)' = PFits(n) /\ Asked(n)' = Asked(n)
    BY <1>1 DEF PFits, Asked
  <2>2. {Asked(n) : n \in DOMAIN PTree}' = {Asked(n) : n \in DOMAIN PTree}
    BY <2>1
  <2> QED BY <1>1, <1>2, <2>1, <2>2 DEF PBuffered
<1>4. Len(ppending) = 0 /\ ~(\E i \in 1..Len(ppending) : TRUE)
  BY <1>1
<1>5. \A n \in DOMAIN PTree : PFits(n) => \E k \in 1..Len(pbuf) : pbuf[k].node = n
  BY <1>2, <1>4 DEF PWalking
<1>6. DOMAIN pbuf = 1..Len(pbuf) /\ \A k \in 1..Len(pbuf) : pbuf[k].node \in DOMAIN PTree
  BY <1>2, Nodes
<1>7. pbuf # <<>>
  <2>1. PRoot \in DOMAIN PTree /\ PFits(PRoot)
    <3>1. Len(PRoot) = 0
      BY DEF PRoot
    <3> QED BY <1>2, <3>1, PAssumption DEF PFits
  <2> QED BY <1>5, <2>1
<1>8. PWhole'
  <2>1. pmw' = "closed"
    <3>1. pmw = (IF pbuf = <<>> THEN "none" ELSE "open")
      BY <1>2 DEF PWalking
    <3>2. pmw # "none"
      BY <1>7, <3>1
    <3> QED BY <1>1, <3>2
  <2>2. {pbuf[i].node : i \in DOMAIN pbuf} = {n \in DOMAIN PTree : PFits(n)}
    <3>1. \A i \in DOMAIN pbuf : pbuf[i].node \in DOMAIN PTree /\ PFits(pbuf[i].node)
      BY <1>2, <1>6 DEF PBuffered
    <3>2. \A n \in DOMAIN PTree : PFits(n) => \E i \in DOMAIN pbuf : pbuf[i].node = n
      BY <1>5, <1>6
    <3> QED BY <3>1, <3>2
  <2>3. \A i, j \in DOMAIN pbuf : pbuf[i].node = pbuf[j].node => i = j
    BY <1>2, <1>6 DEF PBuffered
  <2> QED BY <1>1, <2>1, <2>2, <2>3 DEF PWhole, PFits
<1>9. preq'.method = "PROPFIND" /\ preply' = 207 /\ preq' = preq
  BY <1>1
<1>10. preq'.method \in {"", "PROPFIND", "PROPPATCH"} /\ preq'.method # "" /\ preq'.method # "PROPPATCH"
  BY <1>9
<1>11. preply' \in {0, 404, 207} /\ preply' # 0
  BY <1>9
<1> QED BY <1>2, <1>3, <1>8, <1>9, <1>10, <1>11 DEF PropInv

LEMMA RepliesStart == ASSUME PInit PROVE PropInv
BY DEF PInit, PNone, PropInv

LEMMA RepliesStep == ASSUME PropInv, [PNext]_propVars PROVE PropInv'
<1>1. ASSUME NEW body \in PBodies, NEW depth \in {0, 1, Infinite}, handlePropfind(body, depth) PROVE PropInv'
  <2>1. /\ preq = PNone /\ preq' = [method |-> "PROPFIND", body |-> body, depth |-> depth] /\ pmw' = "none" /\ pbuf' = <<>> /\ preply = 0
        /\ IF readPropfind(body) THEN ppending' = <<[node |-> PRoot, depth |-> depth]>> /\ UNCHANGED preply ELSE preply' = 404
    BY <1>1 DEF handlePropfind, PropInv, PNone
  <2>2. preq'.method = "PROPFIND" /\ preq'.body = body /\ preq'.depth = depth
    BY <2>1
  <2>6. preq'.method \in {"", "PROPFIND", "PROPPATCH"} /\ preq'.method # "" /\ preq'.method # "PROPPATCH"
    BY <2>2
  <2>3. PBuffered'
    BY <2>1 DEF PBuffered
  <2>4. CASE readPropfind(body)
    <3> DEFINE e == [node |-> PRoot, depth |-> depth]
               E == [node : DOMAIN PTree, depth : Int]
    <3>1. ppending' = <<e>> /\ preply' = 0
      BY <2>1, <2>4
    <3>2. e \in E
      BY PAssumption DEF Infinite
    <3>3. Len(PRoot) = 0 /\ PFits(PRoot)' /\ PDepth(PRoot)' = depth
      BY <2>2 DEF PRoot, PFits, PDepth, Infinite
    <3>4. PWaiting'
      <4>1. ppending' \in Seq(E) /\ Len(ppending') = 1 /\ ppending'[1] = e
        <5> HIDE DEF E, e
        <5> QED BY <3>1, <3>2
      <4>2. \A i \in 1..Len(ppending') : i = 1 /\ ppending'[i].node = PRoot /\ ppending'[i].depth = depth
        BY <4>1
      <4> QED BY <3>3, <4>1, <4>2 DEF PWaiting
    <3>5. \A n \in DOMAIN PTree : \E i \in 1..Len(ppending') : PAbove(ppending'[i].node, n)
      <4>1. Len(ppending') = 1 /\ ppending'[1].node = PRoot
        BY <3>1
      <4>2. \A n \in DOMAIN PTree : PAbove(PRoot, n)
        BY <3>3, TreeNode DEF PAbove
      <4> QED BY <4>1, <4>2
    <3>6. PWalking'
      <4>1. Len(pbuf') = 0 /\ ~(\E k \in 1..Len(pbuf') : TRUE)
        BY <2>1
      <4> QED BY <2>1, <3>4, <3>5, <4>1 DEF PWalking
    <3>7. preply' \in {0, 404, 207} /\ preply' # 207 /\ readPropfind(preq'.body)
      BY <2>2, <2>4, <3>1
    <3> HIDE DEF e, E
    <3> QED BY <2>2, <2>3, <2>6, <3>6, <3>7 DEF PropInv
  <2>5. CASE ~readPropfind(body)
    <3>1. preply' = 404
      BY <2>1, <2>5
    <3>2. preply' \in {0, 404, 207} /\ preply' # 207 /\ preply' # 0
      BY <3>1
    <3> QED BY <2>2, <2>3, <2>6, <3>1, <3>2 DEF PropInv
  <2> QED BY <2>4, <2>5
<1>2. ASSUME walkFails PROVE PropInv'
  <2>1. preq.method = "PROPFIND" /\ preply' = 404 /\ UNCHANGED <<preq, pbuf>>
    BY <1>2 DEF walkFails
  <2>2. PBuffered'
    <3>1. \A n : PFits(n)' = PFits(n) /\ Asked(n)' = Asked(n)
      BY <2>1 DEF PFits, Asked
    <3>2. {Asked(n) : n \in DOMAIN PTree}' = {Asked(n) : n \in DOMAIN PTree}
      BY <3>1
    <3>3. PBuffered
      BY <2>1 DEF PropInv
    <3> QED BY <2>1, <3>1, <3>2, <3>3 DEF PBuffered
  <2>3. preq'.method = "PROPFIND" /\ preq'.depth \in {0, 1, Infinite} /\ preq'.body \in PBodies
    BY <2>1 DEF PropInv
  <2>4. preq'.method \in {"", "PROPFIND", "PROPPATCH"} /\ preq'.method # "" /\ preq'.method # "PROPPATCH"
    BY <2>3
  <2>5. preply' \in {0, 404, 207} /\ preply' # 207 /\ preply' # 0
    BY <2>1
  <2> QED BY <2>1, <2>2, <2>3, <2>4, <2>5 DEF PropInv
<1>3. ASSUME NEW ops \in PPatches, handleProppatch(ops) PROVE PropInv'
  <2>1. /\ preq = PNone /\ preq' = [method |-> "PROPPATCH", body |-> ops, depth |-> 0] /\ pbuf = <<>>
        /\ IF readProppatch(ops) THEN pbuf' = Append(pbuf, [node |-> PRoot, stats |-> patch(Patched(ops))]) ELSE preply' = 400
    BY <1>3 DEF handleProppatch, mwWrite, PropInv, PNone
  <2>2. preq'.method = "PROPPATCH" /\ preq'.body = ops
    BY <2>1
  <2>3. \A r : Append(<<>>, r) = <<r>>
    OBVIOUS
  <2>4. preply' = 207 => pbuf' = <<[node |-> PRoot, stats |-> patch(Patched(ops))]>>
    BY <2>1, <2>3
  <2> QED BY <2>2, <2>4 DEF PropInv
<1>4. ASSUME UNCHANGED propVars PROVE PropInv'
  <2>1. UNCHANGED <<preq, ppending, pmw, pbuf, preply>>
    BY <1>4 DEF propVars
  <2>2. \A n : PFits(n)' = PFits(n) /\ PDepth(n)' = PDepth(n) /\ Asked(n)' = Asked(n)
    BY <2>1 DEF PFits, PDepth, Asked
  <2>3. {Asked(n) : n \in DOMAIN PTree}' = {Asked(n) : n \in DOMAIN PTree}
    BY <2>2
  <2>4. (PBuffered => PBuffered') /\ (PWalking => PWalking') /\ (PWhole => PWhole')
    <3>1. PBuffered => PBuffered'
      BY <2>1, <2>2, <2>3 DEF PBuffered
    <3>2. PWalking => PWalking'
      BY <2>1, <2>2 DEF PWalking, PWaiting
    <3>3. PWhole => PWhole'
      BY <2>1 DEF PWhole
    <3> QED BY <3>1, <3>2, <3>3
  <2>5. preq' = preq /\ pmw' = pmw /\ pbuf' = pbuf /\ preply' = preply
    BY <2>1
  <2>6. /\ preq'.method \in {"", "PROPFIND", "PROPPATCH"}
        /\ preq'.method = "" => preply' = 0 /\ pmw' = "none" /\ pbuf' = <<>>
    BY <2>5 DEF PropInv
  <2>7. preq'.method = "PROPPATCH" /\ preply' = 207 =>
          pbuf' = <<[node |-> PRoot, stats |-> patch(Patched(preq'.body))]>>
    BY <2>5 DEF PropInv
  <2>8. preq'.method = "PROPFIND" =>
          /\ preq'.depth \in {0, 1, Infinite} /\ preq'.body \in PBodies /\ preply' \in {0, 404, 207} /\ PBuffered'
          /\ preply' # 404 => readPropfind(preq'.body)
          /\ preply' = 0 => PWalking'
          /\ preply' = 207 => PWhole'
    BY <2>4, <2>5 DEF PropInv
  <2> QED BY <2>6, <2>7, <2>8 DEF PropInv
<1> QED BY <1>1, <1>2, <1>3, <1>4, walkKeeps, walkEndsKeeps DEF PNext

\* What was asked for by name.
LEMMA EachAnswered == ASSUME PropInv PROVE PEach
<1> SUFFICES ASSUME preply = 207, preq.method = "PROPFIND", preq.body.prop # <<>>, NEW i \in DOMAIN pbuf
             PROVE  LET stats == pbuf[i].stats
                        names == Names(preq.body.prop)
                    IN  /\ With(stats, 200) = {n \in Range(names) : Applies(n, pbuf[i].node)}
                        /\ With(stats, 404) = Range(names) \ With(stats, 200)
                        /\ \A k \in DOMAIN names : \E j \in DOMAIN stats : Holding(stats, k) = {j} /\ stats[j].names[k] = names[k]
  BY DEF PEach
<1> DEFINE names == Names(preq.body.prop)
           node == pbuf[i].node
           stats == pbuf[i].stats
<1>1. PBuffered /\ readPropfind(preq.body) /\ preq.body \in PBodies
  BY DEF PropInv
<1>2. i \in 1..Len(pbuf) /\ stats = Asked(node)
  BY <1>1, Nodes DEF PBuffered
<1>3. stats = Split(200, names, Owned(node), 404)
  <2>1. preq.body.kind # "empty"
    BY <1>1, PAssumption
  <2>2. ~preq.body.allprop /\ ~preq.body.propname
    BY <1>1, <2>1 DEF readPropfind
  <2> QED BY <1>2, <2>1, <2>2 DEF Asked, props
<1>4. names = [k \in DOMAIN names |-> names[k]]
  BY DEF Names
<1> HIDE DEF names, node, stats
<1>5. /\ With(stats, 200) = Range(names) \cap Owned(node) /\ With(stats, 404) = Range(names) \ Owned(node)
      /\ \A k \in DOMAIN names : \E j \in DOMAIN stats : Holding(stats, k) = {j} /\ stats[j].names[k] = names[k]
  BY <1>3, <1>4, SplitsIn
<1>6. \A n : n \in Owned(node) <=> Applies(n, node)
  BY DEF Owned, Applies
<1>7. /\ With(stats, 200) = {n \in Range(names) : Applies(n, node)}
      /\ With(stats, 404) = Range(names) \ With(stats, 200)
  BY <1>5, <1>6
<1> QED BY <1>5, <1>7 DEF names, node, stats

LEMMA PatchesAtomic == ASSUME PropInv PROVE PPatchAtomic
<1> SUFFICES ASSUME preply = 207, preq.method = "PROPPATCH" PROVE PPatchAtomic
  BY DEF PPatchAtomic
<1> DEFINE names == Patched(preq.body)
           L == DOMAIN liveProps
           live == Range(names) \cap L
           stats == pbuf[1].stats
<1>1. stats = patch(names)
  BY DEF PropInv
<1>2. names = [k \in DOMAIN names |-> names[k]]
  BY DEF Patched
<1> HIDE DEF names, L
<1>3. Places(names, L) = {} <=> live = {}
  BY DEF Places, Range
<1> HIDE DEF stats
<1>4. CASE live = {}
  <2>1. stats = <<Pstat(403, names)>>
    BY <1>1, <1>3, <1>4 DEF patch, L
  <2>2. DOMAIN stats = {1} /\ stats[1].status = 403 /\ stats[1].names = names
    BY <2>1 DEF Pstat
  <2>3. With(stats, 200) = {} /\ With(stats, 403) = Range(names) /\ With(stats, 424) = {}
    BY <2>2 DEF With
  <2> QED BY <1>4, <2>3 DEF PPatchAtomic, names, stats, L
<1>5. CASE live # {}
  <2>1. stats = Split(403, names, L, 424)
    BY <1>1, <1>3, <1>5 DEF patch, L
  <2>2. With(stats, 403) = Range(names) \cap L /\ With(stats, 424) = Range(names) \ L /\ With(stats, 200) = {}
    BY <1>2, <2>1, SplitsIn
  <2>3. Range(names) \ L = Range(names) \ live
    OBVIOUS
  <2> QED BY <1>5, <2>2, <2>3 DEF PPatchAtomic, names, stats, L
<1> QED BY <1>4, <1>5

(* For any finite tree, depth, bodies and failures: a multistatus answers for   *)
(* every resource within the depth, once, and for no other, or is not sent at   *)
(* all; each property that was asked for by name is in one propstat, that with  *)
(* 200 when the resource has it; and a patch changes nothing and says so        *)
(* (webdav.go:758-895, prop.go, file.go:228-277).                               *)
THEOREM RepliesAreWhole == PSpec => []DavAnswers
<1>1. PropInv => DavAnswers
  <2>1. PropInv => PWhole
    BY DEF PropInv, PWhole
  <2> QED BY <2>1, EachAnswered, PatchesAtomic DEF DavAnswers
<1> QED BY <1>1, RepliesStart, RepliesStep, PTL DEF PSpec
=============================================================================

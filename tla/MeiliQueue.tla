------------------------------ MODULE MeiliQueue ------------------------------
(* Updates of a Meilisearch index (search/meilisearch/task_queue.go).  A listing *)
(* is queued under its directory and replaces an older one.  Every 30 seconds    *)
(* the consumer takes the whole queue and compares each listing with the         *)
(* documents of its directory.  The server applies what it is sent later, in     *)
(* the order of arrival; a directory waits until the tasks of its last listing   *)
(* are through.                                                                  *)
EXTENDS Integers, Sequences, FiniteSets, SequencesExt

CONSTANTS QDirs,      \* the directories that are listed: sequences of names
          QNames,
          QMounts,    \* the paths that storages are mounted on: HasStorage
          QCalls, QFaults  \* bounds: listings; requests to the server that fail

ASSUME QAssumption == QDirs \subseteq Seq(QNames) /\ QMounts \subseteq Seq(QNames) /\ QCalls \in Nat /\ QFaults \in Nat

VARIABLES
  qqueue,    \* directory -> [now, at] of the queued listing, or QNone
  qpending,  \* directory -> the numbers of the tasks of its last listing
  qtasks,    \* the listings that the consumer has taken and not yet handled, in order
  qserver,   \* the tasks that the server has accepted and not yet applied
  qdocs,     \* the paths that have a document
  qlast,     \* ghost: directory -> the names of the last listing
  qclean,    \* ghost: directory -> nothing below has set its documents apart from its listings
  quid, qcalls, qfaults

queueVars == <<qqueue, qpending, qtasks, qserver, qdocs, qlast, qclean, quid, qcalls, qfaults>>

QNone == [now |-> {}, at |-> 0]
QPaths == {Append(d, n) : d \in QDirs, n \in QNames}

QInit ==
  /\ qqueue = [d \in QDirs |-> QNone] /\ qpending = [d \in QDirs |-> {}] /\ qtasks = <<>>
  /\ qserver = <<>> /\ qdocs = {} /\ qlast = [d \in QDirs |-> {}] /\ qclean = [d \in QDirs |-> TRUE]
  /\ quid = 0 /\ qcalls = 0 /\ qfaults = 0

-----------------------------------------------------------------------------
Enqueue(d, now) ==
  /\ qcalls < QCalls /\ qcalls' = qcalls + 1
  /\ qqueue' = [qqueue EXCEPT ![d] = [now |-> now, at |-> qcalls + 1]]
  /\ qlast' = [qlast EXCEPT ![d] = now]
  /\ UNCHANGED <<qpending, qtasks, qserver, qdocs, qclean, quid, qfaults>>

\* consume: shallow directories first, then older listings.
QQueued == {d \in QDirs : qqueue[d] # QNone}
QBefore(d, e) == \/ Len(d) < Len(e)
                 \/ Len(d) = Len(e) /\ qqueue[d].at < qqueue[e].at
Consume ==
  /\ qtasks = <<>> /\ QQueued # {}
  /\ \E order \in [1..Cardinality(QQueued) -> QQueued] :
       /\ Range(order) = QQueued /\ \A i, j \in DOMAIN order : i < j => QBefore(order[i], order[j])
       /\ qtasks' = [i \in DOMAIN order |-> [dir |-> order[i], now |-> qqueue[order[i]].now, at |-> qqueue[order[i]].at]]
  /\ qqueue' = [d \in QDirs |-> QNone]
  /\ UNCHANGED <<qpending, qserver, qdocs, qlast, qclean, quid, qcalls, qfaults>>

\* The next listing is handled, once every task of the directory has come to an end.
QUnapplied(d) == {i \in DOMAIN qserver : qserver[i].uid \in qpending[d]}

\* It is put back if one is still on its way, unless a newer listing is queued.
\* (Mutant: it replaces the newer one.)
QPutBack_Always(t) == [qqueue EXCEPT ![t.dir] = [now |-> t.now, at |-> t.at]]
QPutBack(t) == IF qqueue[t.dir] = QNone THEN [qqueue EXCEPT ![t.dir] = [now |-> t.now, at |-> t.at]] ELSE qqueue
Skip ==
  /\ qtasks # <<>> /\ QUnapplied(Head(qtasks).dir) # {}
  /\ qqueue' = QPutBack(Head(qtasks)) /\ qtasks' = Tail(qtasks)
  /\ UNCHANGED <<qpending, qserver, qdocs, qlast, qclean, quid, qcalls, qfaults>>

\* Get: the documents of the directory; of the root, all documents.
QOld(d) == {Last(q) : q \in {r \in qdocs : d = <<>> \/ Front(r) = d}}
QPathsToDelete(t) == {Append(t.dir, n) : n \in QOld(t.dir) \ t.now} \ QMounts
QToAdd(t) == {Append(t.dir, n) : n \in t.now \ QOld(t.dir)}
\* batchDeleteWithTaskUID: what lies under the paths and then the paths themselves;
\* batchIndexWithTaskUID.  Each is a task with a number of its own.
QTask(uid, kind, paths) == [uid |-> uid, kind |-> kind, paths |-> paths]
QDeletes(t) == IF QPathsToDelete(t) = {} THEN <<>>
               ELSE <<QTask(quid + 1, "under", QPathsToDelete(t)), QTask(quid + 2, "delete", QPathsToDelete(t))>>
QAdds(t) == IF QToAdd(t) = {} THEN <<>> ELSE <<QTask(quid + 3, "add", QToAdd(t))>>

QMayRun(d) == QUnapplied(d) = {}
\* A task that has not been applied yet may still delete the documents of a directory.
QDoomed(d) == \E i \in DOMAIN qserver : qserver[i].kind # "add" /\ \E q \in qserver[i].paths : IsPrefix(q, d)
\* Documents elsewhere that hide a name of the root, because Get returns them as well.
QHides(t) == t.dir = <<>> /\ \E q \in qdocs : Len(q) > 1 /\ Last(q) \in t.now
QRun(t, sent, known, faults) ==
  /\ qserver' = qserver \o sent
  /\ qpending' = [qpending EXCEPT ![t.dir] = {known[i].uid : i \in DOMAIN known}]
  /\ qfaults' = qfaults + faults
  /\ qclean' = [d \in QDirs |-> qclean[d] /\ ~(\E q \in QPathsToDelete(t) : IsPrefix(q, d))
                  /\ (d = t.dir => faults = 0 /\ ~QDoomed(d) /\ ~QHides(t))]
  /\ quid' = quid + 3 /\ qtasks' = Tail(qtasks)
  /\ UNCHANGED <<qqueue, qdocs, qlast, qcalls>>
executeTask ==
  /\ qtasks # <<>> /\ QMayRun(Head(qtasks).dir)
  /\ LET t == Head(qtasks) IN QRun(t, QDeletes(t) \o QAdds(t), QDeletes(t) \o QAdds(t), 0)
\* A request fails: Get (nothing is done), one of the two of the deletion (the numbers
\* of both are lost, the documents are added all the same), or the addition.
QFails ==
  /\ qtasks # <<>> /\ QMayRun(Head(qtasks).dir) /\ qfaults < QFaults
  /\ LET t == Head(qtasks)
     IN  \/ QRun(t, <<>>, <<>>, 1)
         \/ \E n \in {0, 1} : n <= Len(QDeletes(t)) /\ QRun(t, SubSeq(QDeletes(t), 1, n) \o QAdds(t), QAdds(t), 1)
         \/ QRun(t, QDeletes(t), QDeletes(t), 1)
\* A task whose status cannot be read counts as ended.
QUnknown ==
  /\ qtasks # <<>> /\ QUnapplied(Head(qtasks).dir) # {} /\ qfaults < QFaults
  /\ LET t == Head(qtasks) IN QRun(t, QDeletes(t) \o QAdds(t), QDeletes(t) \o QAdds(t), 1)

\* External: the server applies the oldest task.
QApply ==
  /\ qserver # <<>> /\ qserver' = Tail(qserver)
  /\ LET t == Head(qserver)
     IN  qdocs' = CASE t.kind = "under" -> {q \in qdocs : ~\E p \in t.paths : IsStrictPrefix(p, q)}
                    [] t.kind = "delete" -> qdocs \ t.paths
                    [] OTHER -> qdocs \cup t.paths
  /\ UNCHANGED <<qqueue, qpending, qtasks, qlast, qclean, quid, qcalls, qfaults>>

QNext ==
  \/ \E d \in QDirs, now \in SUBSET QNames : Enqueue(d, now)
  \/ Consume \/ Skip \/ executeTask \/ QFails \/ QUnknown \/ QApply
QSpec == QInit /\ [][QNext]_queueVars

-----------------------------------------------------------------------------
\* When everything queued has been handled and applied, the documents of a directory
\* are those of its last listing (and of the storages in it): listings that arrive
\* while older ones are compared or on their way to the server neither get lost nor
\* are they mixed with them (consume, task_queue.go:99-183).  Excepted are a directory
\* that a listing above it has deleted, and the root while names of it occur elsewhere.
QSettles ==
  QQueued = {} /\ qtasks = <<>> /\ qserver = <<>> =>
    \A d \in QDirs : qclean[d] =>
      LET names == {Last(q) : q \in {r \in qdocs : Front(r) = d}}
      IN  qlast[d] \subseteq names /\ \A n \in names \ qlast[d] : Append(d, n) \in QMounts

\* The numbers that a directory waits for belong to its own last listing: no task of
\* an older listing of it is still on its way when the next one is compared
\* (pendingTasks, task_queue.go:258-262).
QOneGeneration ==
  \A i, j \in DOMAIN qserver : \A d \in QDirs :
    (\A q \in qserver[i].paths \cup qserver[j].paths : Front(q) = d) =>
      {qserver[i].uid, qserver[j].uid} \subseteq qpending[d] \/ qfaults > 0
=============================================================================

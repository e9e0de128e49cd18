---------------------------- MODULE S3HostProofs ----------------------------
(***************************************************************************)
(* Proofs about the object-store host, for any runners, plans, stages and  *)
(* trees, any format, and any number of crashes, lost answers, late root   *)
(* writes and expired leases: the live revision is whole, a reported       *)
(* success and the page name what was live, and an effect pointer resolves *)
(* when the store client does not resend.                                  *)
(***************************************************************************)
EXTENDS S3Host, TLAPS

USE FilesAssumption, SwitchAssumption, NoneAssumption, RootAssumption, MarkAssumption

Roots == Revisions \union {Absent, Unmanaged}

Uploading == {"point", "reconcile", "adopt"}
Phases == Uploading \union Holding \union
            {"idle", "lock", "takeover", "page", "unlock", "committed", "abort"}
Owners == [restore : BOOLEAN, id : Stages]
Sessions == [pc : Phases, op : {"none", "commit", "compensate", "rollback"}, plan : Plans \union {None},
             id : Stages \union {None}, copied : SUBSET Paths, holder : Owners \union {None}, ok : BOOLEAN]

StoreType ==
  /\ plans \in [Plans -> PlanFiles \union {None}]
  /\ root \in Roots /\ lived \subseteq Revisions /\ late \subseteq [from : Roots, to : Roots]
  /\ stages \in [Stages -> Plans \union {None}] /\ pointer \in [Plans -> Stages \union {None}]
  /\ DOMAIN retained = Stages /\ restores \in [Stages -> Roots \union {None}]
  /\ lease = None \/ lease \in [owner : Owners, expired : BOOLEAN]
SessionType ==
  /\ session \in [Runners -> Sessions]
  /\ \A r \in Runners : ~At(r, "idle") =>
       session[r].plan \in Plans /\ plans[session[r].plan] # None /\ session[r].id \in Stages
TypeInv == StoreType /\ SessionType

(* What a revision is undone by is written before the revision is live,    *)
(* and is never rewritten or deleted.                                      *)
Recorded(x) ==
  x \in Revisions =>
    /\ plans[x.plan] # None /\ restores[x.id] # None
    /\ restores[x.id] # Absent => retained[x.id] = Bytes(restores[x.id])

(* A revision that is whole.                                               *)
Sound(x) == Materialized(x) /\ Recorded(x)

(* A root that was, or is, live.                                           *)
Seen(x) == x \in Revisions => x \in lived

StoreInv ==
  /\ Sound(root) /\ \A x \in lived : Recorded(x)
  /\ \A w \in late : Sound(w.to)
  /\ Seen(root)
  /\ \A p \in Plans : plans[p] # None => Seen(plans[p].expected)
  /\ \A s \in Stages : restores[s] # None => Seen(restores[s])
  /\ PageWasLive

(* What a runner has made sure of by the phase it has reached.             *)
Claims(pc, plan, id, copied, ok) ==
  LET tree == plans[plan].tree
      expected == plans[plan].expected
  IN /\ \A f \in copied : publishedFileKey(tree, f) \in objects
     /\ pc \in {"manifest", "retain", "restore", "root"} => tree \in releases /\ KeysOf(tree) \subseteq objects
     /\ pc \in {"retain", "restore", "root"} => plan \in manifests
     /\ pc \in {"restore", "root"} => expected = Absent \/ retained[id] = Bytes(expected)
     /\ pc = "root" => restores[id] = expected
     /\ pc \in {"validate", "put"} => restores[id] # None
     /\ pc = "put" => Materialized(restores[id])
     /\ pc = "page" \/ ok => [plan |-> plan, id |-> id] \in lived
     /\ ok => pc \in {"unlock", "committed"}
     /\ pc = "committed" => ok
     /\ pc = "idle" => copied = {}
SessionInv ==
  \A r \in Runners :
    Claims(session[r].pc, session[r].plan, session[r].id, session[r].copied, session[r].ok)

IInv == TypeInv /\ StoreInv /\ SessionInv

(* An upload is announced by its own runner and by nobody else.            *)
OwnUpload(r) ==
  /\ At(r, "point") => stages[session[r].id] = session[r].plan
  /\ At(r, "point") \/ At(r, "adopt") => \A p \in Plans : pointer[p] # session[r].id
  /\ At(r, "reconcile") => \A p \in Plans \ {session[r].plan} : pointer[p] # session[r].id
DistinctUploads ==
  \A r, q \in Runners :
    r # q /\ session[r].pc \in Uploading /\ session[q].pc \in Uploading => session[r].id # session[q].id
PointerInv == PointerResolves /\ (\A r \in Runners : OwnUpload(r)) /\ DistinctUploads

(* The session of runner r moves to a record of the given fields.          *)
Only(pc, op, plan, id, copied, holder, ok) ==
  [pc : {pc}, op : {op}, plan : {plan}, id : {id}, copied : {copied}, holder : {holder}, ok : {ok}]
To(r, S) == session' = [session EXCEPT ![r] = session'[r]] /\ session'[r] \in S

----------------------------------------------------------------------------
(* Types *)

(* The moves that several actions share, field by field.                   *)
LEMMA Forms ==
  ASSUME SessionType, NEW r \in Runners
  PROVE  LET y == session[r] IN
         /\ \A x : Goto(r, x) => To(r, Only(x, y.op, y.plan, y.id, y.copied, y.holder, y.ok))
         /\ \A b : Finish(r, b) => To(r, Only("unlock", y.op, y.plan, y.id, y.copied, y.holder, b))
         /\ session' = [session EXCEPT ![r] = Idle] => To(r, Only("idle", "none", None, None, {}, None, FALSE))
         /\ Leave(r) => \/ To(r, Only("idle", "none", None, None, {}, None, FALSE))
                        \/ To(r, Only("abort", "commit", y.plan, y.id, y.copied, None, y.ok))
         /\ \A p, s, x : Begin(r, p, s, x) => To(r, Only(x, "commit", p, s, {}, None, FALSE))
<1> DEFINE y == session[r]
           z == session'[r]
<1>0. y \in Sessions
  BY DEF SessionType
<1>1. ASSUME NEW x, Goto(r, x) PROVE To(r, Only(x, y.op, y.plan, y.id, y.copied, y.holder, y.ok))
  <2>1. session' = [session EXCEPT ![r] = z] /\ z = [y EXCEPT !.pc = x]
    BY <1>1 DEF Goto, SessionType
  <2>2. z \in Only(x, y.op, y.plan, y.id, y.copied, y.holder, y.ok)
    BY <1>0, <2>1 DEF Sessions, Only
  <2> QED
    BY <2>1, <2>2 DEF To
<1>2. ASSUME NEW b, Finish(r, b) PROVE To(r, Only("unlock", y.op, y.plan, y.id, y.copied, y.holder, b))
  <2>1. session' = [session EXCEPT ![r] = z] /\ z = [y EXCEPT !.pc = "unlock", !.ok = b]
    BY <1>2, Zenon DEF Finish, SessionType
  <2>2. z \in Only("unlock", y.op, y.plan, y.id, y.copied, y.holder, b)
    BY <1>0, <2>1, Zenon DEF Sessions, Only
  <2> QED
    BY <2>1, <2>2 DEF To
<1>3. ASSUME session' = [session EXCEPT ![r] = Idle]
      PROVE  To(r, Only("idle", "none", None, None, {}, None, FALSE))
  <2>1. session' = [session EXCEPT ![r] = z] /\ z = Idle
    BY <1>3 DEF SessionType
  <2>2. z \in Only("idle", "none", None, None, {}, None, FALSE)
    BY <2>1 DEF Idle, Only
  <2> QED
    BY <2>1, <2>2, Zenon DEF To
<1>4. ASSUME Leave(r)
      PROVE  \/ To(r, Only("idle", "none", None, None, {}, None, FALSE))
             \/ To(r, Only("abort", "commit", y.plan, y.id, y.copied, None, y.ok))
  <2>1. CASE session' = [session EXCEPT ![r].pc = "abort", ![r].op = "commit", ![r].holder = None]
    <3>1. session' = [session EXCEPT ![r] = z] /\ z = [y EXCEPT !.pc = "abort", !.op = "commit", !.holder = None]
      BY <2>1, Zenon DEF SessionType
    <3>2. z \in Only("abort", "commit", y.plan, y.id, y.copied, None, y.ok)
      BY <1>0, <3>1, ZenonT(60) DEF Sessions, Only
    <3> QED
      BY <3>1, <3>2, Zenon DEF To
  <2> QED
    BY <1>3, <1>4, <2>1, Zenon DEF Leave
<1>5. ASSUME NEW p, NEW s, NEW x, Begin(r, p, s, x) PROVE To(r, Only(x, "commit", p, s, {}, None, FALSE))
  <2>1. session' = [session EXCEPT ![r] = z] /\ z = [Idle EXCEPT !.pc = x, !.op = "commit", !.plan = p, !.id = s]
    BY <1>5 DEF Begin, SessionType
  <2>2. z \in Only(x, "commit", p, s, {}, None, FALSE)
    BY <2>1, ZenonT(60) DEF Idle, Only
  <2> QED
    BY <2>1, <2>2, Zenon DEF To
<1> QED
  BY <1>1, <1>2, <1>3, <1>4, <1>5, Zenon

(* What a move leaves, and where it leads.                                 *)
LEMMA ToFields ==
  ASSUME SessionType, NEW r \in Runners,
         NEW pc, NEW op, NEW plan, NEW id, NEW copied, NEW holder, NEW ok,
         To(r, Only(pc, op, plan, id, copied, holder, ok))
  PROVE  /\ session'[r].pc = pc /\ session'[r].op = op /\ session'[r].plan = plan /\ session'[r].id = id
         /\ session'[r].copied = copied /\ session'[r].holder = holder /\ session'[r].ok = ok
         /\ \A q \in Runners \ {r} : session'[q] = session[q]
BY DEF To, Only, SessionType

(* A move to fields of their types keeps the sessions' type.               *)
LEMMA ToType ==
  ASSUME SessionType, UNCHANGED plans, NEW r \in Runners,
         NEW pc \in Phases, NEW op \in {"none", "commit", "compensate", "rollback"},
         NEW plan \in Plans \union {None}, NEW id \in Stages \union {None}, NEW copied \in SUBSET Paths,
         NEW holder \in Owners \union {None}, NEW ok \in BOOLEAN,
         pc # "idle" => plan \in Plans /\ plans[plan] # None /\ id \in Stages,
         To(r, Only(pc, op, plan, id, copied, holder, ok))
  PROVE  SessionType'
<1> DEFINE y == session'[r]
<1>1. y \in Sessions /\ y.pc = pc /\ y.plan = plan /\ y.id = id
  BY DEF To, Only, Sessions
<1>2. session' = [session EXCEPT ![r] = y]
  BY DEF To
<1> HIDE DEF y
<1> QED
  BY <1>1, <1>2 DEF SessionType, At

(* The fields of a session.                                                *)
LEMMA Active ==
  ASSUME SessionType, NEW r \in Runners
  PROVE  LET y == session[r] IN
         /\ y.pc \in Phases /\ y.op \in {"none", "commit", "compensate", "rollback"}
         /\ y.plan \in Plans \union {None} /\ y.id \in Stages \union {None} /\ y.copied \in SUBSET Paths
         /\ y.holder \in Owners \union {None} /\ y.ok \in BOOLEAN
         /\ ~At(r, "idle") => y.plan \in Plans /\ plans[y.plan] # None /\ y.id \in Stages
BY DEF SessionType, Sessions, At

----------------------------------------------------------------------------
(* What was written stays *)

Grows ==
  /\ \A p \in Plans : plans[p] # None => plans'[p] = plans[p]
  /\ objects \subseteq objects' /\ releases \subseteq releases' /\ manifests \subseteq manifests'
  /\ lived \subseteq lived'
  /\ \A s \in Stages : retained[s] # None => retained'[s] = retained[s]
  /\ \A s \in Stages : restores[s] # None => restores'[s] = restores[s]

(* The bytes of a planned root are something, and stay the same.           *)
LEMMA BytesStay ==
  ASSUME StoreType, Grows, NEW x \in Roots, x \in Revisions => plans[x.plan] # None
  PROVE  Bytes(x) # None /\ Bytes(x)' = Bytes(x)
<1>1. CASE x \in Revisions /\ ~RootRewriter
  <2>1. x.plan \in Plans /\ plans[x.plan] \in PlanFiles /\ plans'[x.plan] = plans[x.plan]
    BY <1>1 DEF Revisions, StoreType, Grows
  <2>2. plans[x.plan].tree \in Trees
    BY <2>1 DEF PlanFiles
  <2> QED
    BY <1>1, <2>1, <2>2 DEF Bytes, TreeOf
<1>2. CASE ~(x \in Revisions /\ ~RootRewriter)
  BY <1>2 DEF Bytes, Roots
<1> QED
  BY <1>1, <1>2

(* What the descriptors and the plans name has been planned.               *)
LEMMA SeenPlanned ==
  ASSUME StoreInv, NEW x, Seen(x), x \in Revisions
  PROVE  plans[x.plan] # None
BY Zenon DEF StoreInv, Seen, Recorded

(* What a revision is served from and undone by stays.                     *)
LEMMA RecordedStays ==
  ASSUME StoreType, StoreInv, Grows, NEW x \in Roots, Recorded(x)
  PROVE  Recorded(x)'
<1>1. CASE x \in Revisions
  <2>1. x.plan \in Plans /\ x.id \in Stages /\ plans[x.plan] # None /\ plans'[x.plan] = plans[x.plan]
    BY <1>1 DEF Revisions, Recorded, Grows
  <2>0. /\ retained[x.id] # None => retained'[x.id] = retained[x.id]
        /\ restores[x.id] # None => restores'[x.id] = restores[x.id]
    BY <2>1 DEF Grows
  <2>9. restores[x.id] # None /\ (restores[x.id] # Absent => retained[x.id] = Bytes(restores[x.id]))
    BY <1>1 DEF Recorded
  <2>2. PICK e \in Roots : e = restores[x.id] /\ restores'[x.id] = e /\ e # None
    BY <2>0, <2>1, <2>9 DEF StoreType
  <2>3. e \in Revisions => plans[e.plan] # None
    BY <2>1, <2>2, SeenPlanned DEF StoreInv
  <2>4. Bytes(e) # None /\ Bytes(e)' = Bytes(e)
    BY <2>3, BytesStay
  <2>5. e # Absent => retained'[x.id] = Bytes(e)'
    BY <2>0, <2>2, <2>4, <2>9
  <2>7. (restores[x.id] # Absent => retained[x.id] = Bytes(restores[x.id]))'
    BY <2>2, <2>5 DEF Bytes, TreeOf
  <2> QED
    BY <2>1, <2>2, <2>7 DEF Recorded
<1>2. CASE x \notin Revisions
  BY <1>2 DEF Recorded
<1> QED
  BY <1>1, <1>2

LEMMA MaterializedStays ==
  ASSUME Grows, NEW x \in Roots, x \in Revisions => plans[x.plan] # None, Materialized(x)
  PROVE  Materialized(x)'
<1>1. CASE x \in Revisions
  <2>1. x.plan \in Plans /\ plans'[x.plan] = plans[x.plan]
    BY <1>1 DEF Revisions, Grows
  <2> QED
    BY <1>1, <2>1 DEF Materialized, TreeOf, Grows
<1>2. CASE x \notin Revisions
  BY <1>2 DEF Materialized
<1> QED
  BY <1>1, <1>2

(* A sound revision stays sound.                                           *)
LEMMA SoundStays ==
  ASSUME StoreType, StoreInv, Grows, NEW x \in Roots, Sound(x)
  PROVE  Sound(x)'
<1>1. x \in Revisions => plans[x.plan] # None
  BY DEF Sound, Recorded
<1> QED
  BY <1>1, RecordedStays, MaterializedStays DEF Sound

(* What a runner made sure of stays so.                                    *)
LEMMA ClaimsStay ==
  ASSUME StoreType, StoreInv, Grows, NEW pc, NEW plan, NEW id, NEW copied, NEW ok,
         pc # "idle" => plan \in Plans /\ plans[plan] # None /\ id \in Stages,
         Claims(pc, plan, id, copied, ok)
  PROVE  Claims(pc, plan, id, copied, ok)'
<1>1. CASE pc = "idle"
  BY <1>1 DEF Claims
<1>2. CASE pc # "idle"
  <2>1. plans'[plan] = plans[plan] /\ plans[plan] \in PlanFiles
    BY <1>2 DEF Grows, StoreType
  <2>2. PICK e \in Roots : e = plans[plan].expected
    BY <2>1 DEF PlanFiles, Roots
  <2>3. e # None
    BY <2>2 DEF Roots
  <2>4. Bytes(e) # None /\ Bytes(e)' = Bytes(e)
    BY <1>2, <2>2, SeenPlanned, BytesStay DEF StoreInv
  <2>9. /\ retained[id] # None => retained'[id] = retained[id]
        /\ restores[id] # None => restores'[id] = restores[id]
    BY <1>2 DEF Grows
  <2>0. /\ pc \in {"restore", "root"} => e = Absent \/ retained[id] = Bytes(e)
        /\ pc = "root" => restores[id] = e
        /\ pc \in {"validate", "put"} => restores[id] # None
        /\ pc = "put" => Materialized(restores[id])
    BY <2>2 DEF Claims
  <2>5. pc \in {"restore", "root"} => e = Absent \/ retained'[id] = Bytes(e)'
    BY <2>0, <2>4, <2>9
  <2>6. pc = "root" => restores'[id] = e
    BY <2>0, <2>3, <2>9
  <2>7. pc \in {"validate", "put"} => restores'[id] # None
    BY <2>0, <2>9
  <2>8. (pc \in {"restore", "root"} => plans[plan].expected = Absent \/ retained[id] = Bytes(plans[plan].expected))'
    BY <2>1, <2>2, <2>5 DEF Bytes, TreeOf
  <2>10. (pc = "put" => Materialized(restores[id]))'
    <3> SUFFICES ASSUME pc = "put" PROVE Materialized(restores[id])'
      BY Zenon
    <3>1. PICK v \in Roots : v = restores[id] /\ restores'[id] = v /\ v # None
      BY <1>2, <2>0, <2>9 DEF StoreType
    <3>2. v \in Revisions => plans[v.plan] # None
      BY <1>2, <3>1, SeenPlanned DEF StoreInv
    <3>3. Materialized(v)'
      BY <2>0, <3>1, <3>2, MaterializedStays
    <3> QED
      BY <3>1, <3>3 DEF Materialized, TreeOf
  <2> QED
    BY <2>1, <2>2, <2>6, <2>7, <2>8, <2>10 DEF Claims, Grows
<1> QED
  BY <1>1, <1>2

(* A runner moves to a phase it has earned.                                *)
LEMMA SessionStep ==
  ASSUME IInv, Grows, UNCHANGED plans, NEW r \in Runners,
         NEW pc \in Phases, NEW op \in {"none", "commit", "compensate", "rollback"},
         NEW plan \in Plans \union {None}, NEW id \in Stages \union {None}, NEW copied \in SUBSET Paths,
         NEW holder \in Owners \union {None}, NEW ok \in BOOLEAN,
         pc # "idle" => plan \in Plans /\ plans[plan] # None /\ id \in Stages,
         To(r, Only(pc, op, plan, id, copied, holder, ok)),
         Claims(pc, plan, id, copied, ok)'
  PROVE  SessionType' /\ SessionInv'
<1>1. SessionType'
  BY ToType DEF IInv, TypeInv
<1>2. /\ session'[r].pc = pc /\ session'[r].plan = plan /\ session'[r].id = id
      /\ session'[r].copied = copied /\ session'[r].ok = ok
      /\ \A q \in Runners \ {r} : session'[q] = session[q]
  BY ToFields DEF IInv, TypeInv
<1>3. ASSUME NEW q \in Runners
      PROVE  Claims(session[q].pc, session[q].plan, session[q].id, session[q].copied, session[q].ok)'
  <2>1. CASE q = r
    BY <1>2, <2>1, Zenon DEF Claims, Bytes, TreeOf, Materialized
  <2>2. CASE q # r
    <3>1. PICK y \in Sessions : y = session[q] /\ session'[q] = y
      BY <1>2, <2>2 DEF IInv, TypeInv, SessionType
    <3>2. y.pc # "idle" => y.plan \in Plans /\ plans[y.plan] # None /\ y.id \in Stages
      BY <3>1, Active DEF IInv, TypeInv, At
    <3>3. Claims(y.pc, y.plan, y.id, y.copied, y.ok)
      BY <3>1 DEF IInv, SessionInv
    <3>4. Claims(y.pc, y.plan, y.id, y.copied, y.ok)'
      BY <3>2, <3>3, ClaimsStay DEF IInv, TypeInv
    <3> QED
      BY <3>1, <3>4, Zenon DEF Claims, Bytes, TreeOf, Materialized
  <2> QED
    BY <2>1, <2>2
<1> QED
  BY <1>1, <1>3 DEF SessionInv

(* Steps of nobody's, while the bucket grows.                              *)
LEMMA SessionsStay ==
  ASSUME IInv, Grows, UNCHANGED session
  PROVE  SessionType' /\ SessionInv'
<1>1. SessionType'
  <2>1. ASSUME NEW r \in Runners, ~At(r, "idle")'
        PROVE  (session[r].plan \in Plans /\ plans[session[r].plan] # None /\ session[r].id \in Stages)'
    BY <2>1, Active DEF IInv, TypeInv, At, Grows
  <2> QED
    BY <2>1 DEF IInv, TypeInv, SessionType
<1>2. ASSUME NEW q \in Runners
      PROVE  Claims(session[q].pc, session[q].plan, session[q].id, session[q].copied, session[q].ok)'
  <2>1. PICK y \in Sessions : y = session[q] /\ session'[q] = y
    BY DEF IInv, TypeInv, SessionType
  <2>2. y.pc # "idle" => y.plan \in Plans /\ plans[y.plan] # None /\ y.id \in Stages
    BY <2>1, Active DEF IInv, TypeInv, At
  <2>3. Claims(y.pc, y.plan, y.id, y.copied, y.ok)
    BY <2>1 DEF IInv, SessionInv
  <2>4. Claims(y.pc, y.plan, y.id, y.copied, y.ok)'
    BY <2>2, <2>3, ClaimsStay DEF IInv, TypeInv
  <2> QED
    BY <2>1, <2>4, Zenon DEF Claims, Bytes, TreeOf, Materialized
<1> QED
  BY <1>1, <1>2 DEF SessionInv

(* Phases that say nothing of the bucket.                                  *)
Modest == {"point", "reconcile", "adopt", "lock", "takeover", "observe", "copy", "examine", "post",
           "unlock", "abort"}

(* The moves that claim nothing new.                                       *)
LEMMA Moves ==
  ASSUME IInv, Grows, UNCHANGED plans, NEW r \in Runners
  PROVE  /\ \A x \in Modest : ~At(r, "idle") /\ ~session[r].ok /\ Goto(r, x) => SessionType' /\ SessionInv'
         /\ ~At(r, "idle") /\ Finish(r, FALSE) => SessionType' /\ SessionInv'
         /\ session' = [session EXCEPT ![r] = Idle] => SessionType' /\ SessionInv'
         /\ ~At(r, "idle") /\ ~session[r].ok /\ Leave(r) => SessionType' /\ SessionInv'
         /\ At(r, "unlock") /\ session[r].ok /\ Goto(r, "committed") => SessionType' /\ SessionInv'
<1>0. PICK y \in Sessions : y = session[r]
  BY DEF IInv, TypeInv, SessionType
<1>1. /\ y.pc \in Phases /\ y.op \in {"none", "commit", "compensate", "rollback"}
      /\ y.plan \in Plans \union {None} /\ y.id \in Stages \union {None} /\ y.copied \in SUBSET Paths
      /\ y.holder \in Owners \union {None} /\ y.ok \in BOOLEAN
      /\ ~At(r, "idle") => y.plan \in Plans /\ plans[y.plan] # None /\ y.id \in Stages
  BY <1>0, Active DEF IInv, TypeInv
<1>2. Claims(y.pc, y.plan, y.id, y.copied, y.ok)
  BY <1>0 DEF IInv, SessionInv
<1>3. SessionType /\ StoreType /\ StoreInv
  BY DEF IInv, TypeInv
<1>4. Modest \subseteq Phases /\ "idle" \in Phases /\ "idle" \notin Modest /\ "committed" \in Phases
  BY DEF Modest, Phases, Uploading, Holding
<1>5. ASSUME NEW x \in Modest, ~At(r, "idle") PROVE Claims(x, y.plan, y.id, y.copied, FALSE)'
  <2>1. Claims(x, y.plan, y.id, y.copied, FALSE)
    BY <1>2 DEF Claims, Modest
  <2> QED
    BY <1>1, <1>3, <1>5, <2>1, ClaimsStay, ZenonT(60)
<1>6. ASSUME NEW x \in Modest, ~At(r, "idle"), ~session[r].ok, Goto(r, x) PROVE SessionType' /\ SessionInv'
  <2>1. To(r, Only(x, y.op, y.plan, y.id, y.copied, y.holder, FALSE))
    BY <1>0, <1>1, <1>3, <1>6, Forms, Zenon
  <2> QED
    BY <1>1, <1>4, <1>5, <1>6, <2>1, SessionStep, ZenonT(60)
<1>7. ASSUME ~At(r, "idle"), Finish(r, FALSE) PROVE SessionType' /\ SessionInv'
  <2>1. To(r, Only("unlock", y.op, y.plan, y.id, y.copied, y.holder, FALSE))
    BY <1>0, <1>3, <1>7, Forms, Zenon
  <2>2. "unlock" \in Modest
    BY DEF Modest
  <2> QED
    BY <1>1, <1>4, <1>5, <1>7, <2>1, <2>2, SessionStep, ZenonT(60)
<1>8. To(r, Only("idle", "none", None, None, {}, None, FALSE)) => SessionType' /\ SessionInv'
  <2>1. Claims("idle", None, None, {}, FALSE)'
    BY DEF Claims
  <2> QED
    BY <1>4, <2>1, SessionStep, ZenonT(60)
<1>9. ASSUME ~At(r, "idle"), ~session[r].ok, Leave(r) PROVE SessionType' /\ SessionInv'
  <2>1. CASE To(r, Only("abort", "commit", y.plan, y.id, y.copied, None, y.ok))
    <3>1. "abort" \in Modest /\ y.ok = FALSE
      BY <1>0, <1>1, <1>9 DEF Modest
    <3> QED
      BY <1>1, <1>4, <1>5, <1>9, <2>1, <3>1, SessionStep, Zenon
  <2> QED
    BY <1>0, <1>3, <1>8, <1>9, <2>1, Forms, Zenon
<1>10. ASSUME At(r, "unlock"), session[r].ok, Goto(r, "committed") PROVE SessionType' /\ SessionInv'
  <2>1. To(r, Only("committed", y.op, y.plan, y.id, y.copied, y.holder, TRUE))
    BY <1>0, <1>1, <1>3, <1>10, Forms, Zenon
  <2>2. Claims("committed", y.plan, y.id, y.copied, TRUE)
    BY <1>0, <1>2, <1>10 DEF Claims
  <2>3. ~At(r, "idle")
    BY <1>10 DEF At
  <2>4. Claims("committed", y.plan, y.id, y.copied, TRUE)'
    BY <1>1, <1>3, <2>2, <2>3, ClaimsStay, Zenon
  <2> QED
    BY <1>1, <1>4, <2>1, <2>3, <2>4, SessionStep, Zenon
<1>11. session' = [session EXCEPT ![r] = Idle] => SessionType' /\ SessionInv'
  BY <1>3, <1>8, Forms, Zenon
<1> QED
  BY <1>6, <1>7, <1>9, <1>10, <1>11, Zenon

(* The same for a new plan, stage, operation or holder.                    *)
LEMMA ModestStep ==
  ASSUME IInv, Grows, UNCHANGED plans, NEW r \in Runners, NEW x \in Modest,
         NEW op \in {"none", "commit", "compensate", "rollback"},
         NEW plan \in Plans, plans[plan] # None, NEW id \in Stages, NEW copied, NEW holder \in Owners \union {None},
         copied = {} \/ (plan = session[r].plan /\ copied = session[r].copied),
         To(r, Only(x, op, plan, id, copied, holder, FALSE))
  PROVE  SessionType' /\ SessionInv'
<1>1. copied \in SUBSET Paths
  BY Active DEF IInv, TypeInv
<1>2. Claims(x, plan, id, copied, FALSE)
  <2>1. \A f \in copied : publishedFileKey(plans[plan].tree, f) \in objects
    BY Zenon DEF IInv, SessionInv, Claims
  <2> QED
    BY <2>1 DEF Claims, Modest
<1>3. x \in Phases /\ x # "idle"
  BY DEF Modest, Phases, Uploading, Holding
<1>4. Claims(x, plan, id, copied, FALSE)'
  BY <1>2, <1>3, ClaimsStay, ZenonT(60) DEF IInv, TypeInv
<1> QED
  BY <1>1, <1>3, <1>4, SessionStep, ZenonT(60)

(* Steps that touch only the staging area, the lease and a session.        *)
Steady == UNCHANGED <<plans, release, undo, live, page>>

(* Nothing is lost in such a step.                                        *)
LEMMA SteadyGrows ==
  ASSUME Steady
  PROVE  Grows /\ UNCHANGED plans
BY DEF Steady, Grows, release, undo, live

(* Such a step keeps the bucket as it was.                                 *)
LEMMA SteadyStep ==
  ASSUME IInv, Steady, SessionType', SessionInv',
         stages' \in [Stages -> Plans \union {None}], pointer' \in [Plans -> Stages \union {None}],
         lease' = None \/ lease' \in [owner : Owners, expired : BOOLEAN]
  PROVE  IInv'
<1>1. StoreType'
  BY DEF IInv, TypeInv, StoreType, Steady, undo, live
<1>2. StoreInv'
  BY Zenon DEF IInv, StoreInv, Steady, release, undo, live, Sound, Recorded, Seen, Materialized, TreeOf, Bytes, PageWasLive
<1> QED
  BY <1>1, <1>2 DEF IInv, TypeInv

(* Stage and Abort.                                                        *)
LEMMA StagingSteps ==
  ASSUME IInv, NEW r \in Runners,
         \/ \E p \in Plans : StageReuse(r, p) \/ \E s \in Stages : StageUpload(r, p, s)
         \/ PublishPointer(r) \/ ReconcilePointer(r) \/ AdoptPointer(r) \/ Abort(r) \/ PointerUnanswered(r)
  PROVE  IInv'
<1>1. SessionType /\ StoreType
  BY DEF IInv, TypeInv
<1>2. Steady /\ UNCHANGED lease
  BY DEF StageReuse, StageUpload, PublishPointer, ReconcilePointer, AdoptPointer, Abort, PointerUnanswered, Steady, staging
<1>3. Grows /\ UNCHANGED plans
  BY <1>2, SteadyGrows
<1>4. PICK y \in Sessions : y = session[r]
  BY <1>1, Zenon DEF SessionType
<1>5. /\ y.op \in {"none", "commit", "compensate", "rollback"} /\ y.holder \in Owners \union {None}
      /\ ~At(r, "idle") => y.plan \in Plans /\ plans[y.plan] # None /\ y.id \in Stages
  BY <1>1, <1>4, Active
<1>6. ~At(r, "unlock") /\ ~At(r, "committed") => y.ok = FALSE
  BY <1>4, Zenon DEF IInv, SessionInv, Claims, At, Sessions
<1>7. /\ stages' \in [Stages -> Plans \union {None}] /\ pointer' \in [Plans -> Stages \union {None}]
      /\ SessionType' /\ SessionInv'
  <2>1. ASSUME NEW p \in Plans, StageReuse(r, p) \/ \E s \in Stages : StageUpload(r, p, s)
        PROVE  /\ stages' \in [Stages -> Plans \union {None}] /\ pointer' \in [Plans -> Stages \union {None}]
               /\ SessionType' /\ SessionInv'
    <3>1. PICK s \in Stages, x \in {"lock", "point"} : Begin(r, p, s, x) /\ plans[p] # None
      BY <1>1, <2>1, Zenon DEF StageReuse, StageUpload, StoreType
    <3>2. To(r, Only(x, "commit", p, s, {}, None, FALSE))
      BY <1>1, <3>1, Forms, Zenon
    <3>3. SessionType' /\ SessionInv'
      BY <1>3, <3>1, <3>2, ModestStep, Zenon DEF Modest
    <3>4. UNCHANGED pointer /\ \/ UNCHANGED stages
                               \/ \E n \in Stages : stages' = [stages EXCEPT ![n] = p]
      BY <2>1, Zenon DEF StageReuse, StageUpload, staging
    <3>5. stages' \in [Stages -> Plans \union {None}] /\ pointer' \in [Plans -> Stages \union {None}]
      BY <1>1, <3>4 DEF StoreType
    <3> QED
      BY <3>3, <3>5
  <2>2. CASE PublishPointer(r)
    <3>1. ~At(r, "idle") /\ y.ok = FALSE
      BY <1>6, <2>2, Zenon DEF PublishPointer, At
    <3>2. SessionType' /\ SessionInv'
      BY <1>3, <1>4, <2>2, <3>1, Moves, Zenon DEF PublishPointer, Modest
    <3> QED
      BY <1>1, <1>4, <1>5, <2>2, <3>1, <3>2 DEF PublishPointer, StoreType
  <2>3. CASE PointerUnanswered(r)
    <3>1. ~At(r, "idle") /\ y.ok = FALSE
      BY <1>6, <2>3, Zenon DEF PointerUnanswered, At
    <3>2. SessionType' /\ SessionInv'
      BY <1>3, <1>4, <2>3, <3>1, Moves, Zenon DEF PointerUnanswered, Modest
    <3> QED
      BY <1>1, <1>4, <1>5, <2>3, <3>1, <3>2 DEF PointerUnanswered, StoreType
  <2>4. CASE ReconcilePointer(r)
    <3>1. ~At(r, "idle") /\ y.ok = FALSE
      BY <1>6, <2>4, Zenon DEF ReconcilePointer, At
    <3>2. SessionType' /\ SessionInv'
      BY <1>3, <1>4, <2>4, <3>1, Moves, Zenon DEF ReconcilePointer, Modest
    <3> QED
      BY <1>1, <1>4, <1>5, <2>4, <3>1, <3>2 DEF ReconcilePointer, StoreType
  <2>5. CASE AdoptPointer(r)
    <3>1. ~At(r, "idle") /\ y.ok = FALSE
      BY <1>6, <2>5 DEF AdoptPointer, At
    <3>2. CASE session' = [session EXCEPT ![r] = Idle]
      BY <1>1, <1>3, <1>4, <1>5, <2>5, <3>1, <3>2, Moves, ZenonT(60) DEF AdoptPointer, StoreType
    <3>3. CASE session' # [session EXCEPT ![r] = Idle]
      <4>1. PICK s \in Stages : session'[r] = [y EXCEPT !.pc = "lock", !.id = s]
                                /\ session' = [session EXCEPT ![r] = session'[r]]
        BY <1>1, <1>4, <1>5, <2>5, <3>1, <3>3, Zenon DEF AdoptPointer, StoreType, SessionType
      <4>2. To(r, Only("lock", y.op, y.plan, s, y.copied, y.holder, FALSE))
        <5>1. session'[r] \in Only("lock", y.op, y.plan, s, y.copied, y.holder, FALSE)
          BY <3>1, <4>1, ZenonT(60) DEF Only, Sessions
        <5> QED
          BY <4>1, <5>1, Zenon DEF To
      <4>3. SessionType' /\ SessionInv'
        BY <1>3, <1>4, <1>5, <3>1, <4>2, ModestStep, Zenon DEF Modest
      <4> QED
        BY <1>1, <1>4, <1>5, <2>5, <3>1, <4>3 DEF AdoptPointer, StoreType
    <3> QED
      BY <3>2, <3>3
  <2>6. CASE Abort(r)
    <3>1. SessionType' /\ SessionInv'
      BY <1>3, <2>6, Moves, Zenon DEF Abort
    <3>2. pointer' = pointer \/ pointer' = [pointer EXCEPT ![session[r].plan] = None]
      BY <2>6, Zenon DEF Abort
    <3> QED
      BY <1>1, <2>6, <3>1, <3>2, Zenon DEF Abort, StoreType
  <2> QED
    BY <2>1, <2>2, <2>3, <2>4, <2>5, <2>6
<1>8. lease' = None \/ lease' \in [owner : Owners, expired : BOOLEAN]
  BY <1>1, <1>2, Zenon DEF StoreType
<1> QED
  BY <1>2, <1>7, <1>8, SteadyStep, Zenon

(* Reporting success for a revision that has been live.                    *)
LEMMA FinishLive ==
  ASSUME IInv, Grows, UNCHANGED plans, NEW r \in Runners, ~At(r, "idle"), Revision(r) \in lived, Finish(r, TRUE)
  PROVE  SessionType' /\ SessionInv'
<1>0. PICK y \in Sessions : y = session[r]
  BY Zenon DEF IInv, TypeInv, SessionType
<1>1. /\ y.op \in {"none", "commit", "compensate", "rollback"}
      /\ y.copied \in SUBSET Paths /\ y.holder \in Owners \union {None}
      /\ y.plan \in Plans /\ plans[y.plan] # None /\ y.id \in Stages
  BY <1>0, Active DEF IInv, TypeInv
<1>2. Claims("unlock", y.plan, y.id, y.copied, TRUE)
  <2>1. Claims(y.pc, y.plan, y.id, y.copied, y.ok)
    BY <1>0 DEF IInv, SessionInv
  <2> QED
    BY <1>0, <2>1, Zenon DEF Claims, Revision
<1>3. Claims("unlock", y.plan, y.id, y.copied, TRUE)'
  BY <1>1, <1>2, ClaimsStay, Zenon DEF IInv, TypeInv
<1>4. To(r, Only("unlock", y.op, y.plan, y.id, y.copied, y.holder, TRUE))
  BY <1>0, Forms, Zenon DEF IInv, TypeInv
<1>5. "unlock" \in Phases
  BY DEF Phases
<1> QED
  BY <1>1, <1>3, <1>4, <1>5, SessionStep, Zenon

(* Going on with a restore whose descriptor was read.                      *)
LEMMA RestoreMove ==
  ASSUME IInv, Grows, UNCHANGED plans, NEW r \in Runners, ~At(r, "idle"), ~session[r].ok,
         restores[session[r].id] # None, NEW x \in {"validate", "put"}, Goto(r, x),
         x = "put" => Materialized(restores[session[r].id])
  PROVE  SessionType' /\ SessionInv'
<1>0. PICK y \in Sessions : y = session[r] /\ y.ok = FALSE
  BY DEF IInv, TypeInv, SessionType, Sessions
<1>1. /\ y.op \in {"none", "commit", "compensate", "rollback"}
      /\ y.copied \in SUBSET Paths /\ y.holder \in Owners \union {None}
      /\ y.plan \in Plans /\ plans[y.plan] # None /\ y.id \in Stages
  BY <1>0, Active DEF IInv, TypeInv
<1>2. Claims(x, y.plan, y.id, y.copied, FALSE)
  <2>1. Claims(y.pc, y.plan, y.id, y.copied, y.ok)
    BY <1>0 DEF IInv, SessionInv
  <2> QED
    BY <1>0, <2>1, Zenon DEF Claims
<1>3. Claims(x, y.plan, y.id, y.copied, FALSE)'
  BY <1>1, <1>2, ClaimsStay, Zenon DEF IInv, TypeInv
<1>4. To(r, Only(x, y.op, y.plan, y.id, y.copied, y.holder, FALSE))
  BY <1>0, Forms, Zenon DEF IInv, TypeInv
<1>5. x \in Phases /\ x # "idle"
  BY DEF Phases, Holding
<1> QED
  BY <1>1, <1>3, <1>4, <1>5, SessionStep, Zenon

(* Success is a claim of two phases only.                                  *)
LEMMA Undecided ==
  ASSUME IInv, NEW r \in Runners
  PROVE  /\ ~At(r, "unlock") /\ ~At(r, "committed") => session[r].ok = FALSE
         /\ session[r].ok => Revision(r) \in lived
BY Active, Zenon DEF IInv, TypeInv, SessionInv, Claims, At, Revision

(* A live root of the host has a plan.                                     *)
LEMMA RootSeen ==
  ASSUME IInv, root \in Revisions
  PROVE  root \in lived /\ root.plan \in Plans /\ root.id \in Stages /\ plans[root.plan] # None
BY SeenPlanned DEF IInv, StoreInv, Seen, Revisions

(* The lease.                                                              *)
LEMMA LeaseSteps ==
  ASSUME IInv, NEW r \in Runners,
         AcquireCommitLock(r) \/ LeaseUnanswered(r) \/ TakeOverLease(r) \/ Unlock(r)
  PROVE  IInv'
<1>1. SessionType /\ StoreType
  BY DEF IInv, TypeInv
<1>2. Steady /\ UNCHANGED <<stages, pointer>>
  BY DEF AcquireCommitLock, LeaseUnanswered, TakeOverLease, Unlock, Steady, staging
<1>3. Grows /\ UNCHANGED plans
  BY <1>2, SteadyGrows
<1>4. PICK y \in Sessions : y = session[r]
  BY <1>1 DEF SessionType
<1>5. ~At(r, "idle")
  BY DEF AcquireCommitLock, LeaseUnanswered, TakeOverLease, Unlock, At
<1>6. /\ y.op \in {"none", "commit", "compensate", "rollback"} /\ y.holder \in Owners \union {None}
      /\ y.plan \in Plans /\ plans[y.plan] # None /\ y.id \in Stages
  BY <1>1, <1>4, <1>5, Active
<1>7. ~At(r, "unlock") => session[r].ok = FALSE /\ y.ok = FALSE
  <2>1. ~At(r, "committed")
    BY DEF AcquireCommitLock, LeaseUnanswered, TakeOverLease, Unlock, At
  <2> QED
    BY <1>4, <2>1, Undecided, ZenonT(60)
<1>8. Taken(r) \in [owner : Owners, expired : BOOLEAN]
  BY <1>4, <1>6 DEF Taken, Owner, Owners
<1>9. FirstHeld(r) \in Modest /\ "takeover" \in Modest
  BY DEF FirstHeld, Modest
<1>10. lease' = None \/ lease' \in [owner : Owners, expired : BOOLEAN]
  BY <1>1, <1>8 DEF AcquireCommitLock, LeaseUnanswered, TakeOverLease, Unlock, StoreType
<1>11. SessionType' /\ SessionInv'
  <2>1. CASE AcquireCommitLock(r)
    <3>1. ~session[r].ok
      BY <1>7, <2>1 DEF AcquireCommitLock, At
    <3>2. CASE Leave(r) \/ Goto(r, FirstHeld(r))
      BY <1>3, <1>5, <1>9, <3>1, <3>2, Moves, Zenon
    <3>3. CASE ~(Leave(r) \/ Goto(r, FirstHeld(r)))
      <4>1. session' = [session EXCEPT ![r].pc = "takeover", ![r].holder = lease.owner] /\ lease # None
        BY <2>1, <3>3 DEF AcquireCommitLock
      <4>2. PICK h \in Owners : h = lease.owner
        BY <1>1, <4>1 DEF StoreType
      <4>3. session' = [session EXCEPT ![r] = session'[r]] /\ session'[r] = [y EXCEPT !.pc = "takeover", !.holder = h]
        BY <1>1, <1>4, <4>1, <4>2, Zenon DEF SessionType
      <4>4. session'[r] \in Only("takeover", y.op, y.plan, y.id, y.copied, h, FALSE)
        BY <1>4, <3>1, <4>3, ZenonT(60) DEF Only, Sessions
      <4>5. To(r, Only("takeover", y.op, y.plan, y.id, y.copied, h, FALSE))
        BY <4>3, <4>4, ZenonT(60) DEF To
      <4> QED
        BY <1>3, <1>4, <1>6, <1>9, <4>5, ModestStep, Zenon
    <3> QED
      BY <3>2, <3>3
  <2>2. CASE LeaseUnanswered(r)
    <3>1. ~session[r].ok
      BY <1>7, <2>2 DEF LeaseUnanswered, At
    <3> QED
      BY <1>3, <1>5, <2>2, <3>1, Moves, Zenon DEF LeaseUnanswered
  <2>3. CASE TakeOverLease(r)
    <3>1. ~session[r].ok /\ y.ok = FALSE
      BY <1>7, <2>3 DEF TakeOverLease, At
    <3>2. CASE Leave(r)
      BY <1>3, <1>5, <3>1, <3>2, Moves, Zenon
    <3>3. CASE ~Leave(r)
      <4>1. PICK x \in Modest : x = FirstHeld(r)
        BY <1>9
      <4>2. session' = [session EXCEPT ![r] = session'[r]] /\ session'[r] = [y EXCEPT !.pc = x, !.holder = None]
        BY <1>1, <1>4, <2>3, <3>3, <4>1, Zenon DEF TakeOverLease, SessionType
      <4>3. session'[r] \in Only(x, y.op, y.plan, y.id, y.copied, None, FALSE)
        BY <1>4, <3>1, <4>2, ZenonT(60) DEF Only, Sessions
      <4>4. To(r, Only(x, y.op, y.plan, y.id, y.copied, None, FALSE))
        BY <4>2, <4>3, Zenon DEF To
      <4> QED
        BY <1>3, <1>4, <1>6, <4>4, ModestStep, Zenon
    <3> QED
      BY <3>2, <3>3
  <2>4. CASE Unlock(r)
    BY <1>3, <1>5, <2>4, Moves, ZenonT(60) DEF Unlock
  <2> QED
    BY <2>1, <2>2, <2>3, <2>4
<1> QED
  BY <1>1, <1>2, <1>10, <1>11, SteadyStep DEF StoreType

(* Reads of the bucket, decisions of the engine, failures and crashes.     *)
LEMMA SteadySteps ==
  ASSUME IInv, NEW r \in Runners,
         \/ ObserveForCommit(r) \/ CommitPostcondition(r) \/ Accept(r) \/ Compensate(r) \/ RollbackRepository(r)
         \/ ExamineForRestore(r) \/ ValidateRestoreTarget(r) \/ RequestFails(r) \/ Crash(r)
  PROVE  IInv'
<1>1. SessionType /\ StoreType
  BY DEF IInv, TypeInv
<1>2. Steady /\ UNCHANGED <<pointer, lease>>
  BY ZenonT(60) DEF ObserveForCommit, CommitPostcondition, Accept, Compensate, RollbackRepository, ExamineForRestore,
         ValidateRestoreTarget, RequestFails, Crash, Steady, staging
<1>3. Grows /\ UNCHANGED plans
  BY <1>2, SteadyGrows
<1>4. PICK y \in Sessions : y = session[r]
  BY <1>1, Zenon DEF SessionType
<1>5. /\ y.op \in {"none", "commit", "compensate", "rollback"} /\ y.holder \in Owners \union {None}
      /\ ~At(r, "idle") => y.plan \in Plans /\ plans[y.plan] # None /\ y.id \in Stages
  BY <1>1, <1>4, Active
<1>6. stages' \in [Stages -> Plans \union {None}]
  <2>1. CASE RequestFails(r)
    <3>1. stages' = stages \/ stages' = [stages EXCEPT ![session[r].id] = None]
      BY <2>1, Zenon DEF RequestFails
    <3> QED
      BY <1>1, <3>1, Zenon DEF StoreType
  <2>2. CASE ~RequestFails(r)
    BY <1>1, <2>2, ZenonT(60) DEF ObserveForCommit, CommitPostcondition, Accept, Compensate, RollbackRepository,
                      ExamineForRestore, ValidateRestoreTarget, Crash, staging, StoreType
  <2> QED
    BY <2>1, <2>2
<1>7. /\ ~At(r, "unlock") /\ ~At(r, "committed") => session[r].ok = FALSE
      /\ session[r].ok => Revision(r) \in lived
  BY Undecided, Zenon
<1>8. SessionType' /\ SessionInv'
  <2>1. CASE ObserveForCommit(r)
    <3>1. ~At(r, "idle") /\ ~session[r].ok
      BY <1>7, <2>1, Zenon DEF ObserveForCommit, At
    <3>2. CASE Finish(r, TRUE) /\ root = Revision(r)
      <4>1. Revision(r) \in lived
        BY <1>4, <1>5, <3>1, <3>2, RootSeen, Zenon DEF Revision, Revisions
      <4> QED
        BY <1>3, <3>1, <3>2, <4>1, FinishLive, ZenonT(60)
    <3>3. CASE Finish(r, FALSE) \/ Goto(r, "copy")
      BY <1>3, <3>1, <3>3, Moves, Zenon DEF Modest
    <3> QED
      BY <2>1, <3>2, <3>3, Zenon DEF ObserveForCommit
  <2>2. CASE CommitPostcondition(r)
    <3>1. ~At(r, "idle") /\ ~session[r].ok
      BY <1>7, <2>2, Zenon DEF CommitPostcondition, At
    <3>2. CASE Intact(root) /\ root = Revision(r)
      <4>1. Finish(r, TRUE)
        BY <2>2, <3>2, ZenonT(60) DEF CommitPostcondition
      <4>2. Revision(r) \in lived
        BY <1>4, <1>5, <3>1, <3>2, RootSeen, Zenon DEF Revision, Revisions
      <4> QED
        BY <1>3, <3>1, <4>1, <4>2, FinishLive, Zenon
    <3>3. CASE ~(Intact(root) /\ root = Revision(r))
      <4>1. Finish(r, FALSE)
        BY <2>2, <3>3, ZenonT(60) DEF CommitPostcondition
      <4> QED
        BY <1>3, <3>1, <4>1, Moves, Zenon
    <3> QED
      BY <3>2, <3>3
  <2>3. CASE Accept(r)
    <3>1. ~At(r, "idle")
      BY <2>3 DEF Accept, At
    <3>2. session' = [session EXCEPT ![r] = session'[r]] /\ session'[r] = [y EXCEPT !.pc = "abort", !.ok = FALSE]
      BY <1>1, <1>4, <2>3, ZenonT(60) DEF Accept, SessionType
    <3>3. session'[r] \in Only("abort", y.op, y.plan, y.id, y.copied, y.holder, FALSE)
      BY <1>4, <3>2, ZenonT(60) DEF Only, Sessions
    <3>4. To(r, Only("abort", y.op, y.plan, y.id, y.copied, y.holder, FALSE))
      BY <3>2, <3>3, Zenon DEF To
    <3> QED
      BY <1>3, <1>4, <1>5, <3>1, <3>4, ModestStep, ZenonT(60) DEF Modest
  <2>4. CASE Compensate(r)
    <3>1. ~At(r, "idle")
      BY <2>4 DEF Compensate, At
    <3>2. /\ session' = [session EXCEPT ![r] = session'[r]]
          /\ session'[r] = [y EXCEPT !.pc = "lock", !.op = "compensate", !.ok = FALSE]
      BY <1>1, <1>4, <2>4, Zenon DEF Compensate, SessionType
    <3>3. session'[r] \in Only("lock", "compensate", y.plan, y.id, y.copied, y.holder, FALSE)
      BY <1>4, <3>2, ZenonT(60) DEF Only, Sessions
    <3>4. To(r, Only("lock", "compensate", y.plan, y.id, y.copied, y.holder, FALSE))
      BY <3>2, <3>3, Zenon DEF To
    <3> QED
      BY <1>3, <1>4, <1>5, <3>1, <3>4, ModestStep, Zenon DEF Modest
  <2>5. CASE RollbackRepository(r)
    <3>1. PICK p \in Plans, s \in Stages : p = root.plan /\ s = root.id /\ plans[p] # None
      BY <2>5, RootSeen DEF RollbackRepository
    <3>2. /\ session' = [session EXCEPT ![r] = session'[r]]
          /\ session'[r] = [Idle EXCEPT !.pc = "lock", !.op = "rollback", !.plan = p, !.id = s]
      BY <1>1, <2>5, <3>1 DEF RollbackRepository, SessionType
    <3>3. session'[r] \in Only("lock", "rollback", p, s, {}, None, FALSE)
      BY <3>2, ZenonT(60) DEF Only, Idle
    <3>4. To(r, Only("lock", "rollback", p, s, {}, None, FALSE))
      BY <3>2, <3>3, Zenon DEF To
    <3> QED
      BY <1>3, <3>1, <3>4, ModestStep, Zenon DEF Modest
  <2>6. CASE ExamineForRestore(r)
    <3>1. ~At(r, "idle") /\ ~session[r].ok
      BY <1>7, <2>6, Zenon DEF ExamineForRestore, At
    <3>2. CASE Finish(r, FALSE)
      BY <1>3, <3>1, <3>2, Moves, ZenonT(60)
    <3>3. CASE ~Finish(r, FALSE)
      <4>1. /\ restores[session[r].id] # None
            /\ Goto(r, "validate") \/ (restores[session[r].id] = Absent /\ Goto(r, "put"))
        BY <2>6, <3>3, Zenon DEF ExamineForRestore
      <4>2. Materialized(Absent)
        BY DEF Materialized
      <4> QED
        BY <1>3, <3>1, <4>1, <4>2, RestoreMove, Zenon
    <3> QED
      BY <3>2, <3>3, Zenon
  <2>7. CASE ValidateRestoreTarget(r)
    <3>1. ~At(r, "idle") /\ ~session[r].ok
      BY <1>7, <2>7, Zenon DEF ValidateRestoreTarget, At
    <3>2. restores[session[r].id] # None
      BY <2>7, Zenon DEF ValidateRestoreTarget, At, IInv, SessionInv, Claims
    <3>3. CASE Finish(r, FALSE)
      BY <1>3, <3>1, <3>3, Moves, Zenon
    <3>4. CASE Goto(r, "put") /\ Materialized(restores[session[r].id])
      BY <1>3, <3>1, <3>2, <3>4, RestoreMove, Zenon
    <3> QED
      BY <2>7, <3>3, <3>4, ZenonT(60) DEF ValidateRestoreTarget
  <2>8. CASE RequestFails(r)
    <3>1. CASE session' = [session EXCEPT ![r] = Idle]
      BY <1>3, <3>1, Moves, Zenon
    <3>2. CASE session[r].pc \in Holding /\ Finish(r, FALSE)
      <4>1. ~At(r, "idle")
        BY <3>2, Zenon DEF Holding, At
      <4> QED
        BY <1>3, <3>2, <4>1, Moves, ZenonT(60)
    <3>3. CASE session[r].pc \in {"lock", "takeover", "unlock"} /\ session[r].ok /\ Goto(r, "committed")
      <4>1. At(r, "unlock")
        BY <1>7, <3>3 DEF At
      <4> QED
        BY <1>3, <3>3, <4>1, Moves, Zenon
    <3>4. CASE session[r].pc \in {"lock", "takeover", "unlock"} /\ ~session[r].ok /\ Leave(r)
      <4>1. ~At(r, "idle")
        BY <3>4, Zenon DEF At
      <4> QED
        BY <1>3, <3>4, <4>1, Moves, Zenon
    <3>5. CASE At(r, "page") /\ Finish(r, TRUE)
      <4>1. ~At(r, "idle") /\ Revision(r) \in lived
        BY <3>5, Zenon DEF At, IInv, SessionInv, Claims, Revision
      <4> QED
        BY <1>3, <3>5, <4>1, FinishLive, Zenon
    <3> QED
      BY <2>8, <3>1, <3>2, <3>3, <3>4, <3>5, Zenon DEF RequestFails
  <2>9. CASE Crash(r)
    BY <1>3, <2>9, Moves, ZenonT(60) DEF Crash
  <2> QED
    BY <2>1, <2>2, <2>3, <2>4, <2>5, <2>6, <2>7, <2>8, <2>9
<1> QED
  BY <1>1, <1>2, <1>6, <1>8, SteadyStep DEF StoreType

----------------------------------------------------------------------------
(* Steps that change the bucket *)

(* The bucket after a step that adds sound things to it.                   *)
LEMMA StoreStep ==
  ASSUME IInv, Grows,
         \A x \in lived' : x \in lived \/ (x \in Revisions /\ Sound(x)),
         \A w \in late' : w \in late \/ (w.to \in Roots /\ Sound(w.to)),
         root' = root \/ (root' \in Roots /\ Sound(root')),
         root' \in Revisions => root' \in lived',
         \A p \in Plans : plans'[p] = plans[p] \/ Seen(plans'[p].expected),
         \A s \in Stages : restores'[s] = restores[s] \/ Seen(restores'[s]),
         page' = page \/ \E x \in lived : page' = TreeOf(x)
  PROVE  StoreInv'
<1>0. StoreType /\ StoreInv
  BY DEF IInv, TypeInv
<1>1. ASSUME NEW x \in lived' PROVE Recorded(x)'
  <2>1. x \in Roots /\ Recorded(x)
    BY <1>0, Zenon DEF StoreType, StoreInv, Roots, Sound
  <2> QED
    BY <1>0, <2>1, RecordedStays
<1>2. ASSUME NEW w \in late' PROVE Sound(w.to)'
  <2>1. PICK x \in Roots : x = w.to /\ Sound(x)
    BY <1>0 DEF StoreType, StoreInv
  <2>2. Sound(x)'
    BY <1>0, <2>1, SoundStays
  <2> QED
    BY <2>1, <2>2
<1>7. Sound(root)'
  <2>1. PICK v \in Roots : v = root' /\ Sound(v)
    BY <1>0 DEF StoreType, StoreInv
  <2>2. Sound(v)'
    BY <1>0, <2>1, SoundStays, Zenon
  <2> QED
    BY <2>1, <2>2, Zenon DEF Sound, Recorded, Materialized, TreeOf, Bytes
<1>3. \A x : Seen(x) => (x \in Revisions => x \in lived')
  BY Zenon DEF Seen, Grows
<1>4. ASSUME NEW p \in Plans, plans'[p] # None PROVE plans'[p].expected \in Revisions => plans'[p].expected \in lived'
  BY <1>0, <1>3, <1>4, Zenon DEF StoreInv
<1>5. ASSUME NEW s \in Stages, restores'[s] # None PROVE restores'[s] \in Revisions => restores'[s] \in lived'
  BY <1>0, <1>3, <1>5 DEF StoreInv
<1>6. PageWasLive'
  <2>1. ASSUME NEW x \in lived PROVE x \in lived' /\ TreeOf(x)' = TreeOf(x)
    BY <1>0, Zenon DEF StoreType, StoreInv, Recorded, Revisions, TreeOf, Grows
  <2>2. page' # None => \E x \in lived : page' = TreeOf(x)
    BY <1>0 DEF StoreInv, PageWasLive
  <2> QED
    BY <2>1, <2>2 DEF PageWasLive
<1> QED
  BY <1>1, <1>2, <1>4, <1>5, <1>6, <1>7, Zenon DEF StoreInv, Seen

(* Steps of no runner.                                                     *)
LEMMA StoreSteps ==
  ASSUME IInv, LeaseExpires \/ \E p \in Plans, t \in Trees : MakePlan(p, t)
  PROVE  IInv'
<1>0. StoreType /\ StoreInv
  BY DEF IInv, TypeInv
<1>1. CASE LeaseExpires
  <2>1. Grows /\ UNCHANGED session
    BY <1>1 DEF LeaseExpires, Grows, release, undo, live
  <2>2. SessionType' /\ SessionInv'
    BY <2>1, SessionsStay
  <2>3. lease' = [lease EXCEPT !.expired = TRUE] /\ lease \in [owner : Owners, expired : BOOLEAN]
    BY <1>0, <1>1 DEF LeaseExpires, StoreType
  <2>4. lease' \in [owner : Owners, expired : BOOLEAN]
    BY <2>3, Zenon
  <2> QED
    BY <1>0, <1>1, <2>2, <2>4, SteadyStep DEF LeaseExpires, Steady, staging, StoreType
<1>2. ASSUME NEW p \in Plans, NEW t \in Trees, MakePlan(p, t) PROVE IInv'
  <2>1. Grows /\ UNCHANGED session
    BY <1>0, <1>2 DEF MakePlan, Grows, release, undo, live, StoreType
  <2>2. SessionType' /\ SessionInv'
    BY <2>1, SessionsStay
  <2>9. [tree |-> t, expected |-> root] \in PlanFiles
    BY <1>0, Zenon DEF PlanFiles, StoreType, Roots
  <2>3. PICK f \in PlanFiles : plans' = [plans EXCEPT ![p] = f] /\ f.expected = root
    BY <1>2, <2>9, ZenonT(60) DEF MakePlan
  <2>4. plans' \in [Plans -> PlanFiles \union {None}]
    BY <1>0, <2>3 DEF StoreType
  <2>5. StoreType'
    BY <1>0, <1>2, <2>4, Zenon DEF MakePlan, StoreType, staging, undo, live
  <2>6. \A q \in Plans : plans'[q] = plans[q] \/ Seen(plans'[q].expected)
    BY <1>0, <2>3, Zenon DEF StoreType, StoreInv
  <2>7. UNCHANGED <<root, lived, late, restores, page>>
    BY <1>2 DEF MakePlan, undo, live
  <2>8. StoreInv'
    BY <1>0, <2>1, <2>6, <2>7, StoreStep, Zenon DEF StoreInv, Seen
  <2> QED
    BY <2>2, <2>5, <2>8 DEF IInv, TypeInv
<1> QED
  BY <1>1, <1>2

(* Copies, descriptor and manifest.                                        *)
LEMMA MaterializeSteps ==
  ASSUME IInv, NEW r \in Runners,
         MaterializeRelease(r) \/ MaterializeManifest(r) \/ \E f \in Paths : MaterializeObject(r, f)
  PROVE  IInv'
<1>0. StoreType /\ StoreInv /\ SessionType
  BY DEF IInv, TypeInv
<1>1. Grows /\ UNCHANGED <<plans, stages, pointer, retained, restores, root, late, lived, lease, page>>
  BY DEF MaterializeRelease, MaterializeManifest, MaterializeObject, Grows, staging, undo, live
<1>2. StoreType' /\ StoreInv'
  <2>1. StoreType'
    BY <1>0, <1>1, Zenon DEF StoreType
  <2>2. StoreInv'
    BY <1>0, <1>1, StoreStep, Zenon DEF StoreInv, Seen
  <2> QED
    BY <2>1, <2>2
<1>3. PICK y \in Sessions : y = session[r]
  BY <1>0, Zenon DEF SessionType
<1>4. ~At(r, "idle") /\ y.ok = FALSE
  BY <1>3, Undecided, ZenonT(60) DEF MaterializeRelease, MaterializeManifest, MaterializeObject, At
<1>5. /\ y.op \in {"none", "commit", "compensate", "rollback"} /\ y.holder \in Owners \union {None}
      /\ y.copied \in SUBSET Paths /\ y.plan \in Plans /\ plans[y.plan] # None /\ y.id \in Stages
  BY <1>0, <1>3, <1>4, Active
<1>6. PICK t \in Trees : t = plans[y.plan].tree /\ Tree(r) = t
  BY <1>0, <1>3, <1>5 DEF StoreType, PlanFiles, Tree
<1>7. Claims(y.pc, y.plan, y.id, y.copied, y.ok)
  BY <1>3 DEF IInv, SessionInv
<1>8. {"copy", "manifest", "retain"} \subseteq Phases \ {"idle"}
  BY DEF Phases, Holding
<1>9. SessionType' /\ SessionInv'
  <2>1. ASSUME NEW f \in Paths, MaterializeObject(r, f) PROVE SessionType' /\ SessionInv'
    <3>1. /\ session' = [session EXCEPT ![r] = session'[r]]
          /\ session'[r] = [y EXCEPT !.copied = y.copied \union {f}] /\ y.pc = "copy"
      BY <1>0, <1>3, <2>1 DEF MaterializeObject, SessionType, At
    <3>2. session'[r] \in Only("copy", y.op, y.plan, y.id, y.copied \union {f}, y.holder, FALSE)
      BY <1>4, <3>1, Zenon DEF Only, Sessions
    <3>3. To(r, Only("copy", y.op, y.plan, y.id, y.copied \union {f}, y.holder, FALSE))
      BY <3>1, <3>2, ZenonT(60) DEF To
    <3>4. objects' = objects \union {publishedFileKey(t, f)} /\ plans' = plans
      BY <1>6, <2>1 DEF MaterializeObject
    <3>5. Claims("copy", y.plan, y.id, y.copied \union {f}, FALSE)'
      BY <1>6, <1>7, <3>4, Zenon DEF Claims
    <3>6. y.copied \union {f} \in SUBSET Paths
      BY <1>5, Zenon
    <3> QED
      BY <1>1, <1>5, <1>8, <3>3, <3>5, <3>6, SessionStep, Zenon
  <2>2. CASE MaterializeRelease(r)
    <3>1. /\ session' = [session EXCEPT ![r] = session'[r]]
          /\ session'[r] = [y EXCEPT !.pc = "manifest", !.copied = {}] /\ y.copied = FilesOf[t]
      BY <1>0, <1>3, <1>6, <2>2, Zenon DEF MaterializeRelease, SessionType
    <3>2. session'[r] \in Only("manifest", y.op, y.plan, y.id, {}, y.holder, FALSE)
      BY <1>4, <3>1, Zenon DEF Only, Sessions
    <3>3. To(r, Only("manifest", y.op, y.plan, y.id, {}, y.holder, FALSE))
      BY <3>1, <3>2, ZenonT(60) DEF To
    <3>4. releases' = releases \union {t} /\ objects' = objects /\ plans' = plans
      BY <1>6, <2>2 DEF MaterializeRelease
    <3>5. KeysOf(t) \subseteq objects
      BY <1>6, <1>7, <3>1 DEF Claims, KeysOf
    <3>6. Claims("manifest", y.plan, y.id, {}, FALSE)'
      BY <1>6, <3>4, <3>5, Zenon DEF Claims
    <3> QED
      BY <1>1, <1>5, <1>8, <3>3, <3>6, SessionStep, Zenon
  <2>3. CASE MaterializeManifest(r)
    <3>1. To(r, Only("retain", y.op, y.plan, y.id, y.copied, y.holder, FALSE))
      BY <1>0, <1>3, <1>4, <2>3, Forms, Zenon DEF MaterializeManifest
    <3>2. manifests' = manifests \union {y.plan} /\ UNCHANGED <<objects, releases, plans>> /\ y.pc = "manifest"
      BY <1>3, <2>3, Zenon DEF MaterializeManifest, At
    <3>3. Claims("retain", y.plan, y.id, y.copied, FALSE)'
      BY <1>7, <3>2, Zenon DEF Claims
    <3> QED
      BY <1>1, <1>5, <1>8, <3>1, <3>3, SessionStep, Zenon
  <2> QED
    BY <2>1, <2>2, <2>3
<1> QED
  BY <1>2, <1>9 DEF IInv, TypeInv

(* The restore state is written before the root, and is written once.      *)
LEMMA PrepareSteps ==
  ASSUME IInv, NEW r \in Runners, RetainRoot(r) \/ WriteRestore(r)
  PROVE  IInv'
<1>0. StoreType /\ StoreInv /\ SessionType
  BY DEF IInv, TypeInv
<1>1. UNCHANGED <<plans, stages, pointer, objects, releases, manifests, root, late, lived, lease, page>>
  BY ZenonT(60) DEF RetainRoot, WriteRestore, staging, release, live
<1>2. PICK y \in Sessions : y = session[r]
  BY <1>0, Zenon DEF SessionType
<1>3. ~At(r, "idle") /\ y.ok = FALSE /\ ~session[r].ok
  BY <1>2, Undecided, Zenon DEF RetainRoot, WriteRestore, At
<1>4. /\ y.op \in {"none", "commit", "compensate", "rollback"} /\ y.holder \in Owners \union {None}
      /\ y.copied \in SUBSET Paths /\ y.plan \in Plans /\ plans[y.plan] # None /\ y.id \in Stages
  BY <1>0, <1>2, <1>3, Active, Zenon
<1>5. PICK e \in Roots : e = plans[y.plan].expected /\ Expected(r) = e
  BY <1>0, <1>2, <1>4, ZenonT(60) DEF StoreType, PlanFiles, Expected, Roots
<1>6. Seen(e) /\ e # None
  BY <1>0, <1>4, <1>5 DEF StoreInv, Roots
<1>7. Claims(y.pc, y.plan, y.id, y.copied, y.ok)
  BY <1>2 DEF IInv, SessionInv
<1>8. {"restore", "root"} \subseteq Phases \ {"idle"}
  BY DEF Phases, Holding
<1>9. CASE RetainRoot(r)
  <2>1. restores' = restores /\ y.pc = "retain"
    BY <1>2, <1>9, Zenon DEF RetainRoot, At
  <2>2. \/ retained' = retained /\ (Finish(r, FALSE) \/ (e = Absent /\ Goto(r, "restore")))
        \/ /\ retained[y.id] \in {None, Bytes(e)} /\ retained' = [retained EXCEPT ![y.id] = Bytes(e)]
           /\ Goto(r, "restore")
    BY <1>2, <1>5, <1>9, Zenon DEF RetainRoot
  <2>3. DOMAIN retained' = Stages /\ \A s \in Stages : retained[s] # None => retained'[s] = retained[s]
    BY <1>0, <1>4, <2>2, Zenon DEF StoreType
  <2>4. Grows
    BY <1>1, <2>1, <2>3 DEF Grows
  <2>5. StoreType'
    BY <1>0, <1>1, <2>1, <2>3 DEF StoreType
  <2>6. StoreInv'
    BY <1>0, <1>1, <2>1, <2>4, StoreStep, Zenon DEF StoreInv, Seen
  <2>7. SessionType' /\ SessionInv'
    <3>1. CASE Finish(r, FALSE)
      BY <1>1, <1>3, <2>4, <3>1, Moves, Zenon
    <3>2. CASE Goto(r, "restore") /\ ~Finish(r, FALSE)
      <4>1. To(r, Only("restore", y.op, y.plan, y.id, y.copied, y.holder, FALSE))
        BY <1>0, <1>2, <1>3, <3>2, Forms, Zenon
      <4>2. e = Absent \/ retained'[y.id] = Bytes(e)
        BY <1>0, <1>4, <2>2, <3>2, Zenon DEF StoreType
      <4>3. Claims("restore", y.plan, y.id, y.copied, FALSE)'
        BY <1>1, <1>5, <1>7, <2>1, <4>2, Zenon DEF Claims, Bytes, TreeOf
      <4> QED
        BY <1>1, <1>4, <1>8, <2>4, <4>1, <4>3, SessionStep, Zenon
    <3> QED
      BY <2>2, <3>1, <3>2, Zenon
  <2> QED
    BY <2>5, <2>6, <2>7 DEF IInv, TypeInv
<1>10. CASE WriteRestore(r)
  <2>1. retained' = retained /\ y.pc = "restore"
    BY <1>2, <1>10, Zenon DEF WriteRestore, At
  <2>2. \/ restores' = restores /\ Finish(r, FALSE)
        \/ /\ restores[y.id] \in {None, e} /\ restores' = [restores EXCEPT ![y.id] = e]
           /\ Goto(r, "root")
    BY <1>2, <1>5, <1>10, Zenon DEF WriteRestore
  <2>3. /\ restores' \in [Stages -> Roots \union {None}]
        /\ \A s \in Stages : restores[s] # None => restores'[s] = restores[s]
        /\ \A s \in Stages : restores'[s] = restores[s] \/ restores'[s] = e
    <3>1. restores \in [Stages -> Roots \union {None}] /\ y.id \in Stages
      BY <1>0, <1>4 DEF StoreType
    <3>2. CASE restores' = restores
      BY <3>1, <3>2
    <3>3. CASE restores[y.id] \in {None, e} /\ restores' = [restores EXCEPT ![y.id] = e]
      BY <3>1, <3>3
    <3> QED
      BY <2>2, <3>2, <3>3, Zenon
  <2>4. Grows
    BY <1>1, <2>1, <2>3, Zenon DEF Grows
  <2>5. StoreType'
    BY <1>0, <1>1, <2>1, <2>3 DEF StoreType
  <2>6. StoreInv'
    <3>1. \A s \in Stages : restores'[s] = restores[s] \/ Seen(restores'[s])
      BY <1>6, <2>3
    <3> QED
      BY <1>0, <1>1, <2>4, <3>1, StoreStep, Zenon DEF StoreInv, Seen
  <2>7. SessionType' /\ SessionInv'
    <3>1. CASE Finish(r, FALSE)
      BY <1>1, <1>3, <2>4, <3>1, Moves, Zenon
    <3>2. CASE ~Finish(r, FALSE)
      <4>1. To(r, Only("root", y.op, y.plan, y.id, y.copied, y.holder, FALSE))
        BY <1>0, <1>2, <1>3, <2>2, <3>2, Forms, Zenon
      <4>2. restores'[y.id] = e
        BY <1>0, <1>4, <2>2, <3>2, Zenon DEF StoreType
      <4>3. Claims("root", y.plan, y.id, y.copied, FALSE)'
        BY <1>1, <1>5, <1>7, <2>1, <4>2, Zenon DEF Claims, Bytes, TreeOf
      <4> QED
        BY <1>1, <1>4, <1>8, <2>4, <4>1, <4>3, SessionStep, Zenon
    <3> QED
      BY <3>1, <3>2, Zenon
  <2> QED
    BY <2>5, <2>6, <2>7 DEF IInv, TypeInv
<1> QED
  BY <1>9, <1>10

(* A revision at the point of its PUT is whole.                            *)
LEMMA ReadySound ==
  ASSUME IInv, NEW r \in Runners, At(r, "root")
  PROVE  /\ Revision(r) \in Revisions /\ Sound(Revision(r))
         /\ Expected(r) \in Roots /\ Expected(r) = restores[session[r].id]
<1>1. PICK p \in Plans, s \in Stages : p = session[r].plan /\ s = session[r].id /\ plans[p] # None
  BY Active, Zenon DEF IInv, TypeInv, At
<1>7. Revision(r) \in Revisions /\ Revision(r).plan = p /\ Revision(r).id = s
  BY <1>1, Zenon DEF Revision, Revisions
<1>2. PICK x \in Revisions : x = Revision(r) /\ x.plan = p /\ x.id = s
  BY <1>7
<1>3. plans[p].expected \in Roots /\ plans[p].expected # None
  BY <1>1 DEF IInv, TypeInv, StoreType, PlanFiles, Roots
<1>4. /\ plans[p].tree \in releases /\ KeysOf(plans[p].tree) \subseteq objects /\ p \in manifests
      /\ restores[s] = plans[p].expected
      /\ plans[p].expected = Absent \/ retained[s] = Bytes(plans[p].expected)
  BY <1>1, Zenon DEF IInv, SessionInv, Claims, At
<1>5. Materialized(x)
  BY <1>2, <1>4, Zenon DEF Materialized, TreeOf
<1>6. Recorded(x)
  BY <1>1, <1>2, <1>3, <1>4, Zenon DEF Recorded
<1> QED
  BY <1>1, <1>2, <1>3, <1>4, <1>5, <1>6, Zenon DEF Sound, Expected

(* A conditional write of the root to a sound revision, to one that was    *)
(* live, or to no revision at all, or the record of such a write.          *)
Switch(to) ==
  \/ root' = to /\ lived' = lived \union ({to} \intersect Revisions)
  \/ UNCHANGED <<root, lived>>

(* After such a write the bucket holds sound roots only.                   *)
LEMMA SwitchStep ==
  ASSUME IInv, NEW to \in Roots, Sound(to), Switch(to),
         \A w \in late' : w \in late \/ (w \in [from : Roots, to : Roots] /\ Sound(w.to)),
         UNCHANGED <<plans, stages, pointer, objects, releases, manifests, retained, restores, page>>,
         lease' = lease
  PROVE  Grows /\ StoreType' /\ StoreInv'
<1>0. StoreType /\ StoreInv
  BY DEF IInv, TypeInv
<1>1. Grows
  BY DEF Grows, Switch
<1>2. StoreType'
  <2>1. root' \in Roots /\ lived' \subseteq Revisions
    BY <1>0 DEF StoreType, Switch
  <2>2. late' \subseteq [from : Roots, to : Roots]
    BY <1>0 DEF StoreType
  <2> QED
    BY <1>0, <2>1, <2>2, Zenon DEF StoreType
<1>3. \A x \in lived' : x \in lived \/ (x \in Revisions /\ Sound(x))
  BY DEF Switch
<1>4. \A w \in late' : w \in late \/ (w.to \in Roots /\ Sound(w.to))
  OBVIOUS
<1>5. root' \in Revisions => root' \in lived'
  BY <1>0 DEF Switch, StoreInv, Seen
<1>7. root' = root \/ (root' \in Roots /\ Sound(root'))
  BY Zenon DEF Switch
<1>6. StoreInv'
  BY <1>1, <1>3, <1>4, <1>5, <1>7, StoreStep
<1> QED
  BY <1>1, <1>2, <1>6

(* The root is switched, or will be.                                       *)
LEMMA RootSteps ==
  ASSUME IInv, NEW r \in Runners, PutRoot(r) \/ RootUnanswered(r)
  PROVE  IInv'
<1>1. At(r, "root") /\ UNCHANGED <<plans, stages, pointer, objects, releases, manifests, retained, restores, lease, page>>
  BY Zenon DEF PutRoot, RootUnanswered, staging, release, undo
<1>2. PICK v \in Revisions : v = Revision(r) /\ Sound(v)
  BY <1>1, ReadySound, Zenon
<1>3. PICK e \in Roots : e = Expected(r)
  BY <1>1, ReadySound, Zenon
<1>4. /\ \/ root' = v /\ lived' = lived \union ({v} \intersect Revisions) /\ Goto(r, "page")
         \/ Switch(v) /\ Goto(r, "post")
      /\ late' = late \/ late' = late \union {[from |-> e, to |-> v]}
  BY <1>2, <1>3, Zenon DEF PutRoot, RootUnanswered, Write, Unanswered, Switch, live
<1>5. v \in Roots /\ Switch(v)
  BY <1>4 DEF Roots, Switch
<1>6. \A w \in late' : w \in late \/ (w \in [from : Roots, to : Roots] /\ Sound(w.to))
  <2> DEFINE sent == [from |-> e, to |-> v]
  <2>1. sent \in [from : Roots, to : Roots] /\ sent.to = v
    BY <1>5
  <2> HIDE DEF sent
  <2>2. \A w \in late' : w \in late \/ w = sent
    BY <1>4 DEF sent
  <2> QED
    BY <1>2, <2>1, <2>2, Zenon
<1>7. Grows /\ StoreType' /\ StoreInv'
  BY <1>1, <1>2, <1>5, <1>6, SwitchStep
<1>8. ~At(r, "idle") /\ ~session[r].ok
  BY <1>1, Undecided, Zenon DEF At
<1>9. SessionType' /\ SessionInv'
  <2>1. CASE Goto(r, "post")
    BY <1>1, <1>7, <1>8, <2>1, Moves, Zenon DEF Modest
  <2>2. CASE ~Goto(r, "post")
    <3>1. PICK y \in Sessions : y = session[r] /\ y.ok = FALSE
      BY <1>8, Zenon DEF IInv, TypeInv, SessionType, Sessions
    <3>2. /\ y.op \in {"none", "commit", "compensate", "rollback"} /\ y.holder \in Owners \union {None}
          /\ y.copied \in SUBSET Paths /\ y.plan \in Plans /\ plans[y.plan] # None /\ y.id \in Stages
      BY <1>8, <3>1, Active, Zenon DEF IInv, TypeInv
    <3>3. To(r, Only("page", y.op, y.plan, y.id, y.copied, y.holder, FALSE))
      BY <1>4, <2>2, <3>1, Forms, Zenon DEF IInv, TypeInv
    <3>4. [plan |-> y.plan, id |-> y.id] \in lived'
      BY <1>2, <1>4, <2>2, <3>1 DEF Revision
    <3>5. Claims(y.pc, y.plan, y.id, y.copied, y.ok)
      BY <3>1 DEF IInv, SessionInv
    <3>6. Claims("page", y.plan, y.id, y.copied, FALSE)'
      BY <1>1, <3>4, <3>5, Zenon DEF Claims
    <3>7. "page" \in Phases
      BY DEF Phases
    <3> QED
      BY <1>1, <1>7, <3>2, <3>3, <3>6, <3>7, SessionStep, Zenon
  <2> QED
    BY <2>1, <2>2
<1> QED
  BY <1>7, <1>9 DEF IInv, TypeInv

(* The root is put back, or will be.                                       *)
LEMMA RestoreSteps ==
  ASSUME IInv, NEW r \in Runners, PutRestored(r) \/ RestoreUnanswered(r)
  PROVE  IInv'
<1>1. At(r, "put") /\ UNCHANGED <<plans, stages, pointer, objects, releases, manifests, retained, restores, lease, page>>
  BY Zenon DEF PutRestored, RestoreUnanswered, staging, release, undo
<1>2. PICK p \in Plans, s \in Stages : p = session[r].plan /\ s = session[r].id
  BY <1>1, Active DEF IInv, TypeInv, At
<1>0. restores[s] \in Roots \union {None} /\ restores[s] # None
  <2>1. restores[s] \in Roots \union {None}
    BY DEF IInv, TypeInv, StoreType
  <2>2. restores[s] # None
    BY <1>1, <1>2, Zenon DEF IInv, SessionInv, Claims, At
  <2> QED
    BY <2>1, <2>2
<1>3. PICK v \in Roots : v = restores[s] /\ v # None
  BY <1>0
<1>4. Sound(v)
  <2>1. CASE v \in Revisions
    <3>1. Recorded(v)
      BY <1>3, <2>1 DEF IInv, StoreInv, Seen
    <3>2. Materialized(v)
      BY <1>1, <1>2, <1>3, Zenon DEF IInv, SessionInv, Claims, At
    <3> QED
      BY <3>1, <3>2 DEF Sound
  <2>2. CASE v \notin Revisions
    BY <2>2, Zenon DEF Sound, Recorded, Materialized
  <2> QED
    BY <2>1, <2>2
<1>5. PICK e \in Roots : e = Revision(r)
  BY <1>2, ZenonT(60) DEF Revision, Revisions, Roots
<1>6. Switch(v) /\ (late' = late \/ late' = late \union {[from |-> e, to |-> v]}) /\ Finish(r, FALSE)
  BY <1>2, <1>3, <1>5, Zenon DEF PutRestored, RestoreUnanswered, Write, Unanswered, Switch, live
<1>7. \A w \in late' : w \in late \/ (w \in [from : Roots, to : Roots] /\ Sound(w.to))
  <2> DEFINE x == [from |-> e, to |-> v]
  <2>1. x \in [from : Roots, to : Roots] /\ x.to = v
    OBVIOUS
  <2> HIDE DEF x
  <2>2. late' = late \/ late' = late \union {x}
    BY <1>6, Zenon DEF x
  <2> QED
    BY <1>4, <2>1, <2>2, Zenon
<1>8. Grows /\ StoreType' /\ StoreInv'
  BY <1>1, <1>4, <1>6, <1>7, SwitchStep, Zenon
<1>9. ~At(r, "idle")
  BY <1>1, Zenon DEF At
<1>10. SessionType' /\ SessionInv'
  BY <1>1, <1>6, <1>8, <1>9, Moves, ZenonT(60)
<1> QED
  BY <1>8, <1>10 DEF IInv, TypeInv

(* A write that was never answered, and the page.                          *)
LEMMA LateSteps ==
  ASSUME IInv, LateWrite \/ \E r \in Runners : RefreshBrowsablePage(r)
  PROVE  IInv'
<1>0. StoreType /\ StoreInv
  BY DEF IInv, TypeInv
<1>1. CASE LateWrite
  <2>1. PICK w \in late : /\ late' = late \ {w} /\ Switch(w.to)
                          /\ UNCHANGED <<plans, staging, release, undo, lease, page, session>>
    BY <1>1 DEF LateWrite, Write, Switch
  <2>2. w.to \in Roots /\ Sound(w.to)
    BY <1>0, Zenon DEF StoreType, StoreInv
  <2>3. \A x \in late' : x \in late
    BY <2>1
  <2>4. UNCHANGED <<plans, stages, pointer, objects, releases, manifests, retained, restores, page>> /\ lease' = lease
    BY <2>1 DEF staging, release, undo
  <2>5. Grows /\ StoreType' /\ StoreInv'
    BY <2>1, <2>2, <2>3, <2>4, SwitchStep
  <2>6. SessionType' /\ SessionInv'
    BY <2>1, <2>5, SessionsStay
  <2> QED
    BY <2>5, <2>6 DEF IInv, TypeInv
<1>2. ASSUME NEW r \in Runners, RefreshBrowsablePage(r) PROVE IInv'
  <2>1. UNCHANGED <<plans, stages, pointer, objects, releases, manifests, retained, restores, root, late, lived, lease>>
    BY <1>2 DEF RefreshBrowsablePage, staging, release, undo, live
  <2>2. ~At(r, "idle") /\ Revision(r) \in lived
    BY <1>2, Zenon DEF RefreshBrowsablePage, At, IInv, SessionInv, Claims, Revision
  <2>3. page' = TreeOf(Revision(r))
    BY <1>2 DEF RefreshBrowsablePage, Tree, TreeOf, Revision
  <2>4. Grows
    BY <2>1 DEF Grows
  <2>5. StoreType'
    BY <1>0, <2>1 DEF StoreType
  <2>6. StoreInv'
    BY <1>0, <2>1, <2>2, <2>3, <2>4, StoreStep, Zenon DEF StoreInv, Seen
  <2>7. SessionType' /\ SessionInv'
    BY <1>2, <2>1, <2>2, <2>4, FinishLive, ZenonT(60) DEF RefreshBrowsablePage
  <2> QED
    BY <2>5, <2>6, <2>7 DEF IInv, TypeInv
<1> QED
  BY <1>1, <1>2

----------------------------------------------------------------------------
(* The invariant and what it implies *)

(* An empty bucket and idle runners.                                       *)
LEMMA InitIInv == Init => IInv
<1> SUFFICES ASSUME Init PROVE IInv
  OBVIOUS
<1>1. StoreType /\ StoreInv
  BY DEF Init, StoreType, StoreInv, Roots, Seen, PageWasLive, Revisions, Sound, Recorded, Materialized
<1>2. Idle \in Sessions /\ Idle.pc = "idle" /\ Idle.copied = {} /\ Idle.ok = FALSE
  BY Zenon DEF Idle, Sessions, Phases
<1>3. session = [r \in Runners |-> Idle]
  BY DEF Init
<1>4. SessionType
  BY <1>2, <1>3 DEF SessionType, At
<1>5. SessionInv
  BY <1>2, <1>3, Zenon DEF SessionInv, Claims
<1> QED
  BY <1>1, <1>4, <1>5 DEF IInv, TypeInv

(* Every step of a runner, of the store and of the clock, and every fault. *)
LEMMA NextIInv == IInv /\ [Next]_vars => IInv'
<1> SUFFICES ASSUME IInv, [Next]_vars PROVE IInv'
  OBVIOUS
<1>1. CASE UNCHANGED vars
  <2>1. Steady /\ UNCHANGED <<stages, pointer, lease, session>>
    BY <1>1 DEF vars, Steady, staging
  <2>2. SessionType' /\ SessionInv'
    BY <2>1, SteadyGrows, SessionsStay
  <2> QED
    BY <2>1, <2>2, SteadyStep, Zenon DEF IInv, TypeInv, StoreType
<1>2. ASSUME NEW r \in Runners, Step(r) PROVE IInv'
  BY <1>2, StagingSteps, LeaseSteps, SteadySteps, MaterializeSteps, PrepareSteps, RootSteps, RestoreSteps,
     LateSteps DEF Step
<1>3. CASE Fault
  BY <1>3, StoreSteps, StagingSteps, LeaseSteps, SteadySteps, RootSteps, RestoreSteps DEF Fault
<1>4. CASE Progress
  BY <1>2, <1>4, StoreSteps, LateSteps DEF Progress
<1> QED
  BY <1>1, <1>3, <1>4 DEF Next

(* The invariant holds of every state of the bucket and its runners.       *)
THEOREM Invariance == Spec => []IInv
BY InitIInv, NextIInv, PTL DEF Spec

LEMMA LiveWhole ==
  ASSUME IInv
  PROVE  LiveIntact
<1>1. Sound(root)
  BY DEF IInv, StoreInv
<1> QED
  BY <1>1, Zenon DEF LiveIntact, Intact, Sound, Recorded

(* The live revision is always whole, for any number of runners, plans,    *)
(* stages and failures, and whether or not the format rebinds its root.    *)
THEOREM LiveAlwaysIntact == Spec => []LiveIntact
BY LiveWhole, Invariance, PTL

(* A commit that reports success did make its revision live.               *)
THEOREM SuccessWasAlwaysLive == Spec => []SuccessWasLive
<1>1. IInv => SuccessWasLive
  BY Zenon DEF IInv, SessionInv, Claims, SuccessWasLive, At, Revision
<1> QED
  BY <1>1, Invariance, PTL

(* The page never advertises a revision that did not become live.          *)
THEOREM PageWasAlwaysLive == Spec => []PageWasLive
<1>1. IInv => PageWasLive
  BY DEF IInv, StoreInv
<1> QED
  BY <1>1, Invariance, PTL

----------------------------------------------------------------------------
(* Effect pointers *)

(* A runner ends up with no upload of its own to announce.                 *)
Settled(r) == (\A q \in Runners \ {r} : session'[q] = session[q]) /\ session'[r].pc \notin Uploading

(* The shared moves settle, and the move to the next upload phase does not *)
(* change who uploads what.                                                *)
LEMMA SettlingMoves ==
  ASSUME SessionType, NEW r \in Runners
  PROVE  /\ \A x \in Phases \ Uploading : Goto(r, x) => Settled(r)
         /\ \A b : Finish(r, b) => Settled(r)
         /\ session' = [session EXCEPT ![r] = Idle] => Settled(r)
         /\ Leave(r) => Settled(r)
         /\ \A p, s : Begin(r, p, s, "lock") => Settled(r)
<1>1. /\ "unlock" \notin Uploading /\ "idle" \notin Uploading /\ "abort" \notin Uploading
      /\ "lock" \notin Uploading
  BY DEF Uploading
<1>2. \A pc, op, plan, id, copied, holder, ok :
        To(r, Only(pc, op, plan, id, copied, holder, ok)) /\ pc \notin Uploading => Settled(r)
  BY ToFields DEF Settled
<1>3. ASSUME NEW x \in Phases \ Uploading, Goto(r, x) PROVE Settled(r)
  <2>1. To(r, Only(x, session[r].op, session[r].plan, session[r].id, session[r].copied, session[r].holder,
                   session[r].ok))
    BY <1>3, Forms, Zenon
  <2> QED
    BY <1>2, <2>1
<1>4. ASSUME NEW b, Finish(r, b) PROVE Settled(r)
  <2>1. To(r, Only("unlock", session[r].op, session[r].plan, session[r].id, session[r].copied, session[r].holder, b))
    BY <1>4, Forms, Zenon
  <2> QED
    BY <1>1, <1>2, <2>1
<1>5. To(r, Only("idle", "none", None, None, {}, None, FALSE)) => Settled(r)
  BY <1>1, <1>2, Zenon
<1>6. session' = [session EXCEPT ![r] = Idle] => Settled(r)
  <2>1. session' = [session EXCEPT ![r] = Idle] => To(r, Only("idle", "none", None, None, {}, None, FALSE))
    BY Forms, Zenon
  <2> QED
    BY <1>5, <2>1, Zenon
<1>7. ASSUME Leave(r) PROVE Settled(r)
  <2>1. \/ To(r, Only("idle", "none", None, None, {}, None, FALSE))
        \/ To(r, Only("abort", "commit", session[r].plan, session[r].id, session[r].copied, None, session[r].ok))
    BY <1>7, Forms, Zenon
  <2> QED
    BY <1>1, <1>2, <1>5, <2>1, Zenon
<1>8. ASSUME NEW p, NEW s, Begin(r, p, s, "lock") PROVE Settled(r)
  <2>1. To(r, Only("lock", "commit", p, s, {}, None, FALSE))
    BY <1>8, Forms, Zenon
  <2> QED
    BY <1>1, <1>2, <2>1, Zenon
<1> QED
  BY <1>3, <1>4, <1>6, <1>7, <1>8

(* The steps that leave the staging area alone.                            *)
LEMMA SettlingSteps ==
  ASSUME SessionType, NEW r \in Runners,
         \/ \E p \in Plans : StageReuse(r, p)
         \/ AcquireCommitLock(r) \/ TakeOverLease(r) \/ Unlock(r) \/ LeaseUnanswered(r)
         \/ ObserveForCommit(r) \/ MaterializeRelease(r) \/ MaterializeManifest(r)
         \/ \E f \in Paths : MaterializeObject(r, f)
         \/ RetainRoot(r) \/ WriteRestore(r) \/ PutRoot(r) \/ RootUnanswered(r) \/ CommitPostcondition(r)
         \/ RefreshBrowsablePage(r) \/ Accept(r) \/ Compensate(r) \/ RollbackRepository(r)
         \/ ExamineForRestore(r) \/ ValidateRestoreTarget(r) \/ PutRestored(r) \/ RestoreUnanswered(r)
         \/ (RequestFails(r) /\ session[r].pc \notin {"point", "adopt"}) \/ Crash(r)
  PROVE  Settled(r) /\ UNCHANGED <<stages, pointer>>
<1>1. UNCHANGED <<stages, pointer>>
  BY Zenon DEF StageReuse, AcquireCommitLock, TakeOverLease, Unlock, LeaseUnanswered, ObserveForCommit,
         MaterializeRelease, MaterializeManifest, MaterializeObject, RetainRoot, WriteRestore, PutRoot,
         RootUnanswered, CommitPostcondition, RefreshBrowsablePage, Accept, Compensate, RollbackRepository,
         ExamineForRestore, ValidateRestoreTarget, PutRestored, RestoreUnanswered, RequestFails, Crash, staging
<1>2. {"copy", "manifest", "retain", "restore", "root", "post", "page", "observe", "examine", "validate", "put",
       "committed"} \subseteq Phases \ Uploading
  BY Zenon DEF Phases, Uploading, Holding
<1>3. CASE \/ \E p \in Plans : StageReuse(r, p)
           \/ AcquireCommitLock(r) \/ Unlock(r) \/ LeaseUnanswered(r) \/ TakeOverLease(r)
  <2>1. CASE AcquireCommitLock(r) /\ ~Leave(r) /\ ~Goto(r, FirstHeld(r))
    BY <1>1, <2>1 DEF AcquireCommitLock, Settled, SessionType, Sessions, Uploading
  <2>2. CASE TakeOverLease(r) /\ ~Leave(r)
    BY <1>1, <2>2 DEF TakeOverLease, FirstHeld, Settled, SessionType, Sessions, Uploading
  <2>3. FirstHeld(r) \in Phases \ Uploading
    BY <1>2, Zenon DEF FirstHeld
  <2> QED
    BY <1>1, <1>2, <1>3, <2>1, <2>2, <2>3, SettlingMoves, Zenon
    DEF StageReuse, AcquireCommitLock, Unlock, LeaseUnanswered, TakeOverLease
<1>4. CASE \/ ObserveForCommit(r) \/ CommitPostcondition(r) \/ ExamineForRestore(r) \/ ValidateRestoreTarget(r)
           \/ PutRestored(r) \/ RestoreUnanswered(r) \/ Crash(r) \/ RefreshBrowsablePage(r)
  BY <1>1, <1>2, <1>4, SettlingMoves, Zenon
  DEF ObserveForCommit, CommitPostcondition, ExamineForRestore, ValidateRestoreTarget, PutRestored,
      RestoreUnanswered, Crash, RefreshBrowsablePage
<1>5. CASE RequestFails(r) /\ session[r].pc \notin {"point", "adopt"}
  BY <1>1, <1>2, <1>5, SettlingMoves, Zenon DEF RequestFails
<1>6. CASE RetainRoot(r) \/ WriteRestore(r) \/ PutRoot(r) \/ RootUnanswered(r) \/ MaterializeManifest(r)
  BY <1>1, <1>2, <1>6, SettlingMoves, Zenon DEF RetainRoot, WriteRestore, PutRoot, RootUnanswered, MaterializeManifest
<1>7. CASE MaterializeRelease(r) \/ \E f \in Paths : MaterializeObject(r, f)
  BY <1>1, <1>7 DEF MaterializeRelease, MaterializeObject, Settled, SessionType, Sessions, Uploading, At
<1>8. CASE Accept(r) \/ Compensate(r)
  BY <1>1, <1>8 DEF Accept, Compensate, Settled, SessionType, Sessions, Uploading
<1>9. CASE RollbackRepository(r)
  BY <1>1, <1>9 DEF RollbackRepository, Idle, Settled, SessionType, Sessions, Uploading
<1> QED
  BY <1>3, <1>4, <1>5, <1>6, <1>7, <1>8, <1>9, Zenon

(* A runner that does not move keeps its upload as long as its stage and   *)
(* the pointers to it stay.                                                *)
LEMMA OwnUploadStays ==
  ASSUME NEW q \in Runners, session'[q] = session[q], OwnUpload(q),
         session[q].pc = "point" => stages'[session[q].id] = stages[session[q].id],
         session[q].pc \in Uploading => \A p \in Plans : pointer'[p] = pointer[p] \/ pointer'[p] # session[q].id
  PROVE  OwnUpload(q)'
<1>1. At(q, "point") => (stages[session[q].id] = session[q].plan)'
  BY Zenon DEF OwnUpload, At
<1>2. At(q, "point") \/ At(q, "adopt") => \A p \in Plans : pointer'[p] # session'[q].id
  BY Zenon DEF OwnUpload, At, Uploading
<1>3. At(q, "reconcile") => \A p \in Plans \ {session'[q].plan} : pointer'[p] # session'[q].id
  BY Zenon DEF OwnUpload, At, Uploading
<1> QED
  BY <1>1, <1>2, <1>3, Zenon DEF OwnUpload, At

(* Uploads stay distinct when the one runner that moves uploads to a stage *)
(* that nobody else does.                                                  *)
LEMMA UploadsStayDistinct ==
  ASSUME NEW r \in Runners, DistinctUploads, \A q \in Runners \ {r} : session'[q] = session[q],
         session'[r].pc \in Uploading =>
           \A q \in Runners \ {r} : session[q].pc \in Uploading => session[q].id # session'[r].id
  PROVE  DistinctUploads'
<1> SUFFICES ASSUME NEW a \in Runners, NEW b \in Runners, a # b,
                    session'[a].pc \in Uploading, session'[b].pc \in Uploading
             PROVE  session'[a].id # session'[b].id
  BY Zenon DEF DistinctUploads, Uploading
<1>1. CASE a = r
  BY <1>1, Zenon
<1>2. CASE b = r
  BY <1>2, Zenon
<1>3. CASE a # r /\ b # r
  BY <1>3, Zenon DEF DistinctUploads
<1> QED
  BY <1>1, <1>2, <1>3, Zenon

(* Stage keeps the pointers true as long as the client does not resend.    *)
LEMMA NextPointers ==
  ASSUME ~Resends, TypeInv, PointerInv, [Next]_vars
  PROVE  PointerInv'
<1>0. StoreType /\ SessionType
  BY DEF TypeInv
<1>1. CASE UNCHANGED <<stages, pointer, session>>
  BY <1>1, Zenon DEF PointerInv, PointerResolves, OwnUpload, DistinctUploads, At, Uploading
<1>2. ASSUME NEW r \in Runners, Settled(r) PROVE OwnUpload(r)' /\ DistinctUploads'
  <2>1. OwnUpload(r)'
    BY <1>2, Zenon DEF Settled, OwnUpload, At, Uploading
  <2>2. DistinctUploads'
    BY <1>2, UploadsStayDistinct, Zenon DEF Settled, PointerInv
  <2> QED
    BY <2>1, <2>2
<1>3. ASSUME NEW r \in Runners, Settled(r), UNCHANGED <<stages, pointer>> PROVE PointerInv'
  <2>1. \A q \in Runners \ {r} : OwnUpload(q)'
    BY <1>3, OwnUploadStays, Zenon DEF Settled, PointerInv
  <2>2. PointerResolves'
    BY <1>3, Zenon DEF PointerInv, PointerResolves
  <2> QED
    BY <1>3, <1>2, <2>1, <2>2, Zenon DEF PointerInv
<1>4. ASSUME NEW r \in Runners, ~At(r, "idle") PROVE session[r].plan \in Plans /\ session[r].id \in Stages
  BY <1>0, <1>4, Active
<1>5. ASSUME NEW r \in Runners, NEW p \in Plans, NEW s \in Stages, StageUpload(r, p, s) PROVE PointerInv'
  <2>1. To(r, Only("point", "commit", p, s, {}, None, FALSE))
    BY <1>0, <1>5, Forms, Zenon DEF StageUpload
  <2>2. /\ session'[r].pc = "point" /\ session'[r].plan = p /\ session'[r].id = s
        /\ \A q \in Runners \ {r} : session'[q] = session[q]
    BY <1>0, <2>1 DEF To, Only, SessionType
  <2>3. /\ stages' = [stages EXCEPT ![s] = p] /\ pointer' = pointer
        /\ \A q \in Runners : session[q].id # s
        /\ \A x \in Plans : pointer[x] # s
    BY <1>5, Zenon DEF StageUpload, Fresh
  <2>4. PointerResolves'
    BY <1>0, <2>3, Zenon DEF StoreType, PointerInv, PointerResolves
  <2>5. stages'[s] = p /\ \A q \in Runners : session[q].id \in Stages => stages'[session[q].id] = stages[session[q].id]
    BY <1>0, <2>3, Zenon DEF StoreType
  <2>6. OwnUpload(r)'
    BY <2>2, <2>3, <2>5, Zenon DEF OwnUpload, At
  <2>7. ASSUME NEW q \in Runners \ {r} PROVE OwnUpload(q)'
    <3>1. session[q].pc = "point" => session[q].id \in Stages
      BY <1>4, Zenon DEF At
    <3> QED
      BY <2>2, <2>3, <2>5, <3>1, OwnUploadStays, Zenon DEF PointerInv
  <2>8. DistinctUploads'
    BY <2>2, <2>3, UploadsStayDistinct, Zenon DEF PointerInv
  <2> QED
    BY <2>4, <2>6, <2>7, <2>8, Zenon DEF PointerInv
<1>6. ASSUME NEW r \in Runners, PublishPointer(r) \/ PointerUnanswered(r) PROVE PointerInv'
  <2>1. PICK p \in Plans, s \in Stages : p = session[r].plan /\ s = session[r].id
    BY <1>4, <1>6, Zenon DEF PublishPointer, PointerUnanswered, At
  <2>2. PICK x \in {"lock", "adopt", "reconcile"} :
          /\ Goto(r, x)
          /\ \/ pointer' = pointer /\ x # "lock"
             \/ pointer' = [pointer EXCEPT ![p] = s] /\ x # "adopt"
    BY <1>6, <2>1, Zenon DEF PublishPointer, PointerUnanswered
  <2>3. At(r, "point") /\ stages' = stages
    BY <1>6 DEF PublishPointer, PointerUnanswered
  <2>4. /\ session'[r].pc = x /\ session'[r].plan = p /\ session'[r].id = s
        /\ \A q \in Runners \ {r} : session'[q] = session[q]
    <3>1. To(r, Only(x, session[r].op, p, s, session[r].copied, session[r].holder, session[r].ok))
      BY <1>0, <2>1, <2>2, Forms, Zenon
    <3> QED
      BY <1>0, <3>1 DEF To, Only, SessionType
  <2>5. /\ stages[s] = p /\ \A y \in Plans : pointer[y] # s
        /\ \A q \in Runners \ {r} : session[q].pc \in Uploading => session[q].id # s
    BY <2>1, <2>3, Zenon DEF PointerInv, OwnUpload, DistinctUploads, At, Uploading
  <2>6. \A y \in Plans : pointer'[y] = pointer[y] \/ (y = p /\ pointer'[y] = s /\ x # "adopt")
    BY <1>0, <2>2 DEF StoreType
  <2>7. PointerResolves'
    BY <2>3, <2>5, <2>6, Zenon DEF PointerInv, PointerResolves
  <2>8. OwnUpload(r)'
    BY <2>3, <2>4, <2>5, <2>6, Zenon DEF OwnUpload, At
  <2>9. ASSUME NEW q \in Runners \ {r} PROVE OwnUpload(q)'
    BY <2>3, <2>4, <2>5, <2>6, OwnUploadStays, Zenon DEF PointerInv
  <2>10. DistinctUploads'
    BY <2>4, <2>5, UploadsStayDistinct, Zenon DEF PointerInv
  <2> QED
    BY <2>7, <2>8, <2>9, <2>10, Zenon DEF PointerInv
<1>7. ASSUME NEW r \in Runners, NEW s \in Stages, s = session[r].id, Settled(r), session[r].pc \in Uploading,
             pointer' = pointer, stages' = [stages EXCEPT ![s] = None], \A p \in Plans : pointer[p] # s
      PROVE  PointerInv'
  <2>1. \A q \in Runners \ {r} : session[q].pc \in Uploading => session[q].id # s
    BY <1>7, Zenon DEF PointerInv, DistinctUploads
  <2>2. PointerResolves'
    BY <1>0, <1>7, Zenon DEF StoreType, PointerInv, PointerResolves
  <2>3. ASSUME NEW q \in Runners \ {r} PROVE OwnUpload(q)'
    <3>1. session[q].pc = "point" => session[q].id \in Stages /\ session[q].id # s
      BY <1>4, <2>1 DEF At, Uploading
    <3>2. session[q].pc = "point" => stages'[session[q].id] = stages[session[q].id]
      BY <1>0, <1>7, <3>1, Zenon DEF StoreType
    <3> QED
      BY <1>7, <3>2, OwnUploadStays, Zenon DEF Settled, PointerInv
  <2> QED
    BY <1>7, <1>2, <2>2, <2>3, Zenon DEF PointerInv
<1>8. ASSUME NEW r \in Runners, ReconcilePointer(r) PROVE PointerInv'
  <2>1. session[r].plan \in Plans /\ session[r].id \in Stages /\ session[r].pc \in Uploading
    BY <1>4, <1>8 DEF ReconcilePointer, At, Uploading
  <2>2. CASE pointer[session[r].plan] = session[r].id
    <3>1. "lock" \in Phases \ Uploading
      BY DEF Phases, Uploading
    <3> QED
      BY <1>0, <1>3, <1>8, <2>2, <3>1, SettlingMoves, Zenon DEF ReconcilePointer
  <2>3. CASE pointer[session[r].plan] # session[r].id
    <3>1. \A p \in Plans : pointer[p] # session[r].id
      BY <1>8, <2>3, Zenon DEF ReconcilePointer, PointerInv, OwnUpload
    <3> QED
      BY <1>0, <1>7, <1>8, <2>1, <2>3, <3>1, SettlingMoves, Zenon DEF ReconcilePointer
  <2> QED
    BY <2>2, <2>3
<1>9. ASSUME NEW r \in Runners, AdoptPointer(r) \/ (RequestFails(r) /\ session[r].pc \in {"point", "adopt"})
      PROVE  PointerInv'
  <2>1. session[r].id \in Stages /\ session[r].pc \in {"point", "adopt"}
    BY <1>4, <1>9 DEF AdoptPointer, At
  <2>2. \A p \in Plans : pointer[p] # session[r].id
    BY <2>1, Zenon DEF PointerInv, OwnUpload, At
  <2>3. stages' = [stages EXCEPT ![session[r].id] = None] /\ pointer' = pointer
    BY <1>9, <2>1, ZenonT(60) DEF AdoptPointer, RequestFails, Holding, At
  <2>4. CASE session' = [session EXCEPT ![r] = Idle]
    BY <1>0, <1>7, <2>1, <2>2, <2>3, <2>4, SettlingMoves, Zenon DEF Uploading
  <2>5. CASE session' # [session EXCEPT ![r] = Idle]
    <3>1. AdoptPointer(r)
      BY <1>9, <2>1, <2>5, Zenon DEF RequestFails, Holding, At
    <3>2. /\ \A q \in Runners \ {r} : session'[q] = session[q]
          /\ session'[r] = [session[r] EXCEPT !.pc = "lock", !.id = pointer[session[r].plan]]
      BY <1>0, <2>5, <3>1, Zenon DEF AdoptPointer, SessionType
    <3>3. Settled(r)
      BY <1>0, <3>2 DEF Settled, SessionType, Sessions, Uploading
    <3> QED
      BY <1>7, <2>1, <2>2, <2>3, <3>3, Zenon DEF Uploading
  <2> QED
    BY <2>4, <2>5
<1>10. ASSUME NEW r \in Runners, Abort(r) PROVE PointerInv'
  <2>1. Settled(r) /\ stages' = stages
    BY <1>0, <1>10, SettlingMoves, Zenon DEF Abort
  <2>2. \A p \in Plans : pointer'[p] \in {pointer[p], None}
    BY <1>0, <1>10, Zenon DEF Abort, StoreType
  <2>3. \A q \in Runners : session[q].pc \in Uploading => session[q].id \in Stages /\ session[q].id # None
    BY <1>4 DEF Uploading, At
  <2>4. PointerResolves'
    BY <2>1, <2>2, Zenon DEF PointerInv, PointerResolves
  <2>5. ASSUME NEW q \in Runners \ {r} PROVE OwnUpload(q)'
    BY <2>1, <2>2, <2>3, OwnUploadStays, Zenon DEF Settled, PointerInv
  <2> QED
    BY <1>2, <2>1, <2>4, <2>5, Zenon DEF PointerInv
<1>11. ASSUME NEW r \in Runners, Step(r) PROVE PointerInv'
  BY <1>0, <1>3, <1>5, <1>6, <1>8, <1>9, <1>10, <1>11, SettlingSteps, Zenon DEF Step
<1>12. CASE Fault
  BY <1>0, <1>1, <1>3, <1>6, <1>9, <1>12, SettlingSteps DEF Fault, LeaseExpires, staging
<1>13. CASE Progress
  BY <1>1, <1>11, <1>13 DEF Progress, MakePlan, LateWrite, staging
<1> QED
  BY <1>1, <1>12, <1>13 DEF Next, vars, staging

(* As long as the store client does not resend a PUT, an effect pointer    *)
(* always names a stage that holds the files of its plan, for any number   *)
(* of runners and failures.                                                *)
THEOREM PointersResolve == ~Resends /\ Spec => []PointerResolves
<1>1. Init => PointerInv
  BY SMTT(60) DEF Init, PointerInv, OwnUpload, DistinctUploads, PointerResolves, Idle, At, Uploading
<1>2. ~Resends /\ Spec => []PointerInv
  <2>1. SUFFICES ASSUME ~Resends PROVE Spec => []PointerInv
    OBVIOUS
  <2>2. TypeInv /\ PointerInv /\ [Next]_vars => PointerInv'
    BY <2>1, NextPointers
  <2>3. IInv => TypeInv
    BY DEF IInv
  <2> QED
    BY <1>1, <2>2, <2>3, Invariance, PTL DEF Spec
<1>3. PointerInv => PointerResolves
  BY DEF PointerInv
<1> QED
  BY <1>2, <1>3, PTL

============================================================================

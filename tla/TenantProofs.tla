---------------------------- MODULE TenantProofs ----------------------------
(***************************************************************************)
(* Proofs about the way of a tenant (Tenant): what the invocations of      *)
(* clusterkubevirtadm promise, however many administrators run it at once, *)
(* which secrets CAPK may read, and what a template announces.             *)
(*                                                                         *)
(* An invocation that takes a step disturbs the others only by adding to   *)
(* the tenant's objects (Grows), and only if it is not alone.  So every    *)
(* step splits into what it does to the invocation itself (one lemma per   *)
(* action) and what it does to the others (OthersKept).                    *)
(***************************************************************************)
EXTENDS Tenant, MachineTemplateProofs, VirtualMachineProofs, TLAPS

CLITypes ==
    /\ tenant \in Tenant
    /\ cli \in [Admins -> Invocation]
    /\ alone \in [Admins -> BOOLEAN]
    /\ created \in Nat

IInv == CLITypes /\ CLIInv

\* The tenant's objects only become more, and a current Role stays current.
Grows ==
    /\ tenant.namespace => tenant'.namespace
    /\ tenant.serviceAccount => tenant'.serviceAccount
    /\ tenant.roleBinding => tenant'.roleBinding
    /\ tenant.role = "current" => tenant'.role = "current"

-----------------------------------------------------------------------------
(* One step of one invocation.                                              *)

\* A step of p leaves what the others rely on.
LEMMA OthersKept ==
    ASSUME IInv, CLITypes', NEW p \in Admins, NEW q \in Admins \ {p}, ~Finished(p),
           cli'[q] = cli[q], alone'[q] = alone[q], Grows
    PROVE  Ensured(q)' /\ Undisturbed(q)'
<1>1. Ensured(q) /\ Undisturbed(q)
  BY DEF IInv, CLIInv
<1>2. Ensured(q)'
  BY <1>1 DEF Ensured, Granted, Grows
<1>3. alone[q] => Finished(q)
  BY <1>1 DEF Undisturbed
<1>4. Undisturbed(q)'
  BY <1>1, <1>3 DEF Undisturbed, Finished, Creating, AfterNamespace, AfterAccount, AfterRole
<1>. QED  BY <1>2, <1>4

\* What a step of p has to establish, once it is known to leave the others.
LEMMA StepOfOne ==
    ASSUME IInv, NEW p \in Admins, ~Finished(p), NEW c \in Invocation,
           cli' = [cli EXCEPT ![p] = c], alone' = alone, tenant' \in Tenant, Grows,
           created' \in Nat, OneCreator', Ensured(p)', Undisturbed(p)'
    PROVE  IInv'
<1>1. CLITypes'
  BY DEF IInv, CLITypes
<1>2. ASSUME NEW q \in Admins  PROVE Ensured(q)' /\ Undisturbed(q)'
  <2>1. CASE q = p  BY <2>1
  <2>2. CASE q # p
    <3>1. cli'[q] = cli[q] /\ alone'[q] = alone[q]
      BY <2>2 DEF IInv, CLITypes
    <3>. QED  BY <2>2, <3>1, <1>1, OthersKept
  <2>. QED  BY <2>1, <2>2
<1>. QED  BY <1>1, <1>2 DEF IInv, CLIInv

\* The calls of create and apply are spread over the sets of the invariant.
LEMMA CallSets ==
    /\ AfterRole = {"getRoleBinding", "createRoleBinding"}
    /\ AfterAccount = {"getRoleBinding", "createRoleBinding", "getRole", "createRole",
                       "updateRole"}
    /\ AfterNamespace = {"getRoleBinding", "createRoleBinding", "getRole", "createRole",
                         "updateRole", "getServiceAccount", "createServiceAccount"}
BY DEF AfterRole, AfterAccount, AfterNamespace

\* The invocation of p ends, and the tenant's objects stay as they are.
Ends(p, result) ==
    /\ cli' = [cli EXCEPT ![p].next = "finished", ![p].result = result]
    /\ UNCHANGED <<tenant, alone, created>>

\* The end of an invocation that leaves the tenant's objects as they are and is
\* not the success of create or apply: it must not have been refused half way
\* while it ran alone.
LEMMA EndKeeps ==
    ASSUME IInv, NEW p \in Admins, ~Finished(p), NEW result \in Results,
           Ends(p, result),
           result \in {"roleExists", "alreadyExists", "conflict"} => ~alone[p],
           result = "ok" => cli[p].op = "get"
    PROVE  IInv'
<1>. DEFINE c == [cli[p] EXCEPT !.next = "finished", !.result = result]
<1>1. cli' = [cli EXCEPT ![p] = c] /\ UNCHANGED <<tenant, alone, created>>
  BY DEF Ends
<1>2. c \in Invocation /\ c.op = cli[p].op /\ c.next = "finished" /\ c.result = result
  BY DEF IInv, CLITypes, Invocation
<1>. HIDE DEF c
<1>3. cli'[p] = c /\ \A q \in Admins \ {p} : cli'[q] = cli[q]
  BY <1>1 DEF IInv, CLITypes
<1>4. Grows /\ tenant' \in Tenant /\ created' \in Nat
  BY <1>1 DEF Grows, IInv, CLITypes
<1>5. OneCreator'
  BY <1>1, <1>2, <1>3, CallSets DEF IInv, CLIInv, OneCreator, Creating
<1>6. Ensured(p)' /\ Undisturbed(p)'
  BY <1>1, <1>2, <1>3, CallSets DEF Ensured, Undisturbed, Finished, Creating
<1>. QED  BY <1>1, <1>2, <1>4, <1>5, <1>6, StepOfOne

\* So does the end with an error.
LEMMA FailKeeps ==
    ASSUME IInv, NEW p \in Admins, ~Finished(p), NEW result \in Results \ {"ok"},
           Finish(p, result, tenant),
           result \in {"roleExists", "alreadyExists", "conflict"} => ~alone[p]
    PROVE  IInv'
BY EndKeeps DEF Finish, Ends

\* What GoOn does to the invocations.
LEMMA GoOnShape ==
    ASSUME IInv, NEW p \in Admins, NEW next \in Calls, NEW t \in Tenant, GoOn(p, next, t)
    PROVE  /\ cli'[p].next = next /\ cli'[p].op = cli[p].op /\ cli'[p].result = cli[p].result
           /\ \A q \in Admins \ {p} : cli'[q] = cli[q]
           /\ alone' = alone /\ tenant' = t /\ created' = created
BY DEF IInv, CLITypes, Invocation, GoOn

\* The invocation of p may make the call next once the objects are t: they have
\* only become more, what next relies on is there, and nothing that p does not
\* know of, if it runs alone.
Prepared(p, next, t) ==
    /\ t \in Tenant /\ next \in Calls \ {"pollSecrets", "getToken"}
    /\ tenant.namespace => t.namespace
    /\ tenant.serviceAccount => t.serviceAccount
    /\ tenant.roleBinding => t.roleBinding
    /\ tenant.role = "current" => t.role = "current"
    /\ next \in AfterNamespace => t.namespace
    /\ next \in AfterAccount => t.serviceAccount
    /\ next \in AfterRole => t.role = "current"
    /\ ~t.namespace => t.role = "none"
    /\ cli[p].op = "create" /\ next \in AfterNamespace => Creating(p) \/ ~tenant.namespace
    /\ alone[p] =>
           /\ next = "createNamespace" => ~t.namespace
           /\ next = "createServiceAccount" => ~t.serviceAccount
           /\ next = "createRole" => t.role = "none"
           /\ next = "updateRole" => t.role = "old"
           /\ next = "createRoleBinding" => ~t.roleBinding
           /\ cli[p].op = "create" /\ next \in AfterNamespace \ AfterRole => t.role = "none"

\* So GoOn keeps the invariant.
LEMMA GoOnKeeps ==
    ASSUME IInv, NEW p \in Admins, ~Finished(p), NEW next, NEW t,
           GoOn(p, next, t), Prepared(p, next, t)
    PROVE  IInv'
<1>. DEFINE c == [cli[p] EXCEPT !.next = next]
<1>0. next \in Calls /\ t \in Tenant /\ OneCreator /\ Ensured(p) /\ Undisturbed(p)
  BY DEF Prepared, IInv, CLIInv
<1>1. c \in Invocation
  BY <1>0 DEF IInv, CLITypes, Invocation
<1>2. cli' = [cli EXCEPT ![p] = c]
  BY DEF GoOn
<1>. HIDE DEF c
<1>3. /\ cli'[p].next = next /\ cli'[p].op = cli[p].op /\ cli'[p].result = cli[p].result
      /\ \A q \in Admins \ {p} : cli'[q] = cli[q]
      /\ alone' = alone /\ tenant' = t /\ created' = created
  BY <1>0, GoOnShape
<1>4. created' \in Nat
  BY <1>3 DEF IInv, CLITypes
<1>5. Grows
  BY <1>3 DEF Grows, Prepared
<1>6. OneCreator'
  <2>1. created' <= 1 /\ (~tenant'.namespace => created' = 0 /\ tenant'.role = "none")
    BY <1>0, <1>3 DEF OneCreator, Prepared
  <2>2. ASSUME NEW q \in Admins, Creating(q)'
        PROVE  Creating(q) \/ (q = p /\ ~tenant.namespace)
    BY <1>3, <2>2 DEF Creating, Prepared
  <2>3. ASSUME NEW q \in Admins, Creating(q)'  PROVE created' = 0 /\ tenant'.namespace
    <3>1. CASE Creating(q)
      BY <1>0, <1>3, <3>1 DEF OneCreator, Prepared
    <3>2. CASE q = p /\ ~tenant.namespace
      BY <1>0, <1>3, <2>3, <3>2 DEF OneCreator, Creating, Prepared
    <3>. QED  BY <2>2, <2>3, <3>1, <3>2
  <2>4. ASSUME NEW q \in Admins, NEW r \in Admins, Creating(q)', Creating(r)'  PROVE q = r
    BY <1>0, <2>2, <2>4 DEF OneCreator
  <2>. QED  BY <2>1, <2>3, <2>4 DEF OneCreator
<1>7. Ensured(p)'
  BY <1>0, <1>3, <1>5 DEF Ensured, Granted, Grows, Prepared
<1>8. Undisturbed(p)'
  <2>1. alone'[p] = alone[p] /\ (\A q \in Admins \ {p} : Finished(q)' <=> Finished(q))
    BY <1>3 DEF Finished
  <2>. QED  BY <1>0, <1>3, <2>1 DEF Undisturbed, Creating, Prepared
<1>. QED  BY <1>0, <1>1, <1>2, <1>3, <1>4, <1>5, <1>6, <1>7, <1>8, StepOfOne

\* What the invariant says of the invocation that takes the step.
LEMMA OfOne ==
    ASSUME IInv, NEW p \in Admins
    PROVE  /\ tenant \in Tenant /\ cli[p].op \in Operations
           /\ OneCreator /\ Ensured(p) /\ Undisturbed(p)
BY DEF IInv, CLITypes, CLIInv, Invocation

\* ensureNamespace
LEMMA EnsureNamespaceKeeps ==
    ASSUME IInv, NEW p \in Admins, EnsureNamespace(p)
    PROVE  IInv'
<1>0. ~Finished(p)
  BY DEF EnsureNamespace, Finished
<1>1. CASE cli[p].next = "getNamespace" /\ ~tenant.namespace
  <2>1. GoOn(p, "createNamespace", tenant)
    BY <1>1 DEF EnsureNamespace
  <2>2. Prepared(p, "createNamespace", tenant)
    BY <1>1, OfOne, CallSets DEF Prepared, Calls, OneCreator
  <2>. QED  BY <1>0, <2>1, <2>2, GoOnKeeps
<1>2. CASE cli[p].next = "getNamespace" /\ tenant.namespace /\ cli[p].op = "apply"
  <2>1. GoOn(p, "getServiceAccount", tenant)
    BY <1>2 DEF EnsureNamespace
  <2>2. Prepared(p, "getServiceAccount", tenant)
    BY <1>2, OfOne, CallSets DEF Prepared, Calls
  <2>. QED  BY <1>0, <2>1, <2>2, GoOnKeeps
<1>3. CASE Finish(p, "namespaceExists", tenant)
  BY <1>0, <1>3, FailKeeps DEF Results
<1>4. CASE cli[p].next = "createNamespace" /\ tenant.namespace
  <2>1. Finish(p, "alreadyExists", tenant) /\ ~alone[p]
    BY <1>4, OfOne DEF EnsureNamespace, Undisturbed
  <2>. QED  BY <1>0, <2>1, FailKeeps DEF Results
<1>5. CASE cli[p].next = "createNamespace" /\ ~tenant.namespace
  <2>. DEFINE t == [tenant EXCEPT !.namespace = TRUE]
  <2>1. GoOn(p, "getServiceAccount", t)
    BY <1>5 DEF EnsureNamespace
  <2>2. /\ t \in Tenant /\ t.namespace /\ t.role = tenant.role
        /\ t.serviceAccount = tenant.serviceAccount /\ t.roleBinding = tenant.roleBinding
    BY OfOne DEF Tenant
  <2>. HIDE DEF t
  <2>3. Prepared(p, "getServiceAccount", t)
    BY <1>5, <2>2, OfOne, CallSets DEF Prepared, Calls, OneCreator
  <2>. QED  BY <1>0, <2>1, <2>3, GoOnKeeps
<1>. QED  BY <1>1, <1>2, <1>3, <1>4, <1>5 DEF EnsureNamespace

\* ensureServiceAccount
LEMMA EnsureServiceAccountKeeps ==
    ASSUME IInv, NEW p \in Admins, EnsureServiceAccount(p)
    PROVE  IInv'
<1>0. ~Finished(p) /\ cli[p].next \in AfterNamespace \ AfterRole
  BY CallSets DEF EnsureServiceAccount, Finished
<1>1. CASE cli[p].next = "getServiceAccount" /\ tenant.serviceAccount
  <2>1. GoOn(p, "getRole", tenant)
    BY <1>1 DEF EnsureServiceAccount
  <2>2. Prepared(p, "getRole", tenant)
    BY <1>0, <1>1, OfOne, CallSets DEF Prepared, Calls, Ensured, Undisturbed, Creating
  <2>. QED  BY <1>0, <2>1, <2>2, GoOnKeeps
<1>2. CASE cli[p].next = "getServiceAccount" /\ ~tenant.serviceAccount
  <2>1. GoOn(p, "createServiceAccount", tenant)
    BY <1>2 DEF EnsureServiceAccount
  <2>2. Prepared(p, "createServiceAccount", tenant)
    BY <1>0, <1>2, OfOne, CallSets DEF Prepared, Calls, Ensured, Undisturbed, Creating
  <2>. QED  BY <1>0, <2>1, <2>2, GoOnKeeps
<1>3. CASE cli[p].next = "createServiceAccount" /\ tenant.serviceAccount
  <2>1. Finish(p, "alreadyExists", tenant) /\ ~alone[p]
    BY <1>3, OfOne DEF EnsureServiceAccount, Undisturbed
  <2>. QED  BY <1>0, <2>1, FailKeeps DEF Results
<1>4. CASE cli[p].next = "createServiceAccount" /\ ~tenant.serviceAccount
  <2>. DEFINE t == [tenant EXCEPT !.serviceAccount = TRUE]
  <2>1. GoOn(p, "getRole", t)
    BY <1>4 DEF EnsureServiceAccount
  <2>2. /\ t \in Tenant /\ t.namespace = tenant.namespace /\ t.role = tenant.role
        /\ t.serviceAccount /\ t.roleBinding = tenant.roleBinding
    BY OfOne DEF Tenant
  <2>. HIDE DEF t
  <2>3. Prepared(p, "getRole", t)
    BY <1>0, <1>4, <2>2, OfOne, CallSets DEF Prepared, Calls, Ensured, Undisturbed, Creating
  <2>. QED  BY <1>0, <2>1, <2>3, GoOnKeeps
<1>. QED  BY <1>1, <1>2, <1>3, <1>4 DEF EnsureServiceAccount

\* createOrUpdateRole
LEMMA CreateOrUpdateRoleKeeps ==
    ASSUME IInv, NEW p \in Admins, CreateOrUpdateRole(p)
    PROVE  IInv'
<1>0. ~Finished(p) /\ cli[p].next \in AfterAccount \ AfterRole
  BY CallSets DEF CreateOrUpdateRole, Finished
<1>1. tenant.role \in {"none", "old", "current"}
  BY OfOne DEF Tenant
<1>2. CASE GoOn(p, "createRole", tenant) /\ tenant.role = "none"
  <2>1. Prepared(p, "createRole", tenant)
    BY <1>0, <1>2, OfOne, CallSets DEF Prepared, Calls, Ensured, Undisturbed, Creating
  <2>. QED  BY <1>0, <1>2, <2>1, GoOnKeeps
<1>3. CASE GoOn(p, "updateRole", tenant) /\ tenant.role = "old" /\ cli[p].op = "apply"
  <2>1. Prepared(p, "updateRole", tenant)
    BY <1>0, <1>3, OfOne, CallSets DEF Prepared, Calls, Ensured
  <2>. QED  BY <1>0, <1>3, <2>1, GoOnKeeps
<1>4. CASE GoOn(p, "getRoleBinding", tenant) /\ tenant.role = "current" /\ cli[p].op = "apply"
  <2>1. Prepared(p, "getRoleBinding", tenant)
    BY <1>0, <1>4, OfOne, CallSets DEF Prepared, Calls, Ensured
  <2>. QED  BY <1>0, <1>4, <2>1, GoOnKeeps
<1>5. CASE cli[p].next = "getRole" /\ Finish(p, "roleExists", tenant)
           /\ tenant.role # "none" /\ cli[p].op = "create"
  <2>1. ~alone[p]
    BY <1>5, OfOne, CallSets DEF Undisturbed, Creating
  <2>. QED  BY <1>0, <1>5, <2>1, FailKeeps DEF Results
<1>6. CASE cli[p].next = "createRole" /\ tenant.role # "none"
  <2>1. Finish(p, "alreadyExists", tenant) /\ ~alone[p]
    BY <1>6, OfOne DEF CreateOrUpdateRole, Undisturbed
  <2>. QED  BY <1>0, <2>1, FailKeeps DEF Results
<1>7. CASE cli[p].next = "updateRole" /\ tenant.role # "old"
  <2>1. Finish(p, "conflict", tenant) /\ ~alone[p]
    BY <1>7, OfOne DEF CreateOrUpdateRole, Undisturbed
  <2>. QED  BY <1>0, <2>1, FailKeeps DEF Results
<1>8. CASE GoOn(p, "getRoleBinding", [tenant EXCEPT !.role = "current"])
  <2>. DEFINE t == [tenant EXCEPT !.role = "current"]
  <2>1. /\ t \in Tenant /\ t.namespace = tenant.namespace /\ t.role = "current"
        /\ t.serviceAccount = tenant.serviceAccount /\ t.roleBinding = tenant.roleBinding
    BY OfOne DEF Tenant
  <2>2. GoOn(p, "getRoleBinding", t)
    BY <1>8
  <2>. HIDE DEF t
  <2>3. Prepared(p, "getRoleBinding", t)
    BY <1>0, <2>1, OfOne, CallSets DEF Prepared, Calls, Ensured, Creating
  <2>. QED  BY <1>0, <2>2, <2>3, GoOnKeeps
<1>. QED  BY <1>1, <1>2, <1>3, <1>4, <1>5, <1>6, <1>7, <1>8 DEF CreateOrUpdateRole

\* An invocation of create or apply succeeds only with everything in place, and
\* a create only if it made the namespace.
LEMMA SucceedKeeps ==
    ASSUME IInv, NEW p \in Admins, NEW t \in Tenant, Finish(p, "ok", t),
           cli[p].next \in AfterRole, t.roleBinding,
           tenant.namespace => t.namespace, tenant.serviceAccount => t.serviceAccount,
           t.role = tenant.role
    PROVE  IInv'
<1>. DEFINE c == [cli[p] EXCEPT !.next = "finished", !.result = "ok"]
<1>0. OneCreator /\ Ensured(p) /\ created \in Nat /\ ~Finished(p)
  BY OfOne, CallSets DEF IInv, CLITypes, Finished
<1>1. c \in Invocation /\ c.next = "finished" /\ c.result = "ok" /\ c.op = cli[p].op
  BY DEF IInv, CLITypes, Invocation, Results
<1>2. cli' = [cli EXCEPT ![p] = c] /\ alone' = alone /\ tenant' = t
  BY DEF Finish
<1>3. created' = IF cli[p].op = "create" THEN created + 1 ELSE created
  BY DEF Finish
<1>. HIDE DEF c
<1>4. cli'[p] = c /\ \A q \in Admins \ {p} : cli'[q] = cli[q]
  BY <1>2 DEF IInv, CLITypes
<1>5. tenant.namespace /\ tenant.serviceAccount /\ tenant.role = "current"
  BY <1>0, CallSets DEF Ensured
<1>6. Grows /\ created' \in Nat
  BY <1>0, <1>2, <1>3 DEF Grows
<1>7. OneCreator'
  <2>1. cli[p].op = "create" => Creating(p)
    BY CallSets DEF Creating
  <2>2. ASSUME NEW q \in Admins, Creating(q)'  PROVE q # p /\ Creating(q)
    BY <1>1, <1>4, <2>2, CallSets DEF Creating
  <2>3. created' <= 1 /\ tenant'.namespace
    BY <1>0, <1>2, <1>3, <1>5, <2>1 DEF OneCreator
  <2>4. ASSUME NEW q \in Admins, Creating(q)'  PROVE created' = 0
    <3>1. q # p /\ Creating(q)
      BY <2>2, <2>4
    <3>. QED  BY <1>0, <1>3, <2>1, <3>1 DEF OneCreator
  <2>5. ASSUME NEW q \in Admins, NEW r \in Admins, Creating(q)', Creating(r)'  PROVE q = r
    BY <1>0, <2>2, <2>5 DEF OneCreator
  <2>. QED  BY <2>3, <2>4, <2>5 DEF OneCreator
<1>8. Ensured(p)' /\ Undisturbed(p)'
  BY <1>1, <1>2, <1>4, <1>5, CallSets DEF Ensured, Granted, Undisturbed, Finished, Creating
<1>. QED  BY <1>0, <1>1, <1>2, <1>6, <1>7, <1>8, StepOfOne

\* ensureRoleBinding
LEMMA EnsureRoleBindingKeeps ==
    ASSUME IInv, NEW p \in Admins, EnsureRoleBinding(p)
    PROVE  IInv'
<1>0. ~Finished(p) /\ cli[p].next \in AfterRole
  BY CallSets DEF EnsureRoleBinding, Finished
<1>1. CASE cli[p].next = "getRoleBinding" /\ tenant.roleBinding
  BY <1>0, <1>1, OfOne, SucceedKeeps DEF EnsureRoleBinding
<1>2. CASE cli[p].next = "getRoleBinding" /\ ~tenant.roleBinding
  <2>1. GoOn(p, "createRoleBinding", tenant)
    BY <1>2 DEF EnsureRoleBinding
  <2>2. Prepared(p, "createRoleBinding", tenant)
    BY <1>0, <1>2, OfOne, CallSets DEF Prepared, Calls, Ensured, Creating
  <2>. QED  BY <1>0, <2>1, <2>2, GoOnKeeps
<1>3. CASE cli[p].next = "createRoleBinding" /\ tenant.roleBinding
  <2>1. Finish(p, "alreadyExists", tenant) /\ ~alone[p]
    BY <1>3, OfOne DEF EnsureRoleBinding, Undisturbed
  <2>. QED  BY <1>0, <2>1, FailKeeps DEF Results
<1>4. CASE cli[p].next = "createRoleBinding" /\ ~tenant.roleBinding
  <2>. DEFINE t == [tenant EXCEPT !.roleBinding = TRUE]
  <2>1. Finish(p, "ok", t)
    BY <1>4 DEF EnsureRoleBinding
  <2>2. /\ t \in Tenant /\ t.namespace = tenant.namespace /\ t.role = tenant.role
        /\ t.serviceAccount = tenant.serviceAccount /\ t.roleBinding
    BY OfOne DEF Tenant
  <2>. HIDE DEF t
  <2>. QED  BY <1>0, <2>1, <2>2, SucceedKeeps
<1>. QED  BY <1>1, <1>2, <1>3, <1>4 DEF EnsureRoleBinding

\* getServiceAccount of get kubeconfig
LEMMA PollSecretsKeeps ==
    ASSUME IInv, NEW p \in Admins, PollSecrets(p) \/ Timeout(p)
    PROVE  IInv'
<1>0. ~Finished(p) /\ cli[p].next = "pollSecrets"
  BY DEF PollSecrets, Timeout, Finished
<1>1. CASE Finish(p, "notFound", tenant) \/ Finish(p, "timeout", tenant)
  BY <1>0, <1>1, FailKeeps DEF Results
<1>2. CASE /\ cli' = [cli EXCEPT ![p].next = "getToken", ![p].seen = tenant.secrets]
           /\ UNCHANGED <<tenant, alone, created>>
  <2>. DEFINE c == [cli[p] EXCEPT !.next = "getToken", !.seen = tenant.secrets]
  <2>1. cli' = [cli EXCEPT ![p] = c]
    BY <1>2
  <2>2. c \in Invocation /\ c.op = cli[p].op /\ c.next = "getToken" /\ c.result = cli[p].result
    BY DEF IInv, CLITypes, Invocation, Calls, Tenant
  <2>. HIDE DEF c
  <2>3. cli[p].op = "get"
    BY <1>0, OfOne DEF Ensured
  <2>4. Ensured(p)' /\ Undisturbed(p)' /\ OneCreator'
    <3>1. cli'[p] = c /\ \A q \in Admins \ {p} : cli'[q] = cli[q]
      BY <2>1 DEF IInv, CLITypes
    <3>2. Ensured(p)'
      BY <2>2, <2>3, <3>1, CallSets DEF Ensured
    <3>3. Undisturbed(p)'
      BY <1>0, <1>2, <2>2, <2>3, <3>1, OfOne, CallSets DEF Undisturbed, Finished, Creating
    <3>4. ASSUME NEW q \in Admins, Creating(q)'  PROVE Creating(q)
      BY <2>2, <2>3, <3>1, <3>4 DEF Creating
    <3>5. OneCreator'
      BY <1>2, <3>4, OfOne DEF OneCreator
    <3>. QED  BY <3>2, <3>3, <3>5
  <2>5. Grows /\ tenant' \in Tenant /\ created' \in Nat
    BY <1>2 DEF Grows, IInv, CLITypes
  <2>. QED  BY <1>0, <1>2, <2>1, <2>2, <2>4, <2>5, StepOfOne
<1>. QED  BY <1>1, <1>2 DEF PollSecrets, Timeout

\* getToken and the file; an interrupted invocation
LEMMA GetTokenKeeps ==
    ASSUME IInv, NEW p \in Admins, GetToken(p) \/ Interrupt(p)
    PROVE  IInv'
<1>0. ~Finished(p)
  BY DEF GetToken, Interrupt, Finished
<1>1. CASE GetToken(p)
  <2>1. cli[p].op = "get"
    BY <1>1, OfOne DEF GetToken, Ensured
  <2>2. CASE Finish(p, "noToken", tenant)
    BY <1>0, <2>2, FailKeeps DEF Results
  <2>3. CASE /\ cli' = [cli EXCEPT ![p].next = "finished", ![p].result = "ok"]
             /\ UNCHANGED <<tenant, alone, created>>
    BY <1>0, <2>1, <2>3, EndKeeps DEF Results, Ends
  <2>. QED  BY <1>1, <2>2, <2>3 DEF GetToken
<1>2. CASE Interrupt(p)
  BY <1>0, <1>2, EndKeeps DEF Interrupt, Results, Ends
<1>. QED  BY <1>1, <1>2

\* An invocation that starts alone finds all others finished; every other one
\* that runs is no longer alone.
LEMMA InvokeKeeps ==
    ASSUME IInv, NEW p \in Admins, NEW op \in Operations, Invoke(p, op)
    PROVE  IInv'
<1>. DEFINE c == [op |-> op, next |-> FirstCallOf(op), result |-> "none", seen |-> {}]
<1>1. /\ c \in Invocation /\ c.op = op /\ c.result = "none"
      /\ c.next \in {"getNamespace", "pollSecrets"}
      /\ c.next = "pollSecrets" => op = "get"
  BY DEF Invocation, FirstCallOf, Calls, Results, Operations
<1>2. cli' = [cli EXCEPT ![p] = c] /\ UNCHANGED <<tenant, created>>
  BY DEF Invoke
<1>. HIDE DEF c
<1>3. cli'[p] = c /\ \A q \in Admins \ {p} : cli'[q] = cli[q]
  BY <1>2 DEF IInv, CLITypes
<1>4. /\ alone' \in [Admins -> BOOLEAN]
      /\ alone'[p] <=> \A r \in Admins \ {p} : Finished(r)
      /\ \A q \in Admins \ {p} : alone'[q] <=> alone[q] /\ Finished(q)
  BY DEF Invoke, Finished
<1>5. CLITypes'
  BY <1>1, <1>2, <1>4 DEF IInv, CLITypes
<1>6. OneCreator'
  <2>1. ASSUME NEW q \in Admins, Creating(q)'  PROVE Creating(q)
    BY <1>1, <1>3, <2>1, CallSets DEF Creating
  <2>. QED  BY <1>2, <2>1, OfOne DEF OneCreator
<1>7. ASSUME NEW q \in Admins  PROVE Ensured(q)' /\ Undisturbed(q)'
  <2>1. CASE q = p
    <3>1. Ensured(p)'
      BY <1>1, <1>3, CallSets DEF Ensured
    <3>2. Undisturbed(p)'
      BY <1>1, <1>3, <1>4, CallSets DEF Undisturbed, Finished, Creating
    <3>. QED  BY <2>1, <3>1, <3>2
  <2>2. CASE q # p
    <3>1. Ensured(q)'
      BY <1>2, <1>3, <2>2, OfOne DEF Ensured, Granted
    <3>2. Undisturbed(q)'
      BY <1>3, <1>4, <2>2, OfOne, CallSets DEF Undisturbed, Finished, Creating
    <3>. QED  BY <3>1, <3>2
  <2>. QED  BY <2>1, <2>2
<1>. QED  BY <1>5, <1>6, <1>7 DEF IInv, CLIInv

\* The token controller touches nothing that the invariant speaks of.
LEMMA IssueSecretKeeps ==
    ASSUME IInv, IssueSecret
    PROVE  IInv'
<1>1. /\ tenant' \in Tenant
      /\ tenant'.namespace <=> tenant.namespace
      /\ tenant'.serviceAccount <=> tenant.serviceAccount
      /\ tenant'.roleBinding <=> tenant.roleBinding
      /\ tenant'.role = tenant.role
  BY DEF IssueSecret, IInv, CLITypes, Tenant
<1>2. UNCHANGED <<cli, alone, created>>
  BY DEF IssueSecret
<1>3. CLITypes'
  BY <1>1, <1>2 DEF IInv, CLITypes
<1>4. OneCreator'
  BY <1>1, <1>2 DEF IInv, CLIInv, OneCreator, Creating
<1>5. ASSUME NEW q \in Admins  PROVE Ensured(q)' /\ Undisturbed(q)'
  BY <1>1, <1>2, OfOne DEF Ensured, Granted, Undisturbed, Finished, Creating
<1>. QED  BY <1>3, <1>4, <1>5 DEF IInv, CLIInv

-----------------------------------------------------------------------------
(* The specification.                                                       *)

LEMMA InitInv == Init => IInv
<1>. SUFFICES ASSUME Init  PROVE IInv
  OBVIOUS
<1>1. CLITypes
  BY DEF Init, CLIInit, CLITypes, NotInvoked, Invocation, Operations, Results
<1>2. OneCreator
  BY CallSets DEF Init, CLIInit, NotInvoked, OneCreator, Creating
<1>3. ASSUME NEW p \in Admins  PROVE Ensured(p) /\ Undisturbed(p)
  BY CallSets DEF Init, CLIInit, NotInvoked, Ensured, Undisturbed, Finished, Creating
<1>. QED  BY <1>1, <1>2, <1>3 DEF IInv, CLIInv

\* A step that leaves the invocations and their objects alone
LEMMA UnchangedInv ==
    ASSUME IInv, UNCHANGED <<tenant, cli, alone, created>>
    PROVE  IInv'
BY DEF IInv, CLITypes, CLIInv, OneCreator, Ensured, Undisturbed, Granted, Finished, Creating

\* Once the kubeconfig is handed out nobody has invoked the tool.
LEMMA HandOutKeeps ==
    ASSUME IInv, HandOut
    PROVE  IInv'
<1>1. tenant' = tenant /\ created' = 0
  BY DEF HandOut
<1>2. /\ cli' = [p \in Admins |-> NotInvoked]
      /\ alone' = [p \in Admins |-> TRUE]
  BY DEF HandOut
<1>3. CLITypes'
  BY <1>1, <1>2 DEF IInv, CLITypes, NotInvoked, Invocation, Operations, Results
<1>4. OneCreator'
  BY <1>1, <1>2, CallSets DEF IInv, CLIInv, NotInvoked, OneCreator, Creating
<1>5. ASSUME NEW p \in Admins  PROVE Ensured(p)' /\ Undisturbed(p)'
  BY <1>2, CallSets DEF NotInvoked, Ensured, Undisturbed, Finished, Creating
<1>. QED  BY <1>3, <1>4, <1>5 DEF IInv, CLIInv

LEMMA NextInv == IInv /\ [Next]_tenantVars => IInv'
<1>. SUFFICES ASSUME IInv, [Next]_tenantVars  PROVE IInv'
  OBVIOUS
<1>1. CASE CLI(CLINext)
  <2>1. CASE IssueSecret
    BY <2>1, IssueSecretKeeps
  <2>2. ASSUME NEW p \in Admins, CLIStep(p)  PROVE IInv'
    BY <2>2, EnsureNamespaceKeeps, EnsureServiceAccountKeeps, CreateOrUpdateRoleKeeps,
       EnsureRoleBindingKeeps, PollSecretsKeeps, GetTokenKeeps DEF CLIStep
  <2>3. ASSUME NEW p \in Admins, Interrupt(p)  PROVE IInv'
    BY <2>3, GetTokenKeeps
  <2>4. ASSUME NEW p \in Admins, NEW op \in Operations, Invoke(p, op)  PROVE IInv'
    BY <2>4, InvokeKeeps
  <2>. QED  BY <1>1, <2>1, <2>2, <2>3, <2>4 DEF CLI, CLINext
<1>2. CASE HandOut
  BY <1>2, HandOutKeeps
<1>3. CASE UNCHANGED cliVars
  BY <1>3, UnchangedInv DEF cliVars
<1>4. Access => HandOut \/ UNCHANGED cliVars
  BY DEF Access, Connect, Disconnect
<1>5. Template(TemplateNext) \/ MachineStep \/ UNCHANGED tenantVars => UNCHANGED cliVars
  BY DEF Template, MachineStep, tenantVars
<1>. QED  BY <1>1, <1>2, <1>3, <1>4, <1>5 DEF Next

LEMMA Invariant == Spec => []IInv
BY InitInv, NextInv, PTL DEF Spec

\* createOrUpdateResources: for any number of administrators, whatever
\* invocations overlap or are interrupted, create and apply report success only
\* when the tenant has everything, with the rules of this version.
THEOREM GrantedOnSuccess == Spec => []SuccessMeansGranted
<1>1. IInv => SuccessMeansGranted
  BY DEF IInv, CLIInv, Ensured, SuccessMeansGranted
<1>. QED  BY <1>1, Invariant, PTL

\* ensureNamespace: of any number of invocations of create at most one reports
\* success, although none of them takes a lock.
THEOREM OneCreate == Spec => []OneCreateSucceeds
<1>1. IInv => OneCreateSucceeds
  BY DEF IInv, CLIInv, OneCreator, OneCreateSucceeds
<1>. QED  BY <1>1, Invariant, PTL

\* createOrUpdateRole, "should never get here": an invocation that no other one
\* overlaps is never refused half way, whatever earlier ones left behind.
THEOREM AloneIsNotRefused == Spec => []RefusedOnlyInCompany
<1>1. IInv => RefusedOnlyInCompany
  BY DEF IInv, CLIInv, Undisturbed, RefusedOnlyInCompany
<1>. QED  BY <1>1, Invariant, PTL

-----------------------------------------------------------------------------
(* The secrets that CAPK may read.                                          *)

LEMMA RequestInit == Init => request \in Admission \cup {NoRequest}
BY DEF Init, AccessInit

LEMMA RequestNext ==
    ASSUME request \in Admission \cup {NoRequest}, [Next]_tenantVars
    PROVE  (request \in Admission \cup {NoRequest})'
<1>1. CASE Access
  <2>1. CASE Ask
    BY <2>1 DEF Ask
  <2>. QED  BY <1>1, <2>1 DEF Access, HandOut, Connect, Disconnect
<1>2. CASE CLI(CLINext) \/ Template(TemplateNext) \/ MachineStep \/ UNCHANGED tenantVars
  BY <1>2 DEF CLI, Template, MachineStep, tenantVars
<1>. QED  BY <1>1, <1>2 DEF Next

\* GenerateInfraClusterClient: for any set of namespaces and whatever the
\* annotation filter lets past the webhook, no reference makes CAPK read a
\* secret outside the object's namespace and its own.
THEOREM OwnSecretsOnly == Spec => []NoForeignSecret
<1>1. request \in Admission \cup {NoRequest} => NoForeignSecret
  <2>. SUFFICES ASSUME request \in Admission, request.ref # NoRef,
                       ~RefusesNamespace(request.ref, request.namespace, request.controller)
                PROVE  SecretNamespace(request.ref, request.namespace)
                           \in {request.namespace, request.controller} \ {NoName}
    BY DEF NoForeignSecret, Asked
  <2>1. request.namespace \in Namespaces /\ request.namespace # NoName
    BY NamespacesAssumption DEF Admission
  <2>. QED  BY <2>1 DEF RefusesNamespace, SecretNamespace
<1>. QED  BY <1>1, RequestInit, RequestNext, PTL DEF Spec

\* validateInfraClusterSecretRef and GenerateInfraClusterClient, which check the
\* namespace of a reference each in its own way, agree on every request.
THEOREM WebhookAgreesWithClient == Spec => []AdmissionAgreesWithClient
<1>1. AdmissionAgreesWithClient
  BY DEF AdmissionAgreesWithClient, Examined, Handle, validateInfraClusterSecretRef,
         RefusesNamespace
<1>. QED  BY <1>1, PTL

-----------------------------------------------------------------------------
(* Where the client works.                                                  *)

\* A tenant that was promised access has it, and keeps it.
PromiseKept == promised => Granted

LEMMA PromiseNext ==
    ASSUME IInv, IInv', PromiseKept, [Next]_tenantVars
    PROVE  PromiseKept'
<1>1. Granted => Granted'
  <2>1. tenant \in Tenant
    BY DEF IInv, CLITypes
  <2>2. CASE CLI(CLINext)
    <3>1. ASSUME NEW p \in Admins, CLIStep(p)  PROVE Granted => Granted'
      BY <2>1, <3>1 DEF CLIStep, EnsureNamespace, EnsureServiceAccount, CreateOrUpdateRole,
         EnsureRoleBinding, PollSecrets, Timeout, GetToken, GoOn, Finish, Granted, Tenant
    <3>2. ASSUME NEW p \in Admins, NEW op \in Operations, Interrupt(p) \/ Invoke(p, op)
          PROVE  Granted => Granted'
      BY <3>2 DEF Interrupt, Invoke, Granted
    <3>3. CASE IssueSecret
      BY <2>1, <3>3 DEF IssueSecret, Granted, Tenant
    <3>. QED  BY <2>2, <3>1, <3>2, <3>3 DEF CLI, CLINext, Operations
  <2>3. CASE Access \/ Template(TemplateNext) \/ MachineStep \/ UNCHANGED tenantVars
    BY <2>3 DEF Access, HandOut, Connect, Disconnect, Template, MachineStep, tenantVars,
                cliVars, Granted
  <2>. QED  BY <2>2, <2>3 DEF Next
<1>2. CASE promised
  BY <1>1, <1>2 DEF PromiseKept
<1>3. CASE promised' /\ ~promised
  <2>1. CLI(CLINext)
    BY <1>3 DEF Next, Access, HandOut, Connect, Disconnect, Template, MachineStep, tenantVars,
                cliVars
  <2>2. PICK p \in Admins : CLIStep(p)
    BY <1>3, <2>1 DEF CLI, CLINext, Interrupt, Invoke, IssueSecret
  <2>3. cli'[p].result = "ok" /\ cli'[p].op # "get"
    <3>1. \E result \in Results : \E t : Finish(p, result, t)
      BY <1>3, <2>2 DEF CLIStep, EnsureNamespace, EnsureServiceAccount, CreateOrUpdateRole,
         EnsureRoleBinding, PollSecrets, Timeout, GetToken, GoOn, Results
    <3>2. PICK result, t : Finish(p, result, t)
      BY <3>1
    <3>3. result = "ok" /\ cli[p].op # "get"
      BY <1>3, <3>2 DEF Finish
    <3>. QED  BY <3>2, <3>3 DEF Finish, IInv, CLITypes, Invocation
  <2>. QED  BY <2>3 DEF IInv, CLIInv, Ensured, PromiseKept
<1>. QED  BY <1>2, <1>3 DEF PromiseKept

\* createKubeconfig gives the context the tenant's namespace, or leaves none.
LEMMA ContextOfTenant ==
    createKubeconfig("admin") = "tenant" /\ createKubeconfig("tenant") = "none"
BY DEF createKubeconfig

\* A text of get, or what is left of an older file
WrittenPieces == {x \in Pieces : x.context # "admin"}

\* The file has at most two pieces.
Files == UNION {[1..n -> WrittenPieces] : n \in 0..2}

\* What is stored as get wrote it names the tenant's namespace, or does not parse.
HandedOut == genuine => secret.kubeconfig = TenantNamespace

LEMMA HandedOutInit == Init => HandedOut
BY DEF Init, HandedOut

LEMMA FirstPiece ==
    ASSUME NEW f \in Files, Intact(f)
    PROVE  f[1].context \in {"tenant", "none"}
<1>1. PICK c \in Contexts, n \in 1..2 : f = Text(c, n)
  BY DEF Intact
<1>2. PICK k \in 0..2 : f \in [1..k -> WrittenPieces]
  BY DEF Files
<1>3. 1 \in DOMAIN f /\ f[1] = [context |-> c, part |-> 1, of |-> n]
  BY <1>1 DEF Text
<1>4. f[1] \in WrittenPieces
  BY <1>2, <1>3
<1>. QED  BY <1>3, <1>4 DEF WrittenPieces, Contexts

LEMMA HandedOutNext ==
    ASSUME HandedOut, output \in Files, [Next]_tenantVars
    PROVE  HandedOut'
<1>1. CASE HandOut
  <2>. SUFFICES ASSUME genuine'  PROVE secret'.kubeconfig = TenantNamespace
    BY DEF HandedOut
  <2>1. /\ Intact(output) /\ secret'.kubeconfig \in Namespaces
        /\ secret'.kubeconfig \in {NoKey} \cup ContextNamespaces(output)
    BY <1>1 DEF HandOut
  <2>2. output[1].context \in {"tenant", "none"}
    BY <2>1, FirstPiece
  <2>3. ContextNamespaces(output) \subseteq {TenantNamespace, Malformed}
    BY <2>1, <2>2 DEF ContextNamespaces
  <2>. QED  BY <2>1, <2>3, KeysAssumption
<1>2. CASE UNCHANGED <<genuine, secret>>
  BY <1>2 DEF HandedOut
<1>3. Access => HandOut \/ UNCHANGED <<genuine, secret>>
  BY DEF Access, Connect, Disconnect
<1>4. CLI(CLINext) \/ Template(TemplateNext) \/ MachineStep \/ UNCHANGED tenantVars
          => UNCHANGED <<genuine, secret>>
  BY DEF CLI, Template, MachineStep, tenantVars
<1>. QED  BY <1>1, <1>2, <1>3, <1>4 DEF Next

-----------------------------------------------------------------------------
(* What CAPK computes of a VM.                                              *)

InputOK == input \in Inputs \cup {NoInput}

LEMMA InputInvariant == Spec => []InputOK
<1>1. Init => InputOK
  BY DEF Init, VMInit, InputOK
<1>2. InputOK /\ [Next]_tenantVars => InputOK'
  <2>. SUFFICES ASSUME InputOK, [Next]_tenantVars  PROVE InputOK'
    OBVIOUS
  <2>1. CASE MachineStep
    BY <2>1 DEF MachineStep, VMNext, ReadMachine, LeaveMachine, InputOK
  <2>2. CASE CLI(CLINext) \/ Access \/ Template(TemplateNext) \/ UNCHANGED tenantVars
    BY <2>2 DEF CLI, Access, HandOut, Connect, Disconnect, Template, tenantVars, InputOK
  <2>. QED  BY <2>1, <2>2 DEF Next
<1>. QED  BY <1>1, <1>2, PTL DEF Spec

\* prefixDataVolumeTemplates: for all words and lengths of names, machines with
\* names of as many parts share no DataVolume.
THEOREM DataVolumesAreUnique == Spec => []DataVolumesUnique
<1>1. InputOK => DataVolumesUnique
  BY UniqueNames DEF InputOK, NoInput, DataVolumesUnique
<1>. QED  BY <1>1, InputInvariant, PTL

\* prefixDataVolumeTemplates: no volume loses what it named, whatever the
\* template has.
THEOREM VolumesAreAttached == Spec => []VolumesStayAttached
BY AttachedVolumes, PTL

\* addCapkUserToCloudInitConfig: for any keys and any list of users, with any
\* number of users capk.
THEOREM CapkUserIsInstalled == Spec => []CapkUserInstalled
<1>1. InputOK => CapkUserInstalled
  BY KeyInstalled DEF InputOK, NoInput, CapkUserInstalled
<1>. QED  BY <1>1, InputInvariant, PTL

\* IsTerminal gives up exactly the VMs that stay down.
THEOREM TerminalIsForGood == Spec => []TerminalMeansForGood
<1>1. InputOK => TerminalMeansForGood
  BY ForGood DEF InputOK, NoInput, TerminalMeansForGood
<1>. QED  BY <1>1, InputInvariant, PTL

\* GetVMNotReadyReason reports the first DataVolume that is waited for, of any
\* number of them.
THEOREM BlockerIsReported == Spec => []BlamesTheBlocker
<1>1. InputOK => BlamesTheBlocker
  BY BlockerIsBlamed DEF InputOK, NoInput, BlamesTheBlocker
<1>. QED  BY <1>1, InputInvariant, PTL

-----------------------------------------------------------------------------
(* The Role.                                                                *)

\* generateRole: what a tenant is granted allows every call of the controllers
\* but the creation of migrations.
THEOREM RoleIsEnough == Spec => []AllowedExceptMigrations
<1>1. InfraCalls \ Rules = Call({"create"}, {"virtualmachineinstancemigrations"})
  BY DEF InfraCalls, Rules, Call, AllVerbs
<1>2. AllowedExceptMigrations
  BY <1>1 DEF AllowedExceptMigrations
<1>. QED  BY <1>2, PTL

-----------------------------------------------------------------------------
(* Types.                                                                   *)

LEMMA FileLength == \A f \in Files : f \in Seq(WrittenPieces) /\ Len(f) \in 0..2
<1>. SUFFICES ASSUME NEW f \in Files  PROVE f \in Seq(WrittenPieces) /\ Len(f) \in 0..2
  OBVIOUS
<1>1. PICK n \in 0..2 : f \in [1..n -> WrittenPieces]
  BY DEF Files
<1>. QED  BY <1>1, SeqDef

\* writeKubeconfigFile: what is left of the old file is at most its length.
LEMMA OverwriteType ==
    ASSUME NEW old \in Files, NEW new \in Files
    PROVE  Overwrite(old, new) \in Files
<1>. DEFINE n == IF Len(old) > Len(new) THEN Len(old) ELSE Len(new)
<1>1. old \in Seq(WrittenPieces) /\ new \in Seq(WrittenPieces) /\ Len(old) \in 0..2 /\ Len(new) \in 0..2
  BY FileLength
<1>2. n \in 0..2
  BY <1>1
<1>3. \A i \in 1..n : (IF i <= Len(new) THEN new[i] ELSE old[i]) \in WrittenPieces
  BY <1>1, ElementOfSeq
<1>4. Overwrite(old, new) \in [1..n -> WrittenPieces]
  BY <1>3 DEF Overwrite
<1>. QED  BY <1>2, <1>4 DEF Files

\* What createKubeconfig makes is a file.
LEMMA TextType ==
    ASSUME NEW c \in {"tenant", "none", "other"}, NEW n \in 1..2
    PROVE  Text(c, n) \in Files
<1>1. \A i \in 1..n : [context |-> c, part |-> i, of |-> n] \in WrittenPieces
  BY DEF WrittenPieces, Pieces, Contexts
<1>2. Text(c, n) \in [1..n -> WrittenPieces]
  BY <1>1 DEF Text
<1>3. n \in 0..2
  OBVIOUS
<1>. QED  BY <1>2, <1>3 DEF Files

\* An invocation that runs, or has succeeded with create, is counted.
Counted ==
    /\ invocations \in 0..MaxInvocations /\ interrupts \in 0..MaxInterrupts
    /\ created > 0 => invocations > 0
    /\ \A p \in Admins : ~Finished(p) => invocations > 0

AccessOK ==
    /\ request \in Admission \cup {NoRequest}
    /\ secret \in SecretData \cup {NoSecret} /\ genuine \in BOOLEAN
    /\ client \in Namespaces \cup {NoClient, NoName}

TypeInv == output \in Files /\ promised \in BOOLEAN /\ Counted /\ AccessOK /\ TemplateTypes

\* What a step of an invocation does to the counters and to the file.
LEMMA StepCounts ==
    ASSUME IInv, Counted, output \in Files, NEW p \in Admins, CLIStep(p)
    PROVE  Counted' /\ output' \in Files
<1>1. ~Finished(p) /\ invocations > 0
  BY DEF CLIStep, EnsureNamespace, EnsureServiceAccount, CreateOrUpdateRole, EnsureRoleBinding,
         PollSecrets, Timeout, GetToken, Finished, Counted
<1>2. UNCHANGED <<invocations, interrupts>>
  BY DEF CLIStep, EnsureNamespace, EnsureServiceAccount, CreateOrUpdateRole, EnsureRoleBinding,
         PollSecrets, Timeout, GetToken, GoOn, Finish
<1>3. Counted'
  BY <1>1, <1>2 DEF Counted
<1>4. output' \in Files
  <2>1. CASE GetToken(p)
    <3>1. \A name \in {"admin", "tenant"}, n \in 1..2 : Text(createKubeconfig(name), n) \in Files
      BY ContextOfTenant, TextType
    <3>. QED  BY <2>1, <3>1, OverwriteType DEF GetToken, Finish
  <2>2. CASE ~GetToken(p)
    BY <2>2 DEF CLIStep, EnsureNamespace, EnsureServiceAccount, CreateOrUpdateRole,
                EnsureRoleBinding, PollSecrets, Timeout, GoOn, Finish
  <2>. QED  BY <2>1, <2>2
<1>. QED  BY <1>3, <1>4

\* The other actions of the command line
LEMMA OthersCount ==
    ASSUME IInv, Counted, output \in Files, NEW p \in Admins, NEW op \in Operations,
           Interrupt(p) \/ Invoke(p, op) \/ IssueSecret
    PROVE  Counted' /\ output' \in Files
<1>1. UNCHANGED <<output, created>>
  BY DEF Interrupt, Invoke, IssueSecret
<1>2. CASE Interrupt(p)
  <2>1. invocations > 0 /\ UNCHANGED invocations /\ interrupts' \in 0..MaxInterrupts
    BY <1>2, MaxInterruptsAssumption DEF Interrupt, Counted
  <2>. QED  BY <1>1, <2>1 DEF Counted
<1>3. CASE Invoke(p, op)
  <2>1. invocations' \in 1..MaxInvocations /\ UNCHANGED interrupts
    BY <1>3, MaxInvocationsAssumption DEF Invoke, Counted
  <2>. QED  BY <1>1, <2>1 DEF Counted
<1>4. CASE IssueSecret
  BY <1>1, <1>4 DEF IssueSecret, Counted, Finished
<1>. QED  BY <1>2, <1>3, <1>4

\* Where a client can work
LEMMA ClientType ==
    ASSUME NEW ref, NEW owner \in Namespaces, NEW controller,
           NEW data \in SecretData \cup {NoSecret}
    PROVE  GenerateInfraClusterClient(ref, owner, controller, data)
               \in Namespaces \cup {NoClient, NoName}
<1>1. CASE data = NoSecret
  BY <1>1 DEF GenerateInfraClusterClient
<1>2. CASE data \in SecretData
  BY <1>2 DEF GenerateInfraClusterClient, SecretData
<1>. QED  BY <1>1, <1>2

LEMMA AccessTypes ==
    ASSUME IInv, TypeInv, Access
    PROVE  TypeInv'
<1>1. CASE HandOut
  <2>1. output' = <<>> /\ <<>> \in Files
    <3>1. <<>> \in [1..0 -> WrittenPieces]
      OBVIOUS
    <3>. QED  BY <1>1, <3>1 DEF HandOut, Files
  <2>2. Counted' /\ promised' \in BOOLEAN
    BY <1>1, MaxInvocationsAssumption, MaxInterruptsAssumption
       DEF HandOut, TypeInv, Counted, Finished, NotInvoked
  <2>3. AccessOK' /\ TemplateTypes'
    BY <1>1 DEF HandOut, TypeInv, AccessOK, TemplateTypes, templateVars
  <2>. QED  BY <2>1, <2>2, <2>3 DEF TypeInv
<1>2. CASE ~HandOut
  <2>1. UNCHANGED cliVars /\ UNCHANGED templateVars /\ UNCHANGED <<secret, genuine>>
    BY <1>2 DEF Access, Connect, Disconnect
  <2>2. output' \in Files /\ promised' \in BOOLEAN /\ Counted' /\ TemplateTypes'
    BY <2>1 DEF TypeInv, Counted, TemplateTypes, Finished, cliVars, templateVars
  <2>3. CASE Connect
    <3>1. request \in Admission
      BY <2>3 DEF Connect, Asked, TypeInv, AccessOK
    <3>2. request.namespace \in Namespaces
      BY <3>1 DEF Admission
    <3>3. GenerateInfraClusterClient(request.ref, request.namespace, request.controller, secret)
              \in Namespaces \cup {NoClient, NoName}
      BY <3>2, ClientType DEF TypeInv, AccessOK
    <3>. QED  BY <2>1, <2>2, <2>3, <3>3 DEF Connect, TypeInv, AccessOK
  <2>4. CASE Disconnect \/ (Ask /\ UNCHANGED client)
    BY <2>1, <2>2, <2>4 DEF Disconnect, Ask, TypeInv, AccessOK
  <2>. QED  BY <1>2, <2>3, <2>4 DEF Access
<1>. QED  BY <1>1, <1>2

LEMMA TypesKept == IInv /\ TypeInv /\ [Next]_tenantVars => TypeInv'
<1>. SUFFICES ASSUME IInv, TypeInv, [Next]_tenantVars  PROVE TypeInv'
  OBVIOUS
<1>1. CASE CLI(CLINext)
  <2>1. AccessOK' /\ TemplateTypes'
    BY <1>1 DEF CLI, TypeInv, AccessOK, TemplateTypes, templateVars
  <2>2. Counted' /\ output' \in Files
    <3>1. ASSUME NEW p \in Admins, CLIStep(p)  PROVE Counted' /\ output' \in Files
      BY <3>1, StepCounts DEF TypeInv
    <3>2. ASSUME NEW p \in Admins, NEW op \in Operations, Invoke(p, op)
          PROVE  Counted' /\ output' \in Files
      BY <3>2, OthersCount DEF TypeInv
    <3>3. ASSUME NEW p \in Admins, Interrupt(p)  PROVE Counted' /\ output' \in Files
      BY <3>3, OthersCount DEF TypeInv, Operations
    <3>4. CASE IssueSecret
      BY <3>4 DEF IssueSecret, TypeInv, Counted, Finished
    <3>. QED  BY <1>1, <3>1, <3>2, <3>3, <3>4 DEF CLI, CLINext
  <2>3. promised' \in BOOLEAN
    <3>1. promised' = promised \/ \E p \in Admins, r \in Results : \E t : Finish(p, r, t)
      BY <1>1 DEF CLI, CLINext, CLIStep, EnsureNamespace, EnsureServiceAccount,
         CreateOrUpdateRole, EnsureRoleBinding, PollSecrets, Timeout, GetToken, GoOn,
         Interrupt, Invoke, IssueSecret, Results
    <3>2. ASSUME NEW p \in Admins, NEW r, NEW t, Finish(p, r, t)  PROVE promised' \in BOOLEAN
      BY <3>2, Zenon DEF Finish
    <3>. QED  BY <3>1, <3>2 DEF TypeInv
  <2>. QED  BY <2>1, <2>2, <2>3 DEF TypeInv
<1>2. CASE Access
  BY <1>2, AccessTypes
<1>3. CASE Template(TemplateNext)
  <2>1. TemplateTypes'
    BY <1>3, TemplateNextTypes DEF Template, TypeInv
  <2>. QED  BY <1>3, <2>1 DEF Template, TypeInv, Counted, AccessOK, Finished, cliVars
<1>4. CASE MachineStep \/ UNCHANGED tenantVars
  BY <1>4 DEF MachineStep, tenantVars, cliVars, templateVars, TypeInv, Counted, AccessOK,
              TemplateTypes, Finished
<1>. QED  BY <1>1, <1>2, <1>3, <1>4 DEF Next

LEMMA TypeInvariant == Spec => []TypeInv
<1>1. Init => TypeInv
  <2>. SUFFICES ASSUME Init  PROVE TypeInv
    OBVIOUS
  <2>1. output \in Files
    <3>1. <<>> \in [1..0 -> WrittenPieces]
      OBVIOUS
    <3>2. <<>> \in Files
      BY <3>1, 0 \in 0..2 DEF Files
    <3>3. output = <<>> \/ output = Text("other", 2)
      BY DEF Init, CLIInit
    <3>. QED  BY <3>2, <3>3, TextType
  <2>2. Counted
    BY MaxInvocationsAssumption, MaxInterruptsAssumption
       DEF Init, CLIInit, Counted, Finished, NotInvoked
  <2>3. promised \in BOOLEAN
    BY Zenon DEF Init, CLIInit
  <2>4. AccessOK
    BY DEF Init, AccessInit, AccessOK
  <2>. QED  BY <2>1, <2>2, <2>3, <2>4, TemplateInitTypes DEF Init, TypeInv
<1>. QED  BY <1>1, Invariant, TypesKept, PTL DEF Spec

\* Every variable has its type, the bounds included: no more creates succeed
\* than the bound on invocations allows, and the file that get kubeconfig writes
\* never grows past the longest text.
THEOREM TenantTypes == Spec => []TypeOK
<1>1. IInv /\ TypeInv => TypeOK
  <2>. SUFFICES ASSUME IInv, TypeInv  PROVE TypeOK
    OBVIOUS
  <2>1. created \in 0..MaxInvocations
    BY MaxInvocationsAssumption DEF IInv, CLITypes, CLIInv, OneCreator, TypeInv, Counted
  <2>2. output \in UNION {[1..n -> Pieces] : n \in 0..2}
    BY DEF TypeInv, Files, WrittenPieces
  <2>3. CLITypeOK
    BY <2>1, <2>2 DEF IInv, CLITypes, TypeInv, Counted, CLITypeOK
  <2>. QED  BY <2>3 DEF TypeOK, TypeInv, AccessOK, TemplateTypes
<1>. QED  BY <1>1, Invariant, TypeInvariant, PTL

\* createKubeconfig, GenerateInfraClusterClient: for any namespaces and any number
\* of administrators, a client made from a file that get kubeconfig wrote works in
\* the tenant's namespace, and where access was reported it is granted.
THEOREM PromisedClient == Spec => PromisedClientWorks
<1>. DEFINE Step == Connected' /\ ~Connected /\ request.ref # NoRef /\ secret.namespace = NoKey
                          /\ genuine
                        => client' = TenantNamespace /\ (promised => Granted)
<1>1. PromiseKept /\ HandedOut /\ [Next]_tenantVars => [Step]_tenantVars
  <2>. SUFFICES ASSUME PromiseKept, HandedOut, Next, Connected', ~Connected,
                       request.ref # NoRef, secret.namespace = NoKey, genuine
                PROVE  client' = TenantNamespace /\ (promised => Granted)
    OBVIOUS
  <2>1. client' # client
    BY DEF Connected
  <2>2. Connect
    BY <2>1 DEF Next, CLI, Access, HandOut, Disconnect, Template, MachineStep, Connected
  <2>3. /\ client' = GenerateInfraClusterClient(request.ref, request.namespace,
                                                request.controller, secret)
        /\ client' # NoClient
    BY <2>2 DEF Connect, Connected
  <2>4. client' = secret.kubeconfig
    BY <2>3 DEF GenerateInfraClusterClient
  <2>. QED  BY <2>4 DEF HandedOut, PromiseKept
<1>2. Init => PromiseKept
  BY DEF Init, CLIInit, PromiseKept
<1>3. IInv /\ IInv' /\ PromiseKept /\ [Next]_tenantVars => PromiseKept'
  BY PromiseNext
<1>4. TypeInv /\ HandedOut /\ [Next]_tenantVars => HandedOut'
  BY HandedOutNext DEF TypeInv
<1>. QED  BY <1>1, <1>2, <1>3, <1>4, HandedOutInit, Invariant, TypeInvariant, PTL
          DEF Spec, PromisedClientWorks

\* extractCapacity, PatchCapacity and the immutability of the spec: for all specs,
\* however users and the controller interleave, what an original template
\* announces is true.
THEOREM AnnouncementIsTrue == Spec => []CapacityNeverMisleads
<1>1. Init => OriginalInv
  BY OriginalInit DEF Init
<1>2. TypeInv /\ OriginalInv /\ [Next]_tenantVars => OriginalInv'
  <2>. SUFFICES ASSUME TypeInv, OriginalInv, [Next]_tenantVars  PROVE OriginalInv'
    OBVIOUS
  <2>1. CASE Template(TemplateNext)
    BY <2>1, OriginalNext DEF Template, TypeInv
  <2>2. CASE CLI(CLINext) \/ Access \/ MachineStep \/ UNCHANGED tenantVars
    <3>1. UNCHANGED templateVars
      BY <2>2 DEF CLI, Access, HandOut, Connect, Disconnect, MachineStep, tenantVars
    <3>. QED  BY <3>1 DEF templateVars, OriginalInv
  <2>. QED  BY <2>1, <2>2 DEF Next
<1>3. TypeInv /\ OriginalInv => CapacityNeverMisleads
  BY AnnouncedIsTrue DEF TypeInv
<1>. QED  BY <1>1, <1>2, <1>3, TypeInvariant, PTL DEF Spec
=============================================================================

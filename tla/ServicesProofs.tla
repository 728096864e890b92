---------------------------- MODULE ServicesProofs ----------------------------
(***************************************************************************)
(* Proofs about what the console does with services outside it, which      *)
(* MCServices checks: the SUBNET licence, the details of a widget, the GKE *)
(* integration of tenants.                                                 *)
(***************************************************************************)
EXTENDS License, WidgetDetails, GkeIntegration, Integers, FiniteSetTheorems, TLAPS

-----------------------------------------------------------------------------
(* Proofs about License: the loop and any number of requests that read,    *)
(* renew and save the licence and give it to any number of tenants, while  *)
(* others edit them and the console restarts.                              *)

Stages ==
  {"idle", "tenant", "retrieve", "renew", "get", "write", "list", "configuration", "update", "done"}
LoopStages == {"idle", "retrieve", "renew", "get", "write", "done"}

\* failedAttempts counts the attempts at the end of the history that failed.
ControlOK ==
  /\ work \in [Processes -> Stages] /\ work["loop"] \in LoopStages
  /\ outcome \in [Requests -> {"none", "ok", "error", "lost"}]
  /\ \A r \in Requests : work[r] = "done" <=> outcome[r] # "none"
  /\ failures \in 0 .. 3 /\ recent \in Seq(BOOLEAN) /\ Len(recent) <= 3
  /\ work["loop"] = "done" <=> failures = 3
  /\ failures <= Len(recent)
  /\ \A k \in 1 .. Len(recent) : k > Len(recent) - failures => recent[k] = FALSE
  /\ failures < Len(recent) => recent[Len(recent) - failures] = TRUE

DataOK ==
  /\ issued \in 0 .. MaxLicense
  /\ stored \in Secrets
  /\ holder \in [Licensees -> Holders]
  /\ task \in [Requests -> Tasks]
  /\ license \in [Processes -> 0 .. MaxLicense]
  /\ copy \in [Processes -> [Licensees -> Contents]]
  /\ todo \in [Processes -> SUBSET Licensees] /\ current \in [Processes -> SUBSET Licensees]
  /\ restarts \in Nat
  /\ everStored \subseteq 1 .. MaxLicense
  /\ updaters \in [Licensees -> SUBSET Requests]

\* The licence a process has: there is one when it saves it, and the cluster has
\* had it when it gives it to tenants.
LicenseKnown ==
  /\ stored.license \in everStored \cup {0}
  /\ \A t \in Licensees : holder[t].license \in everStored \cup {0}
  /\ \A p \in Processes :
       /\ work[p] \in {"get", "write"} => license[p] # 0
       /\ work[p] \in {"list", "configuration", "update"} => license[p] \in everStored

\* Who has read the version there is has what others have written.
CopiesAreCurrent ==
  \A p \in Processes, t \in Licensees : p \in holder[t].readers => copy[p][t] = holder[t].content

\* A refresh has been at every tenant that it does not have to update still.
Updating(r) ==
  /\ work[r] = "update" => \E t \in Licensees : current[r] = {t}
  /\ task[r].kind = "refresh" =>
       /\ work[r] = "configuration" => \A t \in Licensees : t \in todo[r] \/ r \in updaters[t]
       /\ work[r] = "update" =>
            \A t \in Licensees : t \in todo[r] \cup current[r] \/ r \in updaters[t]
       /\ outcome[r] = "ok" => \A t \in Licensees : r \in updaters[t]

UpdatersKnown ==
  \A t \in Licensees : \A q \in updaters[t] :
    /\ work[q] \in {"configuration", "update", "done"}
    /\ updaters[t] = {q} /\ outcome[q] # "lost" => holder[t].license = license[q]

LicenseIInv ==
  /\ ControlOK /\ DataOK
  /\ LicenseKnown /\ CopiesAreCurrent
  /\ \A r \in Requests : Updating(r)
  /\ UpdatersKnown

-----------------------------------------------------------------------------
(* Where a process goes.                                                     *)

LEMMA ThenKeepsControl ==
  ASSUME ControlOK, NEW p \in Processes, NEW l \in Stages \ {"done"}, work[p] # "done", Then(p, l),
         p = "loop" => l \in LoopStages
  PROVE  ControlOK' /\ work' = [work EXCEPT ![p] = l] /\ UNCHANGED outcome
  <1>1. work' = [work EXCEPT ![p] = l] /\ UNCHANGED <<outcome, failures, recent>>
    BY DEF Then, loopVars
  <1>2. /\ work' \in [Processes -> Stages] /\ work'["loop"] \in LoopStages
        /\ \A r \in Requests : work'[r] = "done" <=> outcome[r] # "none"
        /\ work'["loop"] = "done" <=> work["loop"] = "done"
    BY <1>1 DEF ControlOK, Processes
  <1>3. ControlOK'
    <2> USE <1>1, <1>2 DEF ControlOK
    <2>1. outcome' \in [Requests -> {"none", "ok", "error", "lost"}]
      OBVIOUS
    <2>2. work'["loop"] = "done" <=> failures' = 3
      OBVIOUS
    <2> QED BY <2>1, <2>2
  <1> QED BY <1>1, <1>3

\* The history of the attempts, with one more.
LEMMA RememberedAttempts ==
  ASSUME recent \in Seq(BOOLEAN), Len(recent) <= 3, NEW ok \in BOOLEAN
  PROVE  /\ Remembered(ok) \in Seq(BOOLEAN)
         /\ Len(recent) < 3 =>
              /\ Len(Remembered(ok)) = Len(recent) + 1
              /\ Remembered(ok)[Len(recent) + 1] = ok
              /\ \A k \in 1 .. Len(recent) : Remembered(ok)[k] = recent[k]
         /\ Len(recent) = 3 =>
              /\ Len(Remembered(ok)) = 3
              /\ Remembered(ok)[3] = ok
              /\ \A k \in 1 .. 2 : Remembered(ok)[k] = recent[k + 1]
  <1> DEFINE all == Append(recent, ok)
  <1>1. /\ all \in Seq(BOOLEAN) /\ Len(all) = Len(recent) + 1 /\ Len(recent) \in Nat
        /\ all[Len(recent) + 1] = ok
        /\ \A k \in 1 .. Len(recent) : all[k] = recent[k]
    OBVIOUS
  <1>2. /\ Tail(all) \in Seq(BOOLEAN) /\ Len(Tail(all)) = Len(all) - 1
        /\ \A k \in 1 .. Len(all) - 1 : Tail(all)[k] = all[k + 1]
    BY <1>1
  <1>3. Remembered(ok) = IF Len(all) <= 3 THEN all ELSE Tail(all)
    BY DEF Remembered
  <1> HIDE DEF all
  <1>4. CASE Len(recent) < 3
    <2>1. Remembered(ok) = all
      BY <1>1, <1>3, <1>4
    <2> QED BY <1>1, <1>4, <2>1
  <1>5. CASE Len(recent) = 3
    <2>1. Remembered(ok) = Tail(all) /\ Len(all) = 4
      BY <1>1, <1>3, <1>5
    <2>2. Len(Tail(all)) = 3 /\ \A k \in 1 .. 3 : Tail(all)[k] = all[k + 1]
      <3>1. Len(all) - 1 = 3
        BY <2>1
      <3> QED BY <1>2, <3>1, Zenon
    <2>3. Tail(all)[3] = ok /\ \A k \in 1 .. 2 : Tail(all)[k] = recent[k + 1]
      <3>1. 3 \in 1 .. 3 /\ 3 + 1 = Len(recent) + 1
        BY <1>5
      <3>2. \A k \in 1 .. 2 : k \in 1 .. 3 /\ k + 1 \in 1 .. Len(recent)
        BY <1>5
      <3> QED BY <1>1, <2>2, <3>1, <3>2, Zenon
    <2>4. /\ Remembered(ok) \in Seq(BOOLEAN) /\ Len(Remembered(ok)) = 3
          /\ Remembered(ok)[3] = ok /\ \A k \in 1 .. 2 : Remembered(ok)[k] = recent[k + 1]
      BY <1>2, <2>1, <2>2, <2>3, Zenon
    <2> QED BY <1>5, <2>4
  <1>6. (Len(recent) < 3 /\ Len(recent) # 3) \/ (Len(recent) = 3 /\ ~(Len(recent) < 3))
    <2> DEFINE n == Len(recent)
    <2>1. n \in Nat /\ n <= 3
      BY <1>1
    <2> HIDE DEF n
    <2>2. (n < 3 /\ n # 3) \/ (n = 3 /\ ~(n < 3))
      BY <2>1
    <2> QED BY <2>2 DEF n
  <1> QED BY <1>4, <1>5, <1>6, Zenon

LEMMA ReturnKeepsControl ==
  ASSUME ControlOK, NEW p \in Processes, NEW ok \in BOOLEAN, work[p] # "done", Return(p, ok)
  PROVE  /\ ControlOK'
         /\ \E l \in {"idle", "done"} : work' = [work EXCEPT ![p] = l] /\ (p # "loop" => l = "done")
         /\ IF p = "loop" THEN UNCHANGED outcome
                          ELSE outcome' = [outcome EXCEPT ![p] = IF ok THEN "ok" ELSE "error"]
  <1>1. CASE p = "loop"
    <2>0. EndAttempt(ok) /\ "loop" \notin Requests
      BY <1>1, LicenseAssumption DEF Return
    <2>1. PICK l \in {"idle", "done"} :
            work' = [work EXCEPT !["loop"] = l] /\ (l = "done" <=> failures' >= 3)
      BY <2>0 DEF EndAttempt
    <2>2. UNCHANGED outcome
      BY <2>0 DEF EndAttempt
    <2>3. /\ work' \in [Processes -> Stages] /\ work'["loop"] = l
          /\ \A r \in Requests : work'[r] = work[r]
      BY <2>0, <2>1 DEF ControlOK, Processes, Stages
    <2>4. /\ recent' = Remembered(ok) /\ recent' \in Seq(BOOLEAN)
          /\ failures' = IF ok THEN 0 ELSE failures + 1
      BY <2>0, RememberedAttempts DEF EndAttempt, ControlOK
    <2>5. failures \in 0 .. 2 /\ Len(recent) \in 0 .. 3 /\ failures <= Len(recent)
      <3>1. failures # 3
        BY <1>1 DEF ControlOK
      <3>2. failures \in 0 .. 3 /\ Len(recent) <= 3 /\ failures <= Len(recent) /\ recent \in Seq(BOOLEAN)
        BY Zenon DEF ControlOK
      <3>3. Len(recent) \in 0 .. 3
        <4>1. Len(recent) \in Nat
          BY <3>2
        <4> DEFINE n == Len(recent)
        <4> HIDE DEF n
        <4>2. n \in Nat /\ n <= 3 => n \in 0 .. 3
          OBVIOUS
        <4> QED BY <3>2, <4>1, <4>2 DEF n
      <3>4. failures \in 0 .. 3 /\ failures # 3 => failures \in 0 .. 2
        OBVIOUS
      <3> QED BY <3>1, <3>2, <3>3, <3>4, Zenon
    <2>9. Len(recent) < 3 \/ Len(recent) = 3
      <3> DEFINE n == Len(recent)
      <3>1. n \in 0 .. 3
        BY <2>5
      <3> HIDE DEF n
      <3>2. n < 3 \/ n = 3
        BY <3>1
      <3> QED BY <3>2 DEF n
    <2>6. /\ failures' \in 0 .. 3 /\ Len(recent') <= 3 /\ failures' <= Len(recent')
          /\ \A k \in 1 .. Len(recent') : k > Len(recent') - failures' => recent'[k] = FALSE
          /\ failures' < Len(recent') => recent'[Len(recent') - failures'] = TRUE
      <3>1. CASE ok = TRUE
        <4>1. failures' = 0
          BY <2>4, <3>1
        <4>2. CASE Len(recent) < 3
          <5>1. Len(recent') = Len(recent) + 1 /\ recent'[Len(recent) + 1] = TRUE
            BY <2>4, <3>1, <4>2, RememberedAttempts DEF ControlOK
          <5> QED BY <2>5, <4>1, <4>2, <5>1
        <4>3. CASE Len(recent) = 3
          <5>1. Len(recent') = 3 /\ recent'[3] = TRUE
            BY <2>4, <3>1, <4>3, RememberedAttempts DEF ControlOK
          <5> QED BY <2>5, <4>1, <4>3, <5>1
        <4> QED BY <2>9, <4>2, <4>3, Zenon
      <3>2. CASE ok = FALSE
        <4>1. failures' = failures + 1
          BY <2>4, <3>2
        <4>2. CASE Len(recent) < 3
          <5>1. /\ Len(recent') = Len(recent) + 1 /\ recent'[Len(recent) + 1] = FALSE
                /\ \A k \in 1 .. Len(recent) : recent'[k] = recent[k]
            BY <2>4, <3>2, <4>2, RememberedAttempts DEF ControlOK
          <5> QED BY <2>5, <4>1, <4>2, <5>1 DEF ControlOK
        <4>3. CASE Len(recent) = 3
          <5>1. /\ Len(recent') = 3 /\ recent'[3] = FALSE
                /\ \A k \in 1 .. 2 : recent'[k] = recent[k + 1]
            BY <2>4, <3>2, <4>3, RememberedAttempts DEF ControlOK
          <5> QED BY <2>5, <4>1, <4>3, <5>1 DEF ControlOK
        <4> QED BY <2>9, <4>2, <4>3, Zenon
      <3> QED BY <3>1, <3>2
    <2>7. work'["loop"] = "done" <=> failures' = 3
      BY <2>1, <2>3, <2>6
    <2>8. ControlOK'
      <3>1. \A r \in Requests : work'[r] = "done" <=> outcome'[r] # "none"
        BY <2>2, <2>3 DEF ControlOK
      <3>2. outcome' \in [Requests -> {"none", "ok", "error", "lost"}] /\ work'["loop"] \in LoopStages
        BY <2>2, <2>3 DEF ControlOK, LoopStages
      <3> QED BY <2>3, <2>4, <2>6, <2>7, <3>1, <3>2 DEF ControlOK
    <2> QED BY <1>1, <2>1, <2>2, <2>8
  <1>2. CASE p # "loop"
    <2>1. /\ work' = [work EXCEPT ![p] = "done"] /\ p \in Requests
          /\ outcome' = [outcome EXCEPT ![p] = IF ok THEN "ok" ELSE "error"]
          /\ UNCHANGED <<failures, recent>>
      BY <1>2 DEF Return, loopVars, Processes
    <2>2. /\ work' \in [Processes -> Stages] /\ work'["loop"] = work["loop"]
          /\ outcome' \in [Requests -> {"none", "ok", "error", "lost"}]
          /\ \A r \in Requests : work'[r] = "done" <=> outcome'[r] # "none"
      BY <1>2, <2>1 DEF ControlOK, Processes, Stages
    <2>3. ControlOK'
      BY <2>1, <2>2 DEF ControlOK
    <2> QED BY <1>2, <2>1, <2>3
  <1> QED BY <1>1, <1>2

-----------------------------------------------------------------------------
(* Each action keeps the invariant.                                          *)

LEMMA FailsKeeps ==
  ASSUME LicenseIInv, NEW p \in Processes, work[p] # "done", Fails(p), UNCHANGED <<task, restarts>>
  PROVE  LicenseIInv'
  <1>1. UNCHANGED <<issued, stored, holder, everStored, updaters, license, copy, todo, current, task, restarts>>
    BY DEF Fails, cluster, local
  <1>2. PICK l \in {"idle", "done"} : work' = [work EXCEPT ![p] = l] /\ (p # "loop" => l = "done")
    BY ReturnKeepsControl DEF Fails, LicenseIInv
  <1>3. IF p = "loop" THEN UNCHANGED outcome ELSE outcome' = [outcome EXCEPT ![p] = "error"]
    BY ReturnKeepsControl DEF Fails, LicenseIInv
  <1>4. ControlOK'
    BY ReturnKeepsControl DEF Fails, LicenseIInv
  <1>5. DataOK'
    BY <1>1 DEF LicenseIInv, DataOK
  <1>6. LicenseKnown'
    BY <1>1, <1>2 DEF LicenseIInv, ControlOK, LicenseKnown
  <1>7. CopiesAreCurrent'
    BY <1>1 DEF LicenseIInv, CopiesAreCurrent
  <1>8. \A r \in Requests : Updating(r)'
    BY <1>1, <1>2, <1>3, LicenseAssumption DEF LicenseIInv, ControlOK, Updating, Processes
  <1>9. UpdatersKnown'
    BY <1>1, <1>2, <1>3, LicenseAssumption DEF LicenseIInv, ControlOK, DataOK, UpdatersKnown, Processes
  <1> QED BY <1>4, <1>5, <1>6, <1>7, <1>8, <1>9 DEF LicenseIInv

LEMMA BeginKeeps ==
  ASSUME LicenseIInv, NEW p \in Processes, Begin(p), UNCHANGED <<task, restarts>>
  PROVE  LicenseIInv'
  <1>1. PICK l \in {"retrieve", "renew", "tenant"} : Then(p, l) /\ (p = "loop" => l = "retrieve")
    BY DEF Begin
  <1>2. UNCHANGED <<issued, stored, holder, everStored, updaters, license, copy, todo, current, task, restarts>>
    BY DEF Begin, cluster, local
  <1>3. ControlOK' /\ work' = [work EXCEPT ![p] = l] /\ UNCHANGED outcome
    BY <1>1, ThenKeepsControl DEF Begin, LicenseIInv, Stages, LoopStages
  <1>4. DataOK'
    BY <1>2 DEF LicenseIInv, DataOK
  <1>5. LicenseKnown'
    BY <1>1, <1>2, <1>3 DEF LicenseIInv, ControlOK, LicenseKnown
  <1>6. CopiesAreCurrent'
    BY <1>2 DEF LicenseIInv, CopiesAreCurrent
  <1>7. \A r \in Requests : Updating(r)'
    BY <1>1, <1>2, <1>3 DEF LicenseIInv, ControlOK, Updating, Processes
  <1>8. UpdatersKnown'
    BY <1>1, <1>2, <1>3 DEF LicenseIInv, ControlOK, DataOK, UpdatersKnown, Processes, Begin
  <1> QED BY <1>3, <1>4, <1>5, <1>6, <1>7, <1>8 DEF LicenseIInv

LEMMA RetrieveLicenseKeeps ==
  ASSUME LicenseIInv, NEW p \in Processes, RetrieveLicense(p), UNCHANGED <<task, restarts>>
  PROVE  LicenseIInv'
  <1>0. work[p] = "retrieve"
    BY DEF RetrieveLicense
  <1>1. CASE Fails(p)
    BY <1>0, <1>1, FailsKeeps
  <1>2. ASSUME stored.license # 0, license' = [license EXCEPT ![p] = stored.license],
               IF p \in Requests /\ task[p].kind = "activate"
                 THEN todo' = [todo EXCEPT ![p] = {task[p].tenant}] /\ Then(p, "configuration")
                 ELSE Then(p, "renew") /\ UNCHANGED todo,
               UNCHANGED <<cluster, copy, current>>
        PROVE  LicenseIInv'
    <2>1. UNCHANGED <<issued, stored, holder, everStored, updaters, copy, current, task, restarts>>
      BY <1>2 DEF cluster
    <2>2. PICK l \in {"configuration", "renew"} :
            Then(p, l) /\ (l = "configuration" <=> p \in Requests /\ task[p].kind = "activate")
      BY <1>2
    <2>3. ControlOK' /\ work' = [work EXCEPT ![p] = l] /\ UNCHANGED outcome
      BY <1>0, <2>2, ThenKeepsControl, LicenseAssumption DEF LicenseIInv, Stages, LoopStages
    <2>4. DataOK'
      <3>1. license' \in [Processes -> 0 .. MaxLicense]
        BY <1>2 DEF LicenseIInv, DataOK, Secrets
      <3>2. p \in Requests => task[p].tenant \in Licensees
        BY DEF LicenseIInv, DataOK, Tasks
      <3>3. todo' \in [Processes -> SUBSET Licensees]
        BY <1>2, <3>2 DEF LicenseIInv, DataOK
      <3> QED BY <2>1, <3>1, <3>3 DEF LicenseIInv, DataOK
    <2>5. LicenseKnown'
      BY <1>2, <2>1, <2>2, <2>3 DEF LicenseIInv, ControlOK, DataOK, LicenseKnown
    <2>6. CopiesAreCurrent'
      BY <2>1 DEF LicenseIInv, CopiesAreCurrent
    <2>7. \A r \in Requests : Updating(r)'
      BY <1>0, <1>2, <2>1, <2>2, <2>3 DEF LicenseIInv, ControlOK, DataOK, Updating, Processes
    <2>8. UpdatersKnown'
      <3>1. \A t \in Licensees : \A q \in updaters[t] : q # p /\ q \in Processes
        BY <1>0 DEF LicenseIInv, DataOK, UpdatersKnown, Processes
      <3>2. \A q \in Processes : q # p => work'[q] = work[q] /\ license'[q] = license[q]
        BY <1>2, <2>1, <2>2, <2>3 DEF LicenseIInv, ControlOK, DataOK
      <3> QED BY <1>2, <2>1, <2>2, <2>3, <3>1, <3>2 DEF LicenseIInv, UpdatersKnown
    <2> QED BY <2>3, <2>4, <2>5, <2>6, <2>7, <2>8 DEF LicenseIInv
  <1> QED BY <1>1, <1>2 DEF RetrieveLicense

LEMMA RenewLicenseKeeps ==
  ASSUME LicenseIInv, NEW p \in Processes, RenewLicense(p), UNCHANGED <<task, restarts>>
  PROVE  LicenseIInv'
  <1>0. work[p] = "renew"
    BY DEF RenewLicense
  <1>1. CASE Fails(p)
    BY <1>0, <1>1, FailsKeeps
  <1>2. ASSUME NEW n \in 1 .. MaxLicense, issued' = n, license' = [license EXCEPT ![p] = n], Then(p, "get"),
               UNCHANGED <<stored, holder, everStored, updaters, copy, todo, current>>
        PROVE  LicenseIInv'
    <2>1. ControlOK' /\ work' = [work EXCEPT ![p] = "get"] /\ UNCHANGED outcome
      BY <1>0, <1>2, ThenKeepsControl DEF LicenseIInv, Stages, LoopStages
    <2>2. n \in 0 .. MaxLicense /\ n # 0
      BY LicenseAssumption
    <2>3. DataOK'
      BY <1>2, <2>2 DEF LicenseIInv, DataOK
    <2>4. LicenseKnown'
      BY <1>2, <2>1, <2>2 DEF LicenseIInv, ControlOK, DataOK, LicenseKnown
    <2>5. CopiesAreCurrent'
      BY <1>2 DEF LicenseIInv, CopiesAreCurrent
    <2>6. \A r \in Requests : Updating(r)'
      BY <1>0, <1>2, <2>1 DEF LicenseIInv, ControlOK, DataOK, Updating, Processes
    <2>7. UpdatersKnown'
      <3>1. \A t \in Licensees : \A q \in updaters[t] : q # p /\ q \in Processes
        BY <1>0 DEF LicenseIInv, DataOK, UpdatersKnown, Processes
      <3>2. \A q \in Processes : q # p => work'[q] = work[q] /\ license'[q] = license[q]
        BY <1>2, <2>1 DEF LicenseIInv, ControlOK, DataOK
      <3> QED BY <1>2, <2>1, <3>1, <3>2 DEF LicenseIInv, UpdatersKnown
    <2> QED BY <2>1, <2>3, <2>4, <2>5, <2>6, <2>7 DEF LicenseIInv
  <1> QED BY <1>1, <1>2 DEF RenewLicense

LEMMA GetSecretKeeps ==
  ASSUME LicenseIInv, NEW p \in Processes, GetSecret(p), UNCHANGED <<task, restarts>>
  PROVE  LicenseIInv'
  <1>0. work[p] = "get"
    BY DEF GetSecret
  <1>1. CASE Fails(p)
    BY <1>0, <1>1, FailsKeeps
  <1>2. ASSUME stored' = [stored EXCEPT !.readers = @ \cup {p}], Then(p, "write"),
               UNCHANGED <<issued, holder, everStored, updaters, local>>
        PROVE  LicenseIInv'
    <2>1. ControlOK' /\ work' = [work EXCEPT ![p] = "write"] /\ UNCHANGED outcome
      BY <1>0, <1>2, ThenKeepsControl DEF LicenseIInv, Stages, LoopStages
    <2>2. UNCHANGED <<issued, holder, everStored, updaters, license, copy, todo, current, task, restarts>>
      BY <1>2 DEF local
    <2>3. DataOK' /\ stored'.license = stored.license
      <3>1. stored' \in Secrets /\ stored'.license = stored.license
        BY <1>2 DEF LicenseIInv, DataOK, Secrets
      <3> QED BY <2>2, <3>1 DEF LicenseIInv, DataOK
    <2>4. LicenseKnown'
      BY <1>0, <2>1, <2>2, <2>3 DEF LicenseIInv, ControlOK, LicenseKnown
    <2>5. CopiesAreCurrent'
      BY <2>2 DEF LicenseIInv, CopiesAreCurrent
    <2>6. \A r \in Requests : Updating(r)'
      BY <1>0, <2>1, <2>2 DEF LicenseIInv, ControlOK, Updating, Processes
    <2>7. UpdatersKnown'
      BY <1>0, <2>1, <2>2 DEF LicenseIInv, ControlOK, DataOK, UpdatersKnown, Processes
    <2> QED BY <2>1, <2>3, <2>4, <2>5, <2>6, <2>7 DEF LicenseIInv
  <1> QED BY <1>1, <1>2 DEF GetSecret

LEMMA WriteSecretKeeps ==
  ASSUME LicenseIInv, NEW p \in Processes, WriteSecret(p), UNCHANGED <<task, restarts>>
  PROVE  LicenseIInv'
  <1>0. work[p] = "write"
    BY DEF WriteSecret
  <1>1. CASE Fails(p)
    BY <1>0, <1>1, FailsKeeps
  <1>2. ASSUME SecretWritten(p), UNCHANGED local,
               \/ p \in Requests /\ task[p].kind = "refresh" /\ Then(p, "list")
               \/ ~(p \in Requests /\ task[p].kind = "refresh") /\ Return(p, TRUE)
               \/ Return(p, FALSE)
        PROVE  LicenseIInv'
    <2>1. UNCHANGED <<issued, holder, updaters, license, copy, todo, current, task, restarts>>
      BY <1>2 DEF SecretWritten, local
    <2>2. /\ ControlOK'
          /\ \E l \in {"idle", "list", "done"} :
               work' = [work EXCEPT ![p] = l] /\ (p # "loop" => l \in {"list", "done"})
          /\ \/ UNCHANGED outcome
             \/ /\ p \in Requests
                /\ \/ outcome' = [outcome EXCEPT ![p] = "error"]
                   \/ task[p].kind # "refresh" /\ outcome' = [outcome EXCEPT ![p] = "ok"]
      <3>1. CASE p \in Requests /\ Then(p, "list")
        BY <1>0, <3>1, ThenKeepsControl, LicenseAssumption DEF LicenseIInv, Stages, LoopStages
      <3>2. ASSUME NEW ok \in BOOLEAN, Return(p, ok), ok => ~(p \in Requests /\ task[p].kind = "refresh")
            PROVE  <2>2!:
        BY <1>0, <3>2, ReturnKeepsControl, LicenseAssumption DEF LicenseIInv, Processes
      <3> QED BY <1>2, <3>1, <3>2
    <2>3. /\ stored'.license = license[p] /\ license[p] \in 1 .. MaxLicense
          /\ stored' \in Secrets /\ everStored' = everStored \cup {license[p]}
      BY <1>0, <1>2, LicenseAssumption DEF SecretWritten, LicenseIInv, LicenseKnown, DataOK, Secrets
    <2>4. DataOK'
      BY <2>1, <2>3 DEF LicenseIInv, DataOK
    <2>5. LicenseKnown'
      BY <2>1, <2>2, <2>3 DEF LicenseIInv, ControlOK, LicenseKnown
    <2>6. CopiesAreCurrent'
      BY <2>1 DEF LicenseIInv, CopiesAreCurrent
    <2>7. \A r \in Requests : Updating(r)'
      BY <1>0, <2>1, <2>2 DEF LicenseIInv, ControlOK, Updating, Processes
    <2>8. UpdatersKnown'
      BY <1>0, <2>1, <2>2 DEF LicenseIInv, ControlOK, DataOK, UpdatersKnown, Processes
    <2> QED BY <2>2, <2>4, <2>5, <2>6, <2>7, <2>8 DEF LicenseIInv
  <1> QED BY <1>1, <1>2 DEF WriteSecret

\* Reading tenants changes nothing that others see but who has read them.
LEMMA ReadKeeps ==
  ASSUME DataOK, CopiesAreCurrent, NEW p \in Processes, NEW ts \in SUBSET Licensees, Read(p, ts)
  PROVE  /\ UNCHANGED <<issued, stored, everStored, updaters, license>>
         /\ holder' \in [Licensees -> Holders]
         /\ copy' \in [Processes -> [Licensees -> Contents]]
         /\ \A t \in Licensees : holder'[t].license = holder[t].license /\ holder'[t].content = holder[t].content
         /\ CopiesAreCurrent'
  <1> DEFINE H(t) == [holder[t] EXCEPT !.readers = @ \cup {p}]
  <1>1. \A t \in Licensees :
          /\ H(t) \in Holders /\ H(t).license = holder[t].license /\ H(t).content = holder[t].content
          /\ H(t).readers = holder[t].readers \cup {p}
    BY DEF DataOK, Holders
  <1>2. holder' = [t \in Licensees |-> IF t \in ts THEN H(t) ELSE holder[t]]
    BY DEF Read
  <1> HIDE DEF H
  <1>3. copy'[p] = [t \in Licensees |-> IF t \in ts THEN holder[t].content ELSE copy[p][t]]
        /\ \A q \in Processes \ {p} : copy'[q] = copy[q]
    BY DEF Read, DataOK
  <1>4. copy' \in [Processes -> [Licensees -> Contents]]
    <2>1. [t \in Licensees |-> IF t \in ts THEN holder[t].content ELSE copy[p][t]] \in [Licensees -> Contents]
      BY DEF DataOK, Holders
    <2> QED BY <2>1 DEF Read, DataOK
  <1>5. \A t \in Licensees : holder'[t] = IF t \in ts THEN H(t) ELSE holder[t]
    BY <1>2
  <1>6. CopiesAreCurrent'
    BY <1>1, <1>3, <1>5 DEF CopiesAreCurrent
  <1> QED BY <1>1, <1>2, <1>4, <1>5, <1>6 DEF Read, DataOK

LEMMA GetTenantOfKeeps ==
  ASSUME LicenseIInv, NEW p \in Processes, GetTenantOf(p), UNCHANGED <<task, restarts>>
  PROVE  LicenseIInv'
  <1>0. work[p] = "tenant"
    BY DEF GetTenantOf
  <1>1. CASE Fails(p)
    BY <1>0, <1>1, FailsKeeps
  <1>2. ASSUME Read(p, {task[p].tenant}), Then(p, "retrieve"), UNCHANGED <<todo, current>>
        PROVE  LicenseIInv'
    <2>0. p \in Requests /\ {task[p].tenant} \in SUBSET Licensees
      BY <1>0 DEF LicenseIInv, ControlOK, DataOK, Tasks, Processes, LoopStages
    <2>1. /\ UNCHANGED <<issued, stored, everStored, updaters, license>>
          /\ holder' \in [Licensees -> Holders] /\ copy' \in [Processes -> [Licensees -> Contents]]
          /\ \A t \in Licensees : holder'[t].license = holder[t].license
          /\ CopiesAreCurrent'
      BY <1>2, <2>0, ReadKeeps DEF LicenseIInv
    <2>2. ControlOK' /\ work' = [work EXCEPT ![p] = "retrieve"] /\ UNCHANGED outcome
      BY <1>0, <1>2, ThenKeepsControl DEF LicenseIInv, Stages, LoopStages
    <2>3. DataOK'
      BY <1>2, <2>1 DEF LicenseIInv, DataOK
    <2>4. LicenseKnown'
      BY <2>1, <2>2 DEF LicenseIInv, ControlOK, LicenseKnown
    <2>5. \A r \in Requests : Updating(r)'
      BY <1>0, <1>2, <2>1, <2>2 DEF LicenseIInv, ControlOK, Updating, Processes
    <2>6. UpdatersKnown'
      BY <1>0, <2>1, <2>2 DEF LicenseIInv, ControlOK, DataOK, UpdatersKnown, Processes
    <2> QED BY <2>1, <2>2, <2>3, <2>4, <2>5, <2>6 DEF LicenseIInv
  <1> QED BY <1>1, <1>2 DEF GetTenantOf

LEMMA ListTenantsKeeps ==
  ASSUME LicenseIInv, NEW p \in Processes, ListTenants(p), UNCHANGED <<task, restarts>>
  PROVE  LicenseIInv'
  <1>0. work[p] = "list" /\ p # "loop"
    BY DEF ListTenants, LicenseIInv, ControlOK, LoopStages
  <1>1. CASE Fails(p)
    BY <1>0, <1>1, FailsKeeps
  <1>2. ASSUME Read(p, Licensees), todo' = [todo EXCEPT ![p] = Licensees], Then(p, "configuration"),
               UNCHANGED current
        PROVE  LicenseIInv'
    <2>0. Licensees \in SUBSET Licensees
      OBVIOUS
    <2>1. /\ UNCHANGED <<issued, stored, everStored, updaters, license>>
          /\ holder' \in [Licensees -> Holders] /\ copy' \in [Processes -> [Licensees -> Contents]]
          /\ \A t \in Licensees : holder'[t].license = holder[t].license
          /\ CopiesAreCurrent'
      BY <1>2, <2>0, ReadKeeps DEF LicenseIInv
    <2>2. ControlOK' /\ work' = [work EXCEPT ![p] = "configuration"] /\ UNCHANGED outcome
      BY <1>0, <1>2, ThenKeepsControl DEF LicenseIInv, Stages
    <2>3. DataOK'
      <3>1. todo' \in [Processes -> SUBSET Licensees]
        BY <1>2, <2>0 DEF LicenseIInv, DataOK
      <3> QED BY <1>2, <2>1, <3>1 DEF LicenseIInv, DataOK
    <2>4. LicenseKnown'
      BY <1>0, <2>1, <2>2 DEF LicenseIInv, ControlOK, LicenseKnown
    <2>5. \A r \in Requests : Updating(r)'
      BY <1>0, <1>2, <2>1, <2>2 DEF LicenseIInv, ControlOK, DataOK, Updating, Processes
    <2>6. UpdatersKnown'
      BY <1>0, <2>1, <2>2 DEF LicenseIInv, ControlOK, DataOK, UpdatersKnown, Processes
    <2> QED BY <2>1, <2>2, <2>3, <2>4, <2>5, <2>6 DEF LicenseIInv
  <1> QED BY <1>1, <1>2 DEF ListTenants

LEMMA ReadConfigurationKeeps ==
  ASSUME LicenseIInv, NEW p \in Processes, ReadConfiguration(p), UNCHANGED <<task, restarts>>
  PROVE  LicenseIInv'
  <1>0. work[p] = "configuration" /\ p # "loop"
    BY DEF ReadConfiguration, LicenseIInv, ControlOK, LoopStages
  <1>1. CASE Fails(p)
    BY <1>0, <1>1, FailsKeeps
  <1>2. ASSUME NEW t \in todo[p], current' = [current EXCEPT ![p] = {t}], todo' = [todo EXCEPT ![p] = @ \ {t}],
               Read(p, {t} \cap Configured), Then(p, "update")
        PROVE  LicenseIInv'
    <2>0. t \in Licensees /\ {t} \in SUBSET Licensees /\ ({t} \cap Configured) \in SUBSET Licensees
      BY DEF LicenseIInv, DataOK
    <2>1. /\ UNCHANGED <<issued, stored, everStored, updaters, license>>
          /\ holder' \in [Licensees -> Holders] /\ copy' \in [Processes -> [Licensees -> Contents]]
          /\ \A u \in Licensees : holder'[u].license = holder[u].license
          /\ CopiesAreCurrent'
      BY <1>2, <2>0, ReadKeeps DEF LicenseIInv
    <2>2. ControlOK' /\ work' = [work EXCEPT ![p] = "update"] /\ UNCHANGED outcome
      BY <1>0, <1>2, ThenKeepsControl DEF LicenseIInv, Stages
    <2>3. DataOK'
      <3>1. todo' \in [Processes -> SUBSET Licensees] /\ current' \in [Processes -> SUBSET Licensees]
        BY <1>2, <2>0 DEF LicenseIInv, DataOK
      <3> QED BY <2>1, <3>1 DEF LicenseIInv, DataOK
    <2>4. LicenseKnown'
      BY <1>0, <2>1, <2>2 DEF LicenseIInv, ControlOK, LicenseKnown
    <2>5. \A r \in Requests : Updating(r)'
      <3>1. ASSUME NEW r \in Requests, r # p PROVE Updating(r)'
        BY <1>2, <2>1, <2>2, <3>1 DEF LicenseIInv, ControlOK, DataOK, Updating, Processes
      <3>2. ASSUME p \in Requests PROVE Updating(p)'
        <4>1. current'[p] = {t} /\ todo'[p] = todo[p] \ {t} /\ work'[p] = "update"
          BY <1>2, <2>2 DEF LicenseIInv, ControlOK, DataOK
        <4>2. outcome'[p] = outcome[p] /\ updaters' = updaters
          BY <2>1, <2>2
        <4>3. task[p].kind = "refresh" => \A u \in Licensees : u \in todo'[p] \cup current'[p] \/ p \in updaters[u]
          BY <1>0, <3>2, <4>1 DEF LicenseIInv, Updating
        <4> QED BY <2>0, <3>2, <4>1, <4>2, <4>3 DEF LicenseIInv, Updating
      <3> QED BY <3>1, <3>2
    <2>6. UpdatersKnown'
      BY <1>0, <2>1, <2>2 DEF LicenseIInv, ControlOK, DataOK, UpdatersKnown, Processes
    <2> QED BY <2>1, <2>2, <2>3, <2>4, <2>5, <2>6 DEF LicenseIInv
  <1> QED BY <1>1, <1>2 DEF ReadConfiguration

LEMMA UpdateHolderKeeps ==
  ASSUME LicenseIInv, NEW p \in Processes, UpdateHolder(p), UNCHANGED <<task, restarts>>
  PROVE  LicenseIInv'
  <1>0. work[p] = "update" /\ p # "loop" /\ p \in Requests
    BY DEF UpdateHolder, LicenseIInv, ControlOK, LoopStages, Processes
  <1>1. CASE Fails(p)
    BY <1>0, <1>1, FailsKeeps
  <1>2. ASSUME NEW t \in current[p], HolderWritten(p, t), UNCHANGED local,
               \/ todo[p] = {} /\ Return(p, TRUE)
               \/ Then(p, "configuration")
               \/ Return(p, FALSE)
        PROVE  LicenseIInv'
    <2>0. t \in Licensees /\ current[p] = {t}
      BY <1>0 DEF LicenseIInv, DataOK, Updating
    <2>1. UNCHANGED <<issued, stored, everStored, license, copy, todo, current, task, restarts>>
      BY <1>2 DEF HolderWritten, Written, local
    <2>2. /\ holder' = [holder EXCEPT ![t] = [license |-> license[p], content |-> Regenerated(t, copy[p][t]), readers |-> {}]]
          /\ updaters' = [updaters EXCEPT ![t] = @ \cup {p}]
      BY <1>2 DEF HolderWritten, Written
    <2>3. /\ ControlOK'
          /\ \E l \in {"configuration", "done"} : work' = [work EXCEPT ![p] = l]
          /\ \/ UNCHANGED outcome
             \/ outcome' = [outcome EXCEPT ![p] = "error"]
             \/ todo[p] = {} /\ outcome' = [outcome EXCEPT ![p] = "ok"]
      <3>1. CASE Then(p, "configuration")
        BY <1>0, <3>1, ThenKeepsControl DEF LicenseIInv, Stages
      <3>2. ASSUME NEW ok \in BOOLEAN, Return(p, ok), ok => todo[p] = {} PROVE <2>3!:
        BY <1>0, <3>2, ReturnKeepsControl DEF LicenseIInv
      <3> QED BY <1>2, <3>1, <3>2
    <2>4. DataOK'
      <3>1. holder' \in [Licensees -> Holders]
        <4>1. Regenerated(t, copy[p][t]) \in Contents
          <5>1. copy[p][t] \in Contents
            BY <2>0 DEF LicenseIInv, DataOK
          <5>2. 0 \in 0 .. MaxEdits
            BY LicenseAssumption
          <5> QED BY <5>1, <5>2 DEF Regenerated, Contents
        <4>2. [license |-> license[p], content |-> Regenerated(t, copy[p][t]), readers |-> {}] \in Holders
          BY <2>0, <4>1 DEF LicenseIInv, DataOK, Holders
        <4> QED BY <2>2, <4>2 DEF LicenseIInv, DataOK
      <3>2. updaters' \in [Licensees -> SUBSET Requests]
        BY <1>0, <2>2 DEF LicenseIInv, DataOK
      <3> QED BY <2>1, <3>1, <3>2 DEF LicenseIInv, DataOK
    <2>5. /\ holder'[t].license = license[p] /\ holder'[t].readers = {}
          /\ \A u \in Licensees \ {t} : holder'[u] = holder[u] /\ updaters'[u] = updaters[u]
          /\ updaters'[t] = updaters[t] \cup {p}
      BY <2>0, <2>2 DEF LicenseIInv, DataOK
    <2>6. LicenseKnown'
      <3>1. license[p] \in everStored
        BY <1>0 DEF LicenseIInv, LicenseKnown
      <3>2. \A u \in Licensees : holder'[u].license \in everStored \cup {0}
        BY <2>5, <3>1 DEF LicenseIInv, LicenseKnown
      <3> QED BY <1>0, <2>1, <2>3, <3>2 DEF LicenseIInv, ControlOK, LicenseKnown
    <2>7. CopiesAreCurrent'
      BY <2>0, <2>1, <2>5 DEF LicenseIInv, CopiesAreCurrent
    <2>8. \A r \in Requests : Updating(r)'
      <3>1. ASSUME NEW r \in Requests, r # p PROVE Updating(r)'
        BY <2>1, <2>2, <2>3, <3>1 DEF LicenseIInv, ControlOK, DataOK, Updating, Processes
      <3>2. Updating(p)'
        <4>1. \A u \in Licensees : p \in updaters[u] => p \in updaters'[u]
          BY <2>0, <2>5
        <4>2. p \in updaters'[t] /\ current[p] = {t} /\ todo' = todo /\ current' = current /\ task' = task
          BY <2>0, <2>1, <2>5
        <4>3. task[p].kind = "refresh" => \A u \in Licensees : u \in todo[p] \/ p \in updaters'[u]
          BY <1>0, <4>1, <4>2 DEF LicenseIInv, Updating
        <4>4. work'[p] # "update"
          BY <1>0, <2>3 DEF LicenseIInv, ControlOK
        <4>5. outcome'[p] = "ok" => todo[p] = {}
          BY <1>0, <2>3 DEF LicenseIInv, ControlOK
        <4> QED BY <4>2, <4>3, <4>4, <4>5 DEF Updating
      <3> QED BY <3>1, <3>2
    <2>9. UpdatersKnown'
      <3>1. ASSUME NEW u \in Licensees, NEW q \in updaters'[u]
            PROVE  work'[q] \in {"configuration", "update", "done"}
        <4>1. q = p \/ (q \in Processes /\ q \in updaters[u])
          BY <2>0, <2>5 DEF LicenseIInv, DataOK, Processes
        <4> QED BY <1>0, <2>3, <4>1 DEF LicenseIInv, ControlOK, UpdatersKnown
      <3>2. ASSUME NEW u \in Licensees, NEW q \in updaters'[u], updaters'[u] = {q}, outcome'[q] # "lost"
            PROVE  holder'[u].license = license'[q]
        <4>1. CASE u = t
          BY <2>1, <2>5, <3>2, <4>1
        <4>2. CASE u # t
          <5>1. updaters[u] = {q} /\ q \in updaters[u] /\ q \in Requests
            BY <2>5, <3>2, <4>2 DEF LicenseIInv, DataOK
          <5>2. outcome[q] # "lost"
            BY <1>0, <2>3, <3>2, <5>1 DEF LicenseIInv, ControlOK
          <5> QED BY <2>1, <2>5, <4>2, <5>1, <5>2 DEF LicenseIInv, UpdatersKnown
        <4> QED BY <4>1, <4>2
      <3> QED BY <3>1, <3>2 DEF UpdatersKnown
    <2> QED BY <2>3, <2>4, <2>6, <2>7, <2>8, <2>9 DEF LicenseIInv
  <1> QED BY <1>1, <1>2 DEF UpdateHolder

\* An edit adds to the entries or to the rest, and takes from neither.
LEMMA EditedContents ==
  ASSUME NEW t, NEW c \in Contents, c.entries + c.rest < MaxEdits, NEW d \in Edited(t, c)
  PROVE  /\ d \in Contents
         /\ d.entries >= c.entries /\ d.rest >= c.rest
  <1> DEFINE e == c.entries + 1
             f == c.rest + 1
  <1>1. /\ c.entries \in 0 .. MaxEdits /\ c.rest \in 0 .. MaxEdits
        /\ e \in 0 .. MaxEdits /\ f \in 0 .. MaxEdits /\ e >= c.entries /\ f >= c.rest
    BY LicenseAssumption DEF Contents
  <1>2. d = [c EXCEPT !.entries = e] \/ d = [c EXCEPT !.rest = f]
    BY DEF Edited
  <1>3. c.entries >= c.entries /\ c.rest >= c.rest
    BY LicenseAssumption DEF Contents
  <1> HIDE DEF e, f
  <1> QED BY <1>1, <1>2, <1>3 DEF Contents

LEMMA EditTenantKeeps ==
  ASSUME LicenseIInv, NEW t \in Licensees, EditTenant(t)
  PROVE  LicenseIInv'
  <1>1. UNCHANGED <<issued, stored, everStored, updaters, task, work, license, copy, todo, current, outcome,
                    failures, recent, restarts>>
    BY DEF EditTenant, local, loopVars
  <1>2. /\ holder' \in [Licensees -> Holders] /\ holder'[t].readers = {} /\ holder'[t].license = holder[t].license
        /\ \A u \in Licensees \ {t} : holder'[u] = holder[u]
    <2>1. PICK c \in Edited(t, holder[t].content) :
            holder' = [holder EXCEPT ![t] = [license |-> holder[t].license, content |-> c, readers |-> {}]]
      BY DEF EditTenant
    <2>2. c \in Contents
      BY EditedContents DEF LicenseIInv, DataOK, Holders, EditTenant
    <2>3. [license |-> holder[t].license, content |-> c, readers |-> {}] \in Holders
      BY <2>2 DEF LicenseIInv, DataOK, Holders
    <2> QED BY <2>1, <2>3 DEF LicenseIInv, DataOK, Holders
  <1>3. ControlOK'
    BY <1>1 DEF LicenseIInv, ControlOK
  <1>4. DataOK'
    BY <1>1, <1>2 DEF LicenseIInv, DataOK
  <1>5. LicenseKnown'
    BY <1>1, <1>2 DEF LicenseIInv, LicenseKnown
  <1>6. CopiesAreCurrent'
    BY <1>1, <1>2 DEF LicenseIInv, CopiesAreCurrent
  <1>7. \A r \in Requests : Updating(r)'
    BY <1>1 DEF LicenseIInv, Updating
  <1>8. UpdatersKnown'
    BY <1>1, <1>2 DEF LicenseIInv, UpdatersKnown
  <1> QED BY <1>3, <1>4, <1>5, <1>6, <1>7, <1>8 DEF LicenseIInv

\* What a request that the restart ends had in hand is of no account any more.
LEMMA RestartConsoleKeeps ==
  ASSUME LicenseIInv, RestartConsole
  PROVE  LicenseIInv'
  <1>1. /\ work' = [p \in Processes |-> IF p = "loop" \/ work[p] = "idle" THEN "idle" ELSE "done"]
        /\ outcome' = [r \in Requests |-> IF work[r] \in {"idle", "done"} THEN outcome[r] ELSE "lost"]
        /\ license' = [p \in Processes |-> IF p \in Requests /\ work[p] = "done" THEN license[p] ELSE 0]
        /\ todo' = [p \in Processes |-> {}] /\ current' = [p \in Processes |-> {}]
        /\ copy' = [p \in Processes |-> [t \in Licensees |-> Unedited]]
        /\ failures' = 0 /\ recent' = <<>>
        /\ UNCHANGED <<issued, everStored, updaters, task>>
    BY DEF RestartConsole
  <1>2. "loop" \in Processes /\ "loop" \notin Requests /\ \A r \in Requests : r \in Processes
    BY LicenseAssumption DEF Processes
  <1>3. /\ stored' \in Secrets /\ stored'.license = stored.license
        /\ holder' \in [Licensees -> Holders]
        /\ \A t \in Licensees : holder'[t].license = holder[t].license /\ holder'[t].readers = {}
    <2>1. {} \in SUBSET Processes
      OBVIOUS
    <2>2. stored' = [stored EXCEPT !.readers = {}]
          /\ holder' = [t \in Licensees |-> [holder[t] EXCEPT !.readers = {}]]
      BY DEF RestartConsole
    <2>3. \A t \in Licensees : [holder[t] EXCEPT !.readers = {}] \in Holders
      BY <2>1 DEF LicenseIInv, DataOK, Holders
    <2> QED BY <2>1, <2>2, <2>3 DEF LicenseIInv, DataOK, Secrets, Holders
  <1>4. ControlOK'
    <2>1. work' \in [Processes -> Stages] /\ work'["loop"] = "idle"
      BY <1>1, <1>2 DEF Stages
    <2>2. outcome' \in [Requests -> {"none", "ok", "error", "lost"}]
      BY <1>1 DEF LicenseIInv, ControlOK
    <2>3. \A r \in Requests : work'[r] = "done" <=> outcome'[r] # "none"
      BY <1>1, <1>2 DEF LicenseIInv, ControlOK
    <2>4. recent' \in Seq(BOOLEAN) /\ Len(recent') = 0 /\ failures' = 0
      BY <1>1
    <2> QED BY <2>1, <2>2, <2>3, <2>4 DEF ControlOK, LoopStages
  <1>5. DataOK'
    <2>1. license' \in [Processes -> 0 .. MaxLicense]
      BY <1>1, LicenseAssumption DEF LicenseIInv, DataOK
    <2>2. copy' \in [Processes -> [Licensees -> Contents]]
      BY <1>1, LicenseAssumption DEF Unedited, Contents
    <2>3. todo' \in [Processes -> SUBSET Licensees] /\ current' \in [Processes -> SUBSET Licensees]
      BY <1>1
    <2>4. restarts' \in Nat
      BY DEF RestartConsole, LicenseIInv, DataOK
    <2> QED BY <1>1, <1>3, <2>1, <2>2, <2>3, <2>4 DEF LicenseIInv, DataOK
  <1>6. LicenseKnown'
    BY <1>1, <1>3 DEF LicenseIInv, LicenseKnown
  <1>7. CopiesAreCurrent'
    BY <1>3 DEF CopiesAreCurrent
  <1>8. \A r \in Requests : Updating(r)'
    BY <1>1, <1>2 DEF LicenseIInv, ControlOK, Updating
  <1>9. UpdatersKnown'
    <2>1. \A t \in Licensees : \A q \in updaters[t] :
            /\ q \in Requests /\ work'[q] = "done"
            /\ outcome'[q] # "lost" => work[q] = "done" /\ outcome'[q] = outcome[q] /\ license'[q] = license[q]
      BY <1>1, <1>2 DEF LicenseIInv, ControlOK, DataOK, UpdatersKnown
    <2>2. ASSUME NEW t \in Licensees, NEW q \in updaters[t], updaters[t] = {q}, outcome'[q] # "lost"
          PROVE  holder'[t].license = license'[q]
      <3>1. outcome[q] # "lost" /\ license'[q] = license[q]
        BY <2>1, <2>2
      <3>2. holder[t].license = license[q]
        BY <2>2, <3>1 DEF LicenseIInv, UpdatersKnown
      <3> QED BY <1>3, <3>1, <3>2
    <2> QED BY <1>1, <2>1, <2>2 DEF UpdatersKnown
  <1> QED BY <1>4, <1>5, <1>6, <1>7, <1>8, <1>9 DEF LicenseIInv

LEMMA InitialLicenseIInv == LicenseInit => LicenseIInv
  <1> SUFFICES ASSUME LicenseInit PROVE LicenseIInv
    OBVIOUS
  <1>1. PICK s \in Scenarios :
          /\ task = s.tasks /\ restarts = s.restarts
          /\ work = [p \in Processes |-> IF p = "loop" /\ ~s.loop THEN "done" ELSE "idle"]
          /\ failures = IF s.loop THEN 0 ELSE 3
          /\ recent = IF s.loop THEN <<>> ELSE <<FALSE, FALSE, FALSE>>
    BY DEF LicenseInit
  <1>2. /\ issued \in 0 .. 1 /\ stored = [license |-> issued, readers |-> {}] /\ everStored = {issued} \ {0}
        /\ holder = [t \in Licensees |-> [license |-> 0, content |-> Unedited, readers |-> {}]]
        /\ updaters = [t \in Licensees |-> {}] /\ license = [p \in Processes |-> 0]
        /\ copy = [p \in Processes |-> [t \in Licensees |-> Unedited]]
        /\ todo = [p \in Processes |-> {}] /\ current = [p \in Processes |-> {}]
        /\ outcome = [r \in Requests |-> "none"]
    BY DEF LicenseInit
  <1>3. /\ "loop" \in Processes /\ \A r \in Requests : r \in Processes /\ work[r] = "idle"
        /\ work["loop"] = IF s.loop THEN "idle" ELSE "done"
    BY <1>1, LicenseAssumption DEF Processes
  <1>4. ControlOK
    <2>1. work \in [Processes -> Stages] /\ work["loop"] \in LoopStages
      BY <1>1, <1>3 DEF Stages, LoopStages
    <2>2. /\ outcome \in [Requests -> {"none", "ok", "error", "lost"}]
          /\ \A r \in Requests : work[r] = "done" <=> outcome[r] # "none"
      BY <1>2, <1>3
    <2>3. CASE s.loop
      <3>1. recent \in Seq(BOOLEAN) /\ Len(recent) = 0 /\ failures = 0 /\ work["loop"] = "idle"
        BY <1>1, <1>3, <2>3
      <3> QED BY <2>1, <2>2, <3>1 DEF ControlOK
    <2>4. CASE ~s.loop
      <3>1. failures = 3 /\ work["loop"] = "done"
        BY <1>1, <1>3, <2>4
      <3>2. recent = <<FALSE, FALSE, FALSE>>
        BY <1>1, <2>4
      <3>3. recent \in Seq(BOOLEAN) /\ Len(recent) = 3 /\ \A k \in 1 .. 3 : recent[k] = FALSE
        BY <3>2
      <3> QED BY <2>1, <2>2, <3>1, <3>3 DEF ControlOK
    <2> QED BY <2>3, <2>4
  <1>5. DataOK
    <2>1. issued \in 0 .. MaxLicense /\ 0 \in 0 .. MaxLicense /\ 0 \in 0 .. MaxEdits
      BY <1>2, LicenseAssumption
    <2>2. {} \in SUBSET Processes /\ {} \in SUBSET Licensees /\ {} \in SUBSET Requests
      OBVIOUS
    <2>3. stored \in Secrets /\ holder \in [Licensees -> Holders]
      BY <1>2, <2>1, <2>2 DEF Secrets, Holders, Unedited, Contents
    <2>4. task \in [Requests -> Tasks] /\ restarts \in Nat
      BY <1>1, LicenseAssumption
    <2>5. everStored \subseteq 1 .. MaxLicense
      BY <1>2, <2>1
    <2>6. copy \in [Processes -> [Licensees -> Contents]]
      BY <1>2, <2>1 DEF Unedited, Contents
    <2> QED BY <1>2, <2>1, <2>2, <2>3, <2>4, <2>5, <2>6 DEF DataOK
  <1>6. LicenseKnown
    <2>1. \A p \in Processes : work[p] \in {"idle", "done"}
      BY <1>1
    <2> QED BY <1>2, <2>1 DEF LicenseKnown
  <1>7. CopiesAreCurrent
    BY <1>2 DEF CopiesAreCurrent
  <1>8. \A r \in Requests : Updating(r)
    BY <1>2, <1>3 DEF Updating
  <1>9. UpdatersKnown
    BY <1>2 DEF UpdatersKnown
  <1> QED BY <1>4, <1>5, <1>6, <1>7, <1>8, <1>9 DEF LicenseIInv

LEMMA StepKeepsLicenseIInv == LicenseIInv /\ [LicenseNext]_licenseVars => LicenseIInv'
  <1> SUFFICES ASSUME LicenseIInv, [LicenseNext]_licenseVars PROVE LicenseIInv'
    OBVIOUS
  <1>1. ASSUME NEW p \in Processes, Begin(p) \/ ProcessStep(p), UNCHANGED <<task, restarts>>
        PROVE  LicenseIInv'
    BY <1>1, BeginKeeps, RetrieveLicenseKeeps, RenewLicenseKeeps, GetSecretKeeps, WriteSecretKeeps,
       GetTenantOfKeeps, ListTenantsKeeps, ReadConfigurationKeeps, UpdateHolderKeeps DEF ProcessStep
  <1>2. ASSUME NEW t \in Licensees, EditTenant(t) PROVE LicenseIInv'
    BY <1>2, EditTenantKeeps
  <1>3. CASE RestartConsole
    BY <1>3, RestartConsoleKeeps
  <1>4. CASE UNCHANGED licenseVars
    <2>1. UNCHANGED <<issued, stored, holder, everStored, updaters, task, work, license, copy, todo, current,
                      outcome, failures, recent, restarts>>
      BY <1>4 DEF licenseVars, cluster, local, loopVars
    <2>2. ControlOK' /\ DataOK'
      BY <2>1 DEF LicenseIInv, ControlOK, DataOK
    <2>3. LicenseKnown' /\ CopiesAreCurrent' /\ UpdatersKnown'
      BY <2>1 DEF LicenseIInv, LicenseKnown, CopiesAreCurrent, UpdatersKnown
    <2>4. \A r \in Requests : Updating(r)'
      BY <2>1 DEF LicenseIInv, Updating
    <2> QED BY <2>2, <2>3, <2>4 DEF LicenseIInv
  <1> QED BY <1>1, <1>2, <1>3, <1>4 DEF LicenseNext

LEMMA LicenseInvariant == LicenseSpec => []LicenseIInv
  BY InitialLicenseIInv, StepKeepsLicenseIInv, PTL DEF LicenseSpec

-----------------------------------------------------------------------------
\* Every variable keeps its type, a request is answered exactly when it is over,
\* and the loop has ended exactly after three failures in a row
\* (refreshOperatorLicense, monitorSubscription).
THEOREM LicenseTypeCorrect == LicenseSpec => []LicenseTypeOK
  <1>1. ASSUME LicenseIInv PROVE LicenseTypeOK
    <2>1. ControlOK /\ DataOK
      BY <1>1 DEF LicenseIInv
    <2>2. work["loop"] = "done" <=> ThreeFailed
      <3>1. CASE failures = 3
        <4>1. Len(recent) = 3
          <5> DEFINE n == Len(recent)
          <5>1. n \in Nat /\ n <= 3 /\ failures <= n
            BY <2>1 DEF ControlOK
          <5> HIDE DEF n
          <5>2. n = 3
            BY <3>1, <5>1
          <5> QED BY <5>2 DEF n
        <4>2. \A k \in 1 .. 3 : recent[k] = FALSE
          BY <2>1, <3>1, <4>1 DEF ControlOK
        <4> QED BY <2>1, <3>1, <4>1, <4>2 DEF ControlOK, ThreeFailed
      <3>2. CASE failures # 3
        <4>1. work["loop"] # "done"
          BY <2>1, <3>2 DEF ControlOK
        <4>2. ASSUME ThreeFailed PROVE FALSE
          <5>1. Len(recent) = 3 /\ \A k \in 1 .. 3 : ~recent[k]
            BY <4>2 DEF ThreeFailed
          <5>2. 3 - failures \in 1 .. 3 /\ failures < 3
            BY <2>1, <3>2 DEF ControlOK
          <5>3. recent[3 - failures] = TRUE
            BY <2>1, <5>1, <5>2 DEF ControlOK
          <5> QED BY <5>1, <5>2, <5>3, Zenon
        <4> QED BY <4>1, <4>2
      <3> QED BY <3>1, <3>2
    <2>3. recent \in Seq(BOOLEAN) /\ Len(recent) <= 3 /\ failures \in 0 .. 3
      BY <2>1, Zenon DEF ControlOK
    <2> QED BY <2>1, <2>2, <2>3 DEF LicenseTypeOK, ControlOK, DataOK, Stages
  <1> QED BY <1>1, LicenseInvariant, PTL

\* A tenant only ever has a licence the cluster has had (refreshLicense saving
\* before it updates the tenants, addSubscriptionLicenseToTenant).
THEOREM TenantsFollow == LicenseSpec => []TenantsFollowCluster
  <1>1. LicenseIInv => TenantsFollowCluster
    BY DEF LicenseIInv, LicenseKnown, TenantsFollowCluster
  <1> QED BY <1>1, LicenseInvariant, PTL

\* A refresh answered without an error has reached every tenant
\* (subscriptionRefresh), however many there are and whatever happens meanwhile.
THEOREM RefreshReaches == LicenseSpec => []RefreshReachesTenants
  <1>1. ASSUME LicenseIInv PROVE RefreshReachesTenants
    <2>1. ASSUME NEW r \in Requests, task[r].kind = "refresh", outcome[r] = "ok", NEW t \in Licensees
          PROVE  r \in updaters[t] /\ (updaters[t] = {r} => holder[t].license = license[r])
      BY <1>1, <2>1 DEF LicenseIInv, Updating, UpdatersKnown
    <2> QED BY <2>1 DEF RefreshReachesTenants
  <1> QED BY <1>1, LicenseInvariant, PTL

\* No edit of a tenant or of the entries of its configuration is undone by giving it
\* its licence, and the rest of its configuration goes with nothing else
\* (addSubscriptionLicenseToTenant writing the whole object it read).
THEOREM EditsKept == LicenseSpec => EditsAreKept
  <1> DEFINE Kept ==
        \A t \in Licensees :
          /\ holder'[t].content.entries >= holder[t].content.entries
          /\ \/ holder'[t].content.rest >= holder[t].content.rest
             \/ \E r \in Requests : r \in updaters'[t] /\ work[r] = "update"
  <1>1. ASSUME LicenseIInv, [LicenseNext]_licenseVars PROVE Kept
    <2>0. \A t \in Licensees : /\ holder[t].content \in Contents /\ holder[t] \in Holders
                              /\ holder[t].content.entries \in Nat /\ holder[t].content.rest \in Nat
      BY <1>1, LicenseAssumption DEF LicenseIInv, DataOK, Holders, Contents
    <2>1. ASSUME \A t \in Licensees : holder'[t].content = holder[t].content PROVE Kept
      BY <2>0, <2>1
    <2>2. ASSUME NEW p \in Processes, NEW ts \in SUBSET Licensees, Read(p, ts) PROVE Kept
      BY <1>1, <2>1, <2>2, ReadKeeps DEF LicenseIInv
    <2>3. ASSUME NEW p \in Requests, NEW t \in Licensees, HolderWritten(p, t), work[p] = "update" PROVE Kept
      <3>1. p \in Processes /\ copy[p][t] = holder[t].content
        BY <1>1, <2>3 DEF HolderWritten, LicenseIInv, CopiesAreCurrent, Processes
      <3>2. /\ holder'[t].content = Regenerated(t, holder[t].content)
            /\ p \in updaters'[t]
            /\ \A u \in Licensees \ {t} : holder'[u] = holder[u]
        BY <1>1, <2>3, <3>1 DEF HolderWritten, Written, LicenseIInv, DataOK
      <3>3. Regenerated(t, holder[t].content).entries = holder[t].content.entries
        BY DEF Regenerated
      <3> QED BY <2>0, <2>3, <3>2, <3>3
    <2>4. ASSUME NEW t \in Licensees, EditTenant(t) PROVE Kept
      <3>1. PICK c \in Edited(t, holder[t].content) :
              holder' = [holder EXCEPT ![t] = [license |-> holder[t].license, content |-> c, readers |-> {}]]
        BY <2>4 DEF EditTenant
      <3>2. c.entries >= holder[t].content.entries /\ c.rest >= holder[t].content.rest
        BY <2>0, <2>4, EditedContents DEF EditTenant
      <3>3. holder'[t].content = c /\ \A u \in Licensees \ {t} : holder'[u] = holder[u]
        BY <1>1, <3>1 DEF LicenseIInv, DataOK
      <3> QED BY <2>0, <3>2, <3>3
    <2>5. CASE RestartConsole
      <3>1. \A t \in Licensees : holder'[t].content = holder[t].content
        BY <2>0, <2>5 DEF RestartConsole, Holders
      <3> QED BY <2>1, <3>1
    <2>6. ASSUME NEW p \in Processes, Begin(p) \/ ProcessStep(p) PROVE Kept
      <3>1. \/ UNCHANGED holder
            \/ \E ts \in SUBSET Licensees : Read(p, ts)
            \/ \E t \in Licensees : p \in Requests /\ work[p] = "update" /\ HolderWritten(p, t)
        <4>1. CASE UNCHANGED holder
          BY <4>1
        <4>2. CASE holder' # holder /\ GetTenantOf(p)
          <5>1. p \in Requests
            BY <1>1, <4>2 DEF GetTenantOf, LicenseIInv, ControlOK, LoopStages, Processes
          <5> QED BY <1>1, <4>2, <5>1 DEF GetTenantOf, Fails, cluster, LicenseIInv, DataOK, Tasks
        <4>3. CASE holder' # holder /\ ListTenants(p)
          BY <4>3 DEF ListTenants, Fails, cluster
        <4>4. CASE holder' # holder /\ ReadConfiguration(p)
          BY <1>1, <4>4 DEF ReadConfiguration, Fails, cluster, LicenseIInv, DataOK
        <4>5. CASE holder' # holder /\ UpdateHolder(p)
          BY <1>1, <4>5 DEF UpdateHolder, Fails, cluster, LicenseIInv, ControlOK, DataOK, LoopStages, Processes
        <4>6. CASE Begin(p) \/ RetrieveLicense(p) \/ RenewLicense(p) \/ GetSecret(p) \/ WriteSecret(p)
          BY <4>6 DEF Begin, RetrieveLicense, RenewLicense, GetSecret, WriteSecret, SecretWritten, Fails, cluster
        <4> QED BY <2>6, <4>1, <4>2, <4>3, <4>4, <4>5, <4>6 DEF ProcessStep
      <3> QED BY <2>1, <2>2, <2>3, <3>1
    <2> QED BY <1>1, <2>1, <2>4, <2>5, <2>6 DEF LicenseNext, licenseVars, cluster
  <1>2. LicenseIInv /\ [LicenseNext]_licenseVars => [Kept]_licenseVars
    BY <1>1
  <1> QED BY <1>2, LicenseInvariant, PTL DEF LicenseSpec, EditsAreKept
-----------------------------------------------------------------------------
(* Proofs about WidgetDetails, for any labels and any finite set of        *)
(* targets. That the loop only counts the targets is enough because no     *)
(* target comes twice: as many as there are targets are all of them, and   *)
(* no goroutine is left to send when the channel is closed.                *)

NoTargetTwice ==
  \A i, j \in DOMAIN received : received[i] = received[j] => i = j

NothingBeforeTargets ==
  /\ widgetPc \in {"test", "labels", "launch"} => received = <<>>
  /\ widgetPc = "test" => labelMap = {}

ClosedWithLast ==
  /\ resultsClosed => Len(received) >= Cardinality(Targets)
  /\ widgetAnswer = "ok" => resultsClosed
  /\ panicked # "closed channel"

WidgetIInv == WidgetTypeOK /\ NoTargetTwice /\ NothingBeforeTargets /\ ClosedWithLast

-----------------------------------------------------------------------------
LEMMA AnswerAsFunction ==
  ASSUME received \in Seq(Targets), NoTargetTwice
  PROVE  /\ Len(received) \in Nat /\ Len(received) <= Cardinality(Targets)
         /\ Len(received) >= Cardinality(Targets) =>
              /\ Len(received) = Cardinality(Targets)
              /\ \A t \in Targets : \E k \in DOMAIN received : received[k] = t
  <1> DEFINE n == Len(received)
  <1>1. n \in Nat /\ DOMAIN received = 1 .. n /\ received \in [1 .. n -> Targets]
    OBVIOUS
  <1>2. received \in Injection(1 .. n, Targets)
    BY <1>1 DEF NoTargetTwice, Injection, IsInjective
  <1>3. Cardinality(1 .. n) = n
    <2>1. 1 \in Int /\ n \in Int
      BY <1>1
    <2> HIDE DEF n
    <2>2. Cardinality(1 .. n) = IF 1 > n THEN 0 ELSE n - 1 + 1
      BY <2>1, FS_Interval
    <2> QED BY <1>1, <2>2
  <1>4. n <= Cardinality(Targets) /\ (n = Cardinality(Targets) => received \in Surjection(1 .. n, Targets))
    BY <1>2, <1>3, FS_Injection, WidgetAssumption
  <1>5. Cardinality(Targets) \in Nat
    BY FS_CardinalityType, WidgetAssumption
  <1>6. n >= Cardinality(Targets) => n = Cardinality(Targets)
    <2> HIDE DEF n
    <2> QED BY <1>1, <1>4, <1>5
  <1>7. n >= Cardinality(Targets) => \A t \in Targets : \E k \in DOMAIN received : received[k] = t
    BY <1>1, <1>4, <1>6 DEF Surjection
  <1> QED BY <1>1, <1>4, <1>6, <1>7

LEMMA InitialWidgetIInv == WidgetInit => WidgetIInv
  <1> SUFFICES ASSUME WidgetInit PROVE WidgetIInv
    OBVIOUS
  <1>1. received \in Seq(Targets) /\ DOMAIN received = {}
    BY DEF WidgetInit
  <1>2. WidgetTypeOK
    BY <1>1 DEF WidgetInit, WidgetTypeOK, TaskStates
  <1>3. NoTargetTwice /\ NothingBeforeTargets /\ ClosedWithLast
    BY <1>1 DEF WidgetInit, NoTargetTwice, NothingBeforeTargets, ClosedWithLast
  <1> QED BY <1>2, <1>3 DEF WidgetIInv

\* A target comes from a goroutine that has not sent before.
LEMMA ReceiveTargetKeeps == ASSUME WidgetIInv, NEW t \in Targets, ReceiveTarget(t) PROVE WidgetIInv'
  <1> USE DEF WidgetIInv
  <1>1. /\ widgetPc = "targets" /\ ~resultsClosed /\ targetTask[t] = "send"
        /\ targetTask' = [targetTask EXCEPT ![t] = "over"]
        /\ received' = Append(received, t)
        /\ resultsClosed' = (Len(received') >= Cardinality(Targets))
        /\ UNCHANGED <<params, prometheus, widgetPc, labelTask, labelMap, widgetAnswer, panicked>>
    BY DEF ReceiveTarget, CloseResults
  <1>2. received \in Seq(Targets) /\ \A k \in DOMAIN received : targetTask[received[k]] = "over"
    BY DEF WidgetTypeOK
  <1>3. /\ received' \in Seq(Targets) /\ Len(received') = Len(received) + 1 /\ Len(received) \in Nat
        /\ DOMAIN received = 1 .. Len(received) /\ DOMAIN received' = 1 .. Len(received) + 1
        /\ \A k \in 1 .. Len(received) : received'[k] = received[k]
        /\ received'[Len(received) + 1] = t
    BY <1>1, <1>2
  <1>4. \A k \in DOMAIN received : received[k] # t /\ received[k] \in Targets
    BY <1>1, <1>2
  <1>5. \A k \in DOMAIN received' : targetTask'[received'[k]] = "over"
    <2>1. targetTask \in [Targets -> TaskStates]
      BY DEF WidgetTypeOK
    <2>2. ASSUME NEW k \in 1 .. Len(received) PROVE targetTask'[received'[k]] = "over"
      BY <1>1, <1>2, <1>3, <1>4, <2>1, <2>2
    <2>3. targetTask'[received'[Len(received) + 1]] = "over"
      BY <1>1, <1>3, <2>1
    <2>4. \A k \in DOMAIN received' : k \in 1 .. Len(received) \/ k = Len(received) + 1
      BY <1>3
    <2> QED BY <2>2, <2>3, <2>4, Zenon
  <1>6. WidgetTypeOK'
    <2>1. resultsClosed' \in BOOLEAN
      BY <1>1
    <2>2. targetTask' \in [Targets -> TaskStates]
      BY <1>1 DEF WidgetTypeOK, TaskStates
    <2> QED BY <1>1, <1>3, <1>5, <2>1, <2>2 DEF WidgetTypeOK
  <1>7. NoTargetTwice'
    BY <1>3, <1>4 DEF NoTargetTwice
  <1>8. NothingBeforeTargets' /\ ClosedWithLast'
    BY <1>1 DEF NothingBeforeTargets, ClosedWithLast
  <1> QED BY <1>6, <1>7, <1>8

LEMMA SendOnClosedNever == ASSUME WidgetIInv, NEW t \in Targets, SendOnClosed(t) PROVE FALSE
  <1>1. received \in Seq(Targets) /\ Len(received) >= Cardinality(Targets) /\ NoTargetTwice
    BY DEF SendOnClosed, WidgetIInv, WidgetTypeOK, ClosedWithLast
  <1>2. PICK k \in DOMAIN received : received[k] = t
    BY <1>1, AnswerAsFunction
  <1> QED BY <1>2 DEF SendOnClosed, WidgetIInv, WidgetTypeOK

LEMMA HandlerKeeps ==
  ASSUME WidgetIInv, TestPrometheus \/ LabelsTimeOut \/ LaunchTargets \/ ReturnWidget
                     \/ \E l \in Labels : ReceiveLabel(l)
  PROVE  WidgetIInv'
  <1> USE DEF WidgetIInv
  <1>1. CASE TestPrometheus
    BY <1>1 DEF TestPrometheus, HandlerGoes, Answer, WidgetTypeOK, TaskStates, NoTargetTwice,
      NothingBeforeTargets, ClosedWithLast
  <1>2. CASE LabelsTimeOut
    BY <1>2 DEF LabelsTimeOut, HandlerGoes, tasks, WidgetTypeOK, NoTargetTwice, NothingBeforeTargets, ClosedWithLast
  <1>3. CASE LaunchTargets
    <2>1. DOMAIN received = {} /\ received \in Seq(Targets)
      BY <1>3 DEF LaunchTargets, NothingBeforeTargets
    <2>2. /\ UNCHANGED <<params, prometheus, labelTask, labelMap, received, resultsClosed, panicked>>
          /\ widgetPc = "launch"
          /\ \/ /\ widgetPc' = "targets" /\ UNCHANGED widgetAnswer
                /\ targetTask' = [t \in Targets |-> "fetch"]
             \/ widgetPc' = "done" /\ widgetAnswer' = "error" /\ UNCHANGED targetTask
      BY <1>3 DEF LaunchTargets, HandlerGoes, Answer
    <2>3. targetTask' \in [Targets -> TaskStates]
      BY <2>2 DEF WidgetTypeOK, TaskStates
    <2>4. WidgetTypeOK'
      BY <2>1, <2>2, <2>3 DEF WidgetTypeOK
    <2> QED BY <2>1, <2>2, <2>4 DEF NoTargetTwice, NothingBeforeTargets, ClosedWithLast
  <1>4. CASE ReturnWidget
    BY <1>4 DEF ReturnWidget, Answer, tasks, WidgetTypeOK, NoTargetTwice, NothingBeforeTargets, ClosedWithLast
  <1>5. ASSUME NEW l \in Labels, ReceiveLabel(l) PROVE WidgetIInv'
    <2>1. widgetPc' \in {"labels", "launch"} /\ widgetPc = "labels" /\ UNCHANGED widgetAnswer
      BY <1>5 DEF ReceiveLabel, HandlerGoes
    <2>2. /\ labelTask' = [labelTask EXCEPT ![l] = "over"] /\ labelMap' = labelMap \cup {l}
          /\ UNCHANGED <<params, prometheus, targetTask, received, resultsClosed, panicked>>
      BY <1>5 DEF ReceiveLabel
    <2>3. labelTask' \in [Labels -> TaskStates]
      BY <2>2 DEF WidgetTypeOK, TaskStates
    <2>4. \A m \in labelMap' : labelTask'[m] = "over"
      <3>1. labelTask \in [Labels -> TaskStates] /\ \A m \in labelMap : labelTask[m] = "over"
        BY DEF WidgetTypeOK
      <3>2. \A m : labelTask'[m] = IF m = l THEN "over" ELSE labelTask[m]
        BY <2>2, <3>1
      <3> QED BY <2>2, <3>1, <3>2
    <2>5. WidgetTypeOK'
      BY <2>1, <2>2, <2>3, <2>4 DEF WidgetTypeOK
    <2> QED BY <2>1, <2>2, <2>5 DEF NoTargetTwice, NothingBeforeTargets, ClosedWithLast
  <1> QED BY <1>1, <1>2, <1>3, <1>4, <1>5

LEMMA FetchKeeps ==
  ASSUME WidgetIInv, (\E l \in Labels : FetchLabel(l)) \/ (\E t \in Targets : FetchTarget(t))
  PROVE  WidgetIInv'
  <1> USE DEF WidgetIInv, Panic, NoPanic
  <1>1. ASSUME NEW l \in Labels, FetchLabel(l) PROVE WidgetIInv'
    <2>1. /\ labelTask[l] = "fetch" /\ panicked' \in {panicked, "nil response"}
          /\ \E s \in {"fetch", "send", "over"} : labelTask' = [labelTask EXCEPT ![l] = s]
          /\ UNCHANGED <<params, prometheus, widgetPc, targetTask, labelMap, received, resultsClosed, widgetAnswer>>
      BY <1>1 DEF FetchLabel, WidgetTypeOK
    <2>2. labelTask' \in [Labels -> TaskStates] /\ \A m \in labelMap' : labelTask'[m] = "over"
      <3>1. labelTask \in [Labels -> TaskStates] /\ labelMap \subseteq Labels /\ l \notin labelMap
        BY <2>1 DEF WidgetTypeOK
      <3>2. labelTask' \in [Labels -> TaskStates] /\ \A m \in Labels : m # l => labelTask'[m] = labelTask[m]
        BY <2>1, <3>1 DEF TaskStates
      <3> QED BY <2>1, <3>1, <3>2 DEF WidgetTypeOK
    <2>3. WidgetTypeOK'
      BY <2>1, <2>2 DEF WidgetTypeOK
    <2> QED BY <2>1, <2>3 DEF NoTargetTwice, NothingBeforeTargets, ClosedWithLast
  <1>2. ASSUME NEW t \in Targets, FetchTarget(t) PROVE WidgetIInv'
    <2>1. /\ targetTask[t] = "fetch" /\ panicked' \in {panicked, "nil response", "nil step"}
          /\ \E s \in {"fetch", "send", "over"} : targetTask' = [targetTask EXCEPT ![t] = s]
          /\ UNCHANGED <<params, prometheus, widgetPc, labelTask, labelMap, received, resultsClosed, widgetAnswer>>
      BY <1>2 DEF FetchTarget, WidgetTypeOK
    <2>2. targetTask' \in [Targets -> TaskStates] /\ \A k \in DOMAIN received' : targetTask'[received'[k]] = "over"
      <3>1. targetTask \in [Targets -> TaskStates] /\ \A k \in DOMAIN received : targetTask[received[k]] = "over"
        BY DEF WidgetTypeOK
      <3>2. \A u \in Targets : u # t => targetTask'[u] = targetTask[u]
        BY <2>1, <3>1
      <3>3. \A k \in DOMAIN received : received[k] # t /\ received[k] \in Targets
        <4>1. received \in Seq(Targets)
          BY DEF WidgetTypeOK
        <4>2. \A k \in DOMAIN received : received[k] \in Targets
          BY <4>1
        <4>3. \A k \in DOMAIN received : targetTask[received[k]] # targetTask[t]
          BY <2>1, <3>1, Zenon
        <4> QED BY <4>2, <4>3, Zenon
      <3>4. targetTask' \in [Targets -> TaskStates]
        BY <2>1, <3>1 DEF TaskStates
      <3> QED BY <2>1, <3>1, <3>2, <3>3, <3>4
    <2>3. WidgetTypeOK'
      BY <2>1, <2>2 DEF WidgetTypeOK
    <2> QED BY <2>1, <2>3 DEF NoTargetTwice, NothingBeforeTargets, ClosedWithLast
  <1> QED BY <1>1, <1>2

LEMMA StepKeepsWidgetIInv == WidgetIInv /\ [WidgetNext]_widgetVars => WidgetIInv'
  <1> SUFFICES ASSUME WidgetIInv, [WidgetNext]_widgetVars PROVE WidgetIInv'
    OBVIOUS
  <1>1. CASE PrometheusChanges
    BY <1>1 DEF WidgetIInv, PrometheusChanges, tasks, WidgetTypeOK, NoTargetTwice, NothingBeforeTargets,
      ClosedWithLast
  <1>2. CASE UNCHANGED widgetVars
    BY <1>2 DEF WidgetIInv, widgetVars, tasks, WidgetTypeOK, NoTargetTwice, NothingBeforeTargets, ClosedWithLast
  <1>3. CASE WidgetProgress
    BY <1>3, HandlerKeeps, ReceiveTargetKeeps, FetchKeeps, SendOnClosedNever
      DEF WidgetProgress, Handler, LabelGoroutine, TargetGoroutine
  <1> QED BY <1>1, <1>2, <1>3 DEF WidgetNext

LEMMA WidgetInvariant == WidgetSpec => []WidgetIInv
  BY InitialWidgetIInv, StepKeepsWidgetIInv, PTL DEF WidgetSpec

-----------------------------------------------------------------------------
\* Every variable keeps its type, and a target in the answer has come from its own
\* goroutine, which has ended (getWidgetDetails).
THEOREM WidgetTypeCorrect == WidgetSpec => []WidgetTypeOK
  <1>1. WidgetIInv => WidgetTypeOK
    BY DEF WidgetIInv
  <1> QED BY <1>1, WidgetInvariant, PTL

\* An answer has every target exactly once and no goroutine sends on the closed
\* channel (getWidgetDetails), for any finite set of targets.
THEOREM AnswerIsComplete == WidgetSpec => []WidgetIsComplete
  <1>1. ASSUME WidgetIInv PROVE WidgetIsComplete
    <2>1. received \in Seq(Targets) /\ NoTargetTwice
      BY <1>1 DEF WidgetIInv, WidgetTypeOK
    <2>2. widgetAnswer = "ok" => Len(received) >= Cardinality(Targets)
      BY <1>1 DEF WidgetIInv, ClosedWithLast
    <2>3. panicked # "closed channel"
      BY <1>1 DEF WidgetIInv, ClosedWithLast
    <2> QED BY <2>1, <2>2, <2>3, AnswerAsFunction DEF WidgetIsComplete
  <1> QED BY <1>1, WidgetInvariant, PTL
-----------------------------------------------------------------------------
(* Proofs about GkeIntegration, for any finite set of tenants integrated   *)
(* at once: what was read of the ingress is the ingress when an update of  *)
(* it is taken, so that no tenant loses its hosts to another.              *)

GkeLabels == {"wait", "certificate", "service", "console", "read", "update", "done"}

\* What has been created for a tenant when its request is at a label.
Before(l) ==
  CASE l = "service" -> {"certificate"} [] l = "console" -> {"certificate", "service"}
    [] l \in {"read", "update"} -> {"certificate", "service", "console"} [] OTHER -> {}

RequestsOK ==
  /\ pc \in [GkeTenants -> GkeLabels]
  /\ answer \in [GkeTenants -> {"none", "ok", "error"}]
  /\ \A t \in GkeTenants : pc[t] = "done" <=> answer[t] # "none"
  /\ objects \subseteq GkeTenants \X KindNames
  /\ \A t \in GkeTenants : {t} \X Before(pc[t]) \subseteq objects

WaitingOK ==
  /\ pods \subseteq GkeTenants
  /\ flag \in [GkeTenants -> BOOLEAN] /\ closed \in [GkeTenants -> BOOLEAN]
  /\ timer \in [GkeTenants -> {"sleeps", "sets", "closes", "over"}]
  /\ handler \in [GkeTenants -> {"idle", "sets", "closes"}]
  /\ seen \in [GkeTenants -> SUBSET pods]
  /\ alive \in BOOLEAN
  /\ \A t \in GkeTenants : pc[t] # "wait" => closed[t] = TRUE

Ingresses == [hosts : SUBSET GkeTenants, version : Nat]

\* Each tenant adds its hosts once, with its last step, and has read one ingress.
IngressOK ==
  /\ ingress \in Ingresses /\ ingress.version = Cardinality(ingress.hosts)
  /\ \A t \in ingress.hosts : pc[t] = "done"
  /\ \A t \in GkeTenants : \A a, b \in read[t] : a = b
  /\ read \in [GkeTenants -> SUBSET Ingresses]

Served ==
  \A t \in GkeTenants : answer[t] = "ok" => t \in ingress.hosts /\ {t} \X KindNames \subseteq objects

GkeIInv == RequestsOK /\ WaitingOK /\ IngressOK /\ Served

LEMMA KindNamesAre == KindNames = {"certificate", "service", "console"}
  <1>1. DOMAIN Kinds = 1 .. 3
    BY DEF Kinds
  <1>2. Kinds[1] = "certificate" /\ Kinds[2] = "service" /\ Kinds[3] = "console"
    BY DEF Kinds
  <1>3. \A k \in 1 .. 3 : k = 1 \/ k = 2 \/ k = 3
    OBVIOUS
  <1>4. 1 \in 1 .. 3 /\ 2 \in 1 .. 3 /\ 3 \in 1 .. 3
    OBVIOUS
  <1> QED BY <1>1, <1>2, <1>3, <1>4, Zenon DEF KindNames

-----------------------------------------------------------------------------
LEMMA InitialGkeIInv == GkeInit => GkeIInv
  <1> SUFFICES ASSUME GkeInit PROVE GkeIInv
    OBVIOUS
  <1>1. RequestsOK
    BY DEF GkeInit, RequestsOK, GkeLabels, Before
  <1>2. WaitingOK
    BY DEF GkeInit, WaitingOK
  <1>3. IngressOK
    <2>1. ingress.hosts = {} /\ ingress.version = 0 /\ {} \in SUBSET GkeTenants
      BY DEF GkeInit
    <2>2. ingress \in Ingresses
      <3>1. ingress = [hosts |-> {}, version |-> 0]
        BY DEF GkeInit
      <3> QED BY <2>1, <3>1 DEF Ingresses
    <2>3. read = [t \in GkeTenants |-> {}]
      BY DEF GkeInit
    <2> QED BY <2>1, <2>2, <2>3, FS_EmptySet DEF IngressOK
  <1>4. Served
    BY DEF GkeInit, Served
  <1> QED BY <1>1, <1>2, <1>3, <1>4 DEF GkeIInv

\* The wait: nothing that is created or written is concerned.
Waits(t) == (PodStarts(t) /\ UNCHANGED alive) \/ AddFunc(t) \/ Goroutines(t)

LEMMA WaitsKeep == ASSUME GkeIInv, NEW t \in GkeTenants, Waits(t) PROVE GkeIInv'
  <1>1. UNCHANGED <<objects, ingress, pc, read, answer>>
    BY DEF Waits, PodStarts, AddFunc, Goroutines, TimerFires, TimerCloses, AddFuncCloses, CloseDone, kubernetes
  <1>2. RequestsOK' /\ IngressOK' /\ Served'
    <2>1. RequestsOK'
      BY <1>1 DEF GkeIInv, RequestsOK
    <2>2. IngressOK'
      BY <1>1 DEF GkeIInv, IngressOK
    <2>3. Served'
      BY <1>1 DEF GkeIInv, Served
    <2> QED BY <2>1, <2>2, <2>3
  <1>3. WaitingOK'
    <2> USE DEF GkeIInv, WaitingOK
    <2>1. CASE PodStarts(t) /\ UNCHANGED alive
      BY <1>1, <2>1 DEF PodStarts, waiting
    <2>2. CASE AddFunc(t)
      BY <1>1, <2>2 DEF AddFunc, kubernetes
    <2>3. CASE TimerFires(t)
      BY <1>1, <2>3 DEF TimerFires, kubernetes
    <2>4. CASE TimerCloses(t)
      BY <1>1, <2>4 DEF TimerCloses, CloseDone, kubernetes
    <2>5. CASE AddFuncCloses(t)
      BY <1>1, <2>5 DEF AddFuncCloses, CloseDone, kubernetes
    <2> QED BY <2>1, <2>2, <2>3, <2>4, <2>5 DEF Waits, Goroutines
  <1> QED BY <1>2, <1>3 DEF GkeIInv

LEMMA WaitOverKeeps == ASSUME GkeIInv, NEW t \in GkeTenants, WaitOver(t), UNCHANGED alive PROVE GkeIInv'
  <1>1. /\ pc[t] = "wait" /\ closed[t] /\ pc' = [pc EXCEPT ![t] = "certificate"]
        /\ UNCHANGED <<pods, objects, ingress, flag, closed, timer, handler, seen, read, answer, alive>>
    BY DEF WaitOver, Goto, kubernetes, waiting
  <1>2. RequestsOK'
    <2>1. pc' \in [GkeTenants -> GkeLabels]
      BY <1>1 DEF GkeIInv, RequestsOK, GkeLabels
    <2>2. \A u \in GkeTenants : pc'[u] = "done" <=> answer'[u] # "none"
      BY <1>1 DEF GkeIInv, RequestsOK
    <2>3. \A u \in GkeTenants : {u} \X Before(pc'[u]) \subseteq objects'
      BY <1>1 DEF GkeIInv, RequestsOK, Before
    <2> QED BY <1>1, <2>1, <2>2, <2>3 DEF GkeIInv, RequestsOK
  <1>3. WaitingOK'
    <2>1. closed[t] = TRUE
      BY <1>1 DEF GkeIInv, WaitingOK
    <2>2. \A u \in GkeTenants : pc'[u] # "wait" => closed'[u] = TRUE
      BY <1>1, <2>1 DEF GkeIInv, WaitingOK, RequestsOK
    <2> QED BY <1>1, <2>2 DEF GkeIInv, WaitingOK
  <1>4. IngressOK' /\ Served'
    <2>1. \A u \in ingress.hosts : pc'[u] = "done"
      BY <1>1 DEF GkeIInv, IngressOK, Ingresses, RequestsOK
    <2>2. IngressOK'
      BY <1>1, <2>1 DEF GkeIInv, IngressOK
    <2>3. Served'
      BY <1>1 DEF GkeIInv, Served
    <2> QED BY <2>2, <2>3
  <1> QED BY <1>2, <1>3, <1>4 DEF GkeIInv

\* A request ends with an error, at whichever of its calls.
LEMMA ErrorKeeps ==
  ASSUME GkeIInv, NEW t \in GkeTenants, pc[t] \notin {"wait", "done"}, Finish(t, "error"),
         UNCHANGED <<pods, ingress, waiting, read, alive>>,
         objects \subseteq objects', objects' \subseteq GkeTenants \X KindNames
  PROVE  GkeIInv'
  <1>1. /\ pc' = [pc EXCEPT ![t] = "done"] /\ answer' = [answer EXCEPT ![t] = "error"]
        /\ UNCHANGED <<pods, ingress, flag, closed, timer, handler, seen, read, alive>>
    BY DEF Finish, waiting
  <1>2. RequestsOK'
    <2>1. pc' \in [GkeTenants -> GkeLabels] /\ answer' \in [GkeTenants -> {"none", "ok", "error"}]
      BY <1>1 DEF GkeIInv, RequestsOK, GkeLabels
    <2>2. \A u \in GkeTenants : pc'[u] = "done" <=> answer'[u] # "none"
      BY <1>1 DEF GkeIInv, RequestsOK
    <2>3. \A u \in GkeTenants : {u} \X Before(pc'[u]) \subseteq objects'
      BY <1>1 DEF GkeIInv, RequestsOK, Before
    <2> QED BY <2>1, <2>2, <2>3 DEF RequestsOK
  <1>3. WaitingOK'
    <2>1. \A u \in GkeTenants : pc'[u] # "wait" => closed'[u] = TRUE
      BY <1>1 DEF GkeIInv, WaitingOK, RequestsOK
    <2> QED BY <1>1, <2>1 DEF GkeIInv, WaitingOK
  <1>4. IngressOK'
    <2>1. \A u \in ingress.hosts : pc'[u] = "done"
      BY <1>1 DEF GkeIInv, IngressOK, Ingresses, RequestsOK
    <2> QED BY <1>1, <2>1 DEF GkeIInv, IngressOK
  <1>5. Served'
    BY <1>1 DEF GkeIInv, Served, RequestsOK
  <1> QED BY <1>2, <1>3, <1>4, <1>5 DEF GkeIInv

LEMMA CreateObjectKeeps == ASSUME GkeIInv, NEW t \in GkeTenants, CreateObject(t), UNCHANGED alive PROVE GkeIInv'
  <1>1. pc[t] \in {"certificate", "service", "console"}
    BY KindNamesAre DEF CreateObject
  <1>2. objects \cup {<<t, pc[t]>>} \subseteq GkeTenants \X KindNames
    BY <1>1, KindNamesAre DEF GkeIInv, RequestsOK
  <1>3. CASE Finish(t, "error")
    <2>1. UNCHANGED <<pods, ingress, waiting, read>> /\ objects \subseteq objects'
          /\ objects' \subseteq GkeTenants \X KindNames
      BY <1>2, <1>3 DEF CreateObject, GkeIInv, RequestsOK
    <2> QED BY <1>1, <1>3, <2>1, ErrorKeeps
  <1>4. CASE objects' = objects \cup {<<t, pc[t]>>} /\ Goto(t, After(pc[t]))
    <2>1. /\ pc' = [pc EXCEPT ![t] = After(pc[t])] /\ After(pc[t]) \in {"service", "console", "read"}
          /\ UNCHANGED <<pods, ingress, flag, closed, timer, handler, seen, read, answer, alive>>
      BY <1>1, <1>4 DEF CreateObject, Goto, After, waiting
    <2>2. RequestsOK'
      <3>1. pc' \in [GkeTenants -> GkeLabels]
        BY <2>1 DEF GkeIInv, RequestsOK, GkeLabels
      <3>2. \A u \in GkeTenants : pc'[u] = "done" <=> answer'[u] # "none"
        BY <1>1, <2>1 DEF GkeIInv, RequestsOK
      <3>3. {t} \X Before(After(pc[t])) \subseteq objects'
        <4>1. Before(After(pc[t])) = Before(pc[t]) \cup {pc[t]}
          BY <1>1 DEF Before, After
        <4>2. {t} \X Before(pc[t]) \subseteq objects
          BY DEF GkeIInv, RequestsOK
        <4> QED BY <1>4, <4>1, <4>2
      <3>4. \A u \in GkeTenants : {u} \X Before(pc'[u]) \subseteq objects'
        <4>1. \A u \in GkeTenants \ {t} : pc'[u] = pc[u] /\ {u} \X Before(pc[u]) \subseteq objects
          BY <2>1 DEF GkeIInv, RequestsOK
        <4>2. pc'[t] = After(pc[t])
          BY <2>1 DEF GkeIInv, RequestsOK
        <4> QED BY <1>4, <3>3, <4>1, <4>2
      <3> QED BY <1>2, <1>4, <2>1, <3>1, <3>2, <3>4 DEF GkeIInv, RequestsOK
    <2>3. WaitingOK'
      <3>1. \A u \in GkeTenants : pc'[u] # "wait" => closed'[u] = TRUE
        BY <1>1, <2>1 DEF GkeIInv, WaitingOK, RequestsOK
      <3> QED BY <2>1, <3>1 DEF GkeIInv, WaitingOK
    <2>4. IngressOK'
      <3>1. \A u \in ingress.hosts : pc'[u] = "done"
        BY <1>1, <2>1 DEF GkeIInv, IngressOK, Ingresses, RequestsOK
      <3> QED BY <2>1, <3>1 DEF GkeIInv, IngressOK
    <2>5. Served'
      BY <1>4, <2>1 DEF GkeIInv, Served
    <2> QED BY <2>2, <2>3, <2>4, <2>5 DEF GkeIInv
  <1> QED BY <1>3, <1>4 DEF CreateObject

LEMMA ReadIngressKeeps == ASSUME GkeIInv, NEW t \in GkeTenants, ReadIngress(t), UNCHANGED alive PROVE GkeIInv'
  <1>1. pc[t] = "read" /\ UNCHANGED <<pods, objects, ingress, waiting>>
    BY DEF ReadIngress, kubernetes
  <1>2. CASE Finish(t, "error") /\ UNCHANGED read
    <2>1. objects \subseteq objects' /\ objects' \subseteq GkeTenants \X KindNames
      BY <1>1 DEF GkeIInv, RequestsOK
    <2> QED BY <1>1, <1>2, <2>1, ErrorKeeps
  <1>3. CASE read' = [read EXCEPT ![t] = {ingress}] /\ Goto(t, "update")
    <2>1. /\ pc' = [pc EXCEPT ![t] = "update"]
          /\ UNCHANGED <<pods, objects, ingress, flag, closed, timer, handler, seen, answer, alive>>
      BY <1>1, <1>3 DEF Goto, waiting
    <2>2. RequestsOK'
      <3>1. pc' \in [GkeTenants -> GkeLabels]
        BY <2>1 DEF GkeIInv, RequestsOK, GkeLabels
      <3>2. \A u \in GkeTenants : pc'[u] = "done" <=> answer'[u] # "none"
        BY <1>1, <2>1 DEF GkeIInv, RequestsOK
      <3>3. \A u \in GkeTenants : Before(pc'[u]) = Before(pc[u])
        BY <1>1, <2>1 DEF GkeIInv, RequestsOK, Before
      <3> QED BY <2>1, <3>1, <3>2, <3>3 DEF GkeIInv, RequestsOK
    <2>3. WaitingOK'
      <3>1. \A u \in GkeTenants : pc'[u] # "wait" => closed'[u] = TRUE
        BY <1>1, <2>1 DEF GkeIInv, WaitingOK, RequestsOK
      <3> QED BY <2>1, <3>1 DEF GkeIInv, WaitingOK
    <2>4. IngressOK'
      <3>1. \A u \in ingress.hosts : pc'[u] = "done"
        BY <1>1, <2>1 DEF GkeIInv, IngressOK, Ingresses, RequestsOK
      <3>2. read' \in [GkeTenants -> SUBSET Ingresses] /\ \A u \in GkeTenants : \A a, b \in read'[u] : a = b
        BY <1>3 DEF GkeIInv, IngressOK
      <3> QED BY <2>1, <3>1, <3>2 DEF GkeIInv, IngressOK
    <2>5. Served'
      BY <2>1 DEF GkeIInv, Served
    <2> QED BY <2>2, <2>3, <2>4, <2>5 DEF GkeIInv
  <1> QED BY <1>2, <1>3 DEF ReadIngress

LEMMA UpdateIngressKeeps == ASSUME GkeIInv, NEW t \in GkeTenants, UpdateIngress(t), UNCHANGED alive PROVE GkeIInv'
  <1>1. pc[t] = "update" /\ UNCHANGED <<pods, objects, waiting, read>>
    BY DEF UpdateIngress
  <1>2. CASE Finish(t, "error") /\ UNCHANGED ingress
    <2>1. objects \subseteq objects' /\ objects' \subseteq GkeTenants \X KindNames
      BY <1>1 DEF GkeIInv, RequestsOK
    <2> QED BY <1>1, <1>2, <2>1, ErrorKeeps
  <1>3. ASSUME Unchanged(t), NEW old \in read[t],
               ingress' = [hosts |-> old.hosts \cup {t}, version |-> ingress.version + 1],
               NEW a \in {"ok", "error"}, Finish(t, a)
        PROVE  GkeIInv'
    <2>1. /\ pc' = [pc EXCEPT ![t] = "done"] /\ answer' = [answer EXCEPT ![t] = a]
          /\ UNCHANGED <<pods, objects, flag, closed, timer, handler, seen, read, alive>>
      BY <1>1, <1>3 DEF Finish, waiting
    <2>2. old = ingress
      BY <1>3 DEF Unchanged, GkeIInv, IngressOK
    <2>3. /\ ingress'.hosts = ingress.hosts \cup {t} /\ ingress'.version = ingress.version + 1
          /\ ingress' \in Ingresses
      BY <1>3, <2>2 DEF GkeIInv, IngressOK, Ingresses
    <2>4. ingress'.version = Cardinality(ingress'.hosts)
      <3>1. t \notin ingress.hosts
        BY <1>1 DEF GkeIInv, IngressOK
      <3>2. IsFiniteSet(ingress.hosts)
        BY FS_Subset, PrefixAssumption DEF GkeIInv, IngressOK, Ingresses
      <3>3. Cardinality(ingress.hosts \cup {t}) = Cardinality(ingress.hosts) + 1
        BY <3>1, <3>2, FS_AddElement
      <3> QED BY <2>3, <3>3 DEF GkeIInv, IngressOK
    <2>5. RequestsOK'
      <3>1. pc' \in [GkeTenants -> GkeLabels] /\ answer' \in [GkeTenants -> {"none", "ok", "error"}]
        BY <2>1 DEF GkeIInv, RequestsOK, GkeLabels
      <3>2. \A u \in GkeTenants : pc'[u] = "done" <=> answer'[u] # "none"
        BY <2>1 DEF GkeIInv, RequestsOK
      <3>3. \A u \in GkeTenants : {u} \X Before(pc'[u]) \subseteq objects'
        BY <2>1 DEF GkeIInv, RequestsOK, Before
      <3> QED BY <2>1, <3>1, <3>2, <3>3 DEF GkeIInv, RequestsOK
    <2>6. WaitingOK'
      <3>1. \A u \in GkeTenants : pc'[u] # "wait" => closed'[u] = TRUE
        BY <1>1, <2>1 DEF GkeIInv, WaitingOK, RequestsOK
      <3> QED BY <2>1, <3>1 DEF GkeIInv, WaitingOK
    <2>7. IngressOK'
      <3>1. \A u \in ingress'.hosts : pc'[u] = "done"
        BY <2>1, <2>3 DEF GkeIInv, IngressOK, Ingresses, RequestsOK
      <3> QED BY <2>1, <2>3, <2>4, <3>1 DEF GkeIInv, IngressOK
    <2>8. Served'
      <3>1. {t} \X KindNames \subseteq objects
        BY <1>1, KindNamesAre DEF GkeIInv, RequestsOK, Before
      <3>2. t \in ingress'.hosts /\ ingress.hosts \subseteq ingress'.hosts
        BY <2>3
      <3>3. \A u \in GkeTenants \ {t} : answer'[u] = answer[u]
        BY <2>1 DEF GkeIInv, RequestsOK
      <3> QED BY <2>1, <3>1, <3>2, <3>3 DEF GkeIInv, Served
    <2> QED BY <2>5, <2>6, <2>7, <2>8 DEF GkeIInv
  <1> QED BY <1>2, <1>3 DEF UpdateIngress

LEMMA StepKeepsGkeIInv == GkeIInv /\ [GkeNext]_gkeVars => GkeIInv'
  <1> SUFFICES ASSUME GkeIInv, [GkeNext]_gkeVars PROVE GkeIInv'
    OBVIOUS
  <1>1. ASSUME NEW t \in GkeTenants, Waits(t) PROVE GkeIInv'
    BY <1>1, WaitsKeep
  <1>2. ASSUME NEW t \in GkeTenants, Request(t) PROVE GkeIInv'
    BY <1>2, WaitOverKeeps, CreateObjectKeeps, ReadIngressKeeps, UpdateIngressKeeps DEF Request
  <1>3. CASE UNCHANGED gkeVars
    <2>1. UNCHANGED <<pods, objects, ingress, pc, flag, closed, timer, handler, seen, read, answer, alive>>
      BY <1>3 DEF gkeVars, kubernetes, waiting
    <2>2. RequestsOK' /\ WaitingOK'
      BY <2>1 DEF GkeIInv, RequestsOK, WaitingOK
    <2>3. IngressOK' /\ Served'
      BY <2>1 DEF GkeIInv, IngressOK, Served
    <2> QED BY <2>2, <2>3 DEF GkeIInv
  <1> QED BY <1>1, <1>2, <1>3 DEF GkeNext, Waits

LEMMA GkeInvariant == GkeSpec => []GkeIInv
  BY InitialGkeIInv, StepKeepsGkeIInv, PTL DEF GkeSpec

-----------------------------------------------------------------------------
\* Every variable keeps its type, a request is past its wait only once the
\* channel was closed, and the ingress is written at most once per tenant
\* (gkeIntegration).
THEOREM GkeTypeCorrect == GkeSpec => []GkeTypeOK
  <1>1. ASSUME GkeIInv PROVE GkeTypeOK
    <2>1. ingress.version \in 0 .. Cardinality(GkeTenants)
      <3>1. ingress.hosts \in SUBSET GkeTenants /\ ingress.version = Cardinality(ingress.hosts)
            /\ ingress.version \in Nat
        BY <1>1 DEF GkeIInv, IngressOK, Ingresses
      <3>2. Cardinality(ingress.hosts) <= Cardinality(GkeTenants)
        BY <3>1, FS_Subset, PrefixAssumption
      <3>3. Cardinality(GkeTenants) \in Nat
        BY FS_CardinalityType, PrefixAssumption
      <3> QED BY <3>1, <3>2, <3>3
    <2>2. \A t \in GkeTenants : pc[t] # "wait" => closed[t]
      BY <1>1 DEF GkeIInv, WaitingOK
    <2>3. pc \in [GkeTenants -> {"wait", "read", "update", "done"} \cup KindNames]
      BY <1>1, KindNamesAre DEF GkeIInv, RequestsOK, GkeLabels
    <2> QED BY <1>1, <2>1, <2>2, <2>3 DEF GkeIInv, RequestsOK, WaitingOK, IngressOK, Ingresses, GkeTypeOK
  <1> QED BY <1>1, GkeInvariant, PTL

\* A tenant whose integration succeeded keeps its hosts in the ingress and has its
\* certificate and services, however many are integrated at once
\* (createIngress, gkeIntegration).
THEOREM ServedOnceIntegrated == GkeSpec => []IntegratedIsServed
  <1>1. GkeIInv => IntegratedIsServed
    BY DEF GkeIInv, Served, IntegratedIsServed
  <1> QED BY <1>1, GkeInvariant, PTL
=============================================================================

---------------------- MODULE SupersetBootstrapProofs ----------------------
(***************************************************************************)
(* Running bootstrap_superset again doubles nothing and completes what is  *)
(* missing, for any tables, charts, page size, runs, crashes and deletions.*)
(***************************************************************************)
EXTENDS SupersetBootstrap, SequenceTheorems, TLAPS

Records ==
  \A o \in objects : o = [id |-> o.id, name |-> o.name, refs |-> o.refs, shows |-> o.shows]

Untroubled == spoiled \subseteq {"deleted"}

Single == \A o1, o2 \in objects : o1.name = o2.name => o1 = o2

OneAtATime == \A r, q \in Active : r = q

(* What a run is about to post is not there.                               *)
NotSeen == \A r \in Run : pc[r] = "make" => Named(Plan[at[r]]) = {}

DInv ==
  /\ Records
  /\ pc \in [Run -> {"off", "look", "make", "done", "failed"}]
  /\ Untroubled => Single /\ OneAtATime /\ NotSeen

-----------------------------------------------------------------------------
LEMMA InitDInv == Init => DInv
BY DEF Init, DInv, Records, Single, OneAtATime, NotSeen, Active

LEMMA StartDInv ==
  ASSUME NEW r \in Run, DInv, Start(r)
  PROVE  DInv'
<1>1. Records' /\ pc' \in [Run -> {"off", "look", "make", "done", "failed"}]
  BY DEF DInv, Start, Records
<1>2. ASSUME Untroubled' PROVE Untroubled /\ Active = {}
  BY <1>2 DEF Start, Untroubled
<1>3. ASSUME Untroubled' PROVE Single' /\ OneAtATime' /\ NotSeen'
  BY <1>2, <1>3 DEF DInv, Start, runVars, Single, OneAtATime, NotSeen, Named, Active
<1> QED
  BY <1>1, <1>3 DEF DInv

(* With everything on one page, what is not seen is not there.             *)
LEMMA LookDInv ==
  ASSUME NEW r \in Run, DInv, Look(r)
  PROVE  DInv'
<1> DEFINE n == Plan[at[r]]
<1>1. Records' /\ pc' \in [Run -> {"off", "look", "make", "done", "failed"}]
  BY DEF DInv, Look, Records, Take
<1> SUFFICES ASSUME Untroubled' PROVE Single' /\ OneAtATime' /\ NotSeen'
  BY <1>1 DEF DInv
<1>2. Untroubled /\ ~(Total(ResourceOf(n)) > PageSize)
  BY DEF Look, Untroubled, Overfull
<1>3. Page(ResourceOf(n)) \subseteq {InResource(ResourceOf(n))}
  BY <1>2 DEF Page
<1>4. pc'[r] = "make" => pc' = [pc EXCEPT ![r] = "make"] /\ at' = at /\ Named(n) = {}
  BY <1>3 DEF Look, InResource, Named, Take, DInv
<1>5. Single'
  BY <1>2 DEF DInv, Single, Look
<1>6. r \in Active /\ Active' \subseteq Active
  BY DEF Look, Active, Take, DInv
<1>7. NotSeen'
  <2> SUFFICES ASSUME NEW q \in Run, pc'[q] = "make" PROVE Named(Plan[at'[q]]) = {}
    BY DEF NotSeen, Named, Look
  <2>1. q \in Active
    BY <1>6 DEF Active
  <2>2. q = r
    BY <1>2, <1>6, <2>1 DEF DInv, OneAtATime
  <2> QED
    BY <1>4, <2>2
<1> QED
  BY <1>2, <1>5, <1>6, <1>7 DEF DInv, OneAtATime

LEMMA MakeDInv ==
  ASSUME NEW r \in Run, DInv, Make(r)
  PROVE  DInv'
<1> DEFINE n == Plan[at[r]]  new == New(n, Payload(n, got[r]))
<1>1. objects' = objects \/ objects' = objects \cup {new}
  BY DEF Make
<1>2. new = [id |-> new.id, name |-> n, refs |-> new.refs, shows |-> new.shows]
  BY DEF New
<1>3. Records'
  BY <1>1, <1>2 DEF DInv, Records
<1>4. pc' \in [Run -> {"off", "look", "make", "done", "failed"}]
  BY DEF DInv, Make, Take, End
<1>5. pc[r] = "make" /\ pc'[r] # "make" /\ \A q \in Run \ {r} : pc'[q] = pc[q]
  BY DEF DInv, Make, Take, End
<1> SUFFICES ASSUME Untroubled' PROVE Single' /\ OneAtATime' /\ NotSeen'
  BY <1>3, <1>4 DEF DInv
<1>6. Untroubled /\ Single /\ OneAtATime /\ Named(n) = {}
  BY <1>5 DEF DInv, Make, Untroubled, NotSeen
<1>7. Single'
  BY <1>1, <1>2, <1>6 DEF Single, Named
<1>8. r \in Active /\ Active' \subseteq Active
  BY <1>5 DEF Active
<1>9. NotSeen'
  BY <1>5, <1>6, <1>8 DEF NotSeen, OneAtATime, Active
<1> QED
  BY <1>6, <1>7, <1>8, <1>9 DEF OneAtATime

LEMMA PutLayoutDInv ==
  ASSUME NEW r \in Run, DInv, PutLayout(r)
  PROVE  DInv'
<1>1. \/ objects' = objects
      \/ \E d \in objects :
           objects' = (objects \ {d}) \cup {[d EXCEPT !.shows = Layout(r, d)]}
  BY DEF PutLayout
<1>2. Records'
  BY <1>1 DEF DInv, Records
<1>3. pc' \in [Run -> {"off", "look", "make", "done", "failed"}]
  BY DEF DInv, PutLayout, End
<1>4. pc[r] = "look" /\ pc'[r] # "make" /\ \A q \in Run \ {r} : pc'[q] = pc[q]
  BY DEF DInv, PutLayout, End
<1> SUFFICES ASSUME Untroubled' PROVE Single' /\ OneAtATime' /\ NotSeen'
  BY <1>2, <1>3 DEF DInv
<1>5. Untroubled /\ Single /\ OneAtATime
  BY DEF DInv, PutLayout, Untroubled
<1>6. \A d \in objects : [d EXCEPT !.shows = Layout(r, d)].name = d.name
  BY DEF DInv, Records
<1>7. Single'
  <2>1. CASE objects' = objects
    BY <1>5, <2>1 DEF Single
  <2>2. ASSUME NEW d \in objects, NEW e,
               objects' = (objects \ {d}) \cup {e}, e.name = d.name
        PROVE  Single'
    BY <1>5, <2>2 DEF Single
  <2> QED
    BY <1>1, <1>6, <2>1, <2>2
<1>8. r \in Active /\ Active' \subseteq Active
  BY <1>4 DEF Active
<1>9. NotSeen'
  BY <1>4, <1>5, <1>8 DEF NotSeen, OneAtATime, Active
<1> QED
  BY <1>5, <1>7, <1>8, <1>9 DEF OneAtATime

LEMMA CrashDInv ==
  ASSUME NEW r \in Run, DInv, Crash(r)
  PROVE  DInv'
<1>1. Records' /\ pc' \in [Run -> {"off", "look", "make", "done", "failed"}]
  BY DEF DInv, Crash, End, Records
<1>2. pc'[r] = "failed" /\ \A q \in Run \ {r} : pc'[q] = pc[q] /\ at'[q] = at[q]
  BY DEF DInv, Crash, End
<1>3. Active' \subseteq Active
  BY <1>2 DEF Active
<1> QED
  BY <1>1, <1>2, <1>3 DEF DInv, Crash, Untroubled, Single, OneAtATime, NotSeen, Named

(* Objects that stay keep their names.                                     *)
LEMMA DeleteDInv ==
  ASSUME NEW o \in objects, DInv, Delete(o)
  PROVE  DInv'
<1> DEFINE cut(x) == [x EXCEPT !.refs = IF o.name = "dashboard" THEN @ \ {o.id} ELSE @]
<1>1. objects' = {cut(x) : x \in objects \ {o}}
  BY DEF Delete
<1>2. \A x \in objects :
        /\ cut(x).name = x.name
        /\ cut(x) = [id |-> cut(x).id, name |-> cut(x).name,
                     refs |-> cut(x).refs, shows |-> cut(x).shows]
  BY DEF DInv, Records
<1> HIDE DEF cut
<1>3. Records'
  BY <1>1, <1>2 DEF Records
<1>4. UNCHANGED runVars /\ (Untroubled' => Untroubled)
  BY DEF Delete, Untroubled
<1>5. Single => Single'
  BY <1>1, <1>2 DEF Single
<1>6. NotSeen => NotSeen'
  <2> SUFFICES ASSUME NotSeen, NEW r \in Run, pc[r] = "make" PROVE Named(Plan[at[r]])' = {}
    BY <1>4 DEF NotSeen, runVars
  <2>1. \A x \in objects : x.name # Plan[at[r]]
    BY DEF NotSeen, Named
  <2>2. \A x \in objects' : x.name # Plan[at'[r]]
    BY <1>1, <1>2, <1>4, <2>1 DEF runVars
  <2> QED
    BY <2>2 DEF Named
<1>7. OneAtATime => OneAtATime'
  BY <1>4 DEF runVars, OneAtATime, Active
<1> QED
  BY <1>3, <1>4, <1>5, <1>6, <1>7 DEF DInv, runVars

LEMMA OthersDInv ==
  ASSUME DInv, \/ \E t \in Range(Tables) : BuildMart(t)
               \/ \E res \in Resource : MakeOther(res)
               \/ UNCHANGED vars
  PROVE  DInv'
BY DEF DInv, BuildMart, MakeOther, vars, runVars,
   Records, Untroubled, Single, OneAtATime, NotSeen, Active, Named

LEMMA NamesakeDInv ==
  ASSUME NEW n \in Name, DInv, MakeNamesake(n)
  PROVE  DInv'
<1>1. Records'
  BY DEF DInv, MakeNamesake, Records, New
<1>2. ~Untroubled'
  BY DEF MakeNamesake, Untroubled
<1> QED
  BY <1>1, <1>2 DEF DInv, MakeNamesake, runVars

-----------------------------------------------------------------------------
LEMMA NextDInv == DInv /\ [Next]_vars => DInv'
BY StartDInv, LookDInv, MakeDInv, PutLayoutDInv, CrashDInv, DeleteDInv, OthersDInv, NamesakeDInv
   DEF Next, Step

(* Running the script again doubles nothing: it takes two runs at once, a  *)
(* list longer than a page or a namesake for that.                         *)
THEOREM NothingDoubled == Spec => []NoDuplicates
<1>1. DInv => NoDuplicates
  BY DEF DInv, Untroubled, Single, NoDuplicates
<1> QED
  BY <1>1, InitDInv, NextDInv, PTL DEF Spec

-----------------------------------------------------------------------------
(* The plan names every object once it is through: the connection before   *)
(* the datasets, these and the dashboard before the charts.                *)
LEMMA PlanOrder ==
  /\ Len(Plan) \in Nat
  /\ \A k \in 1..Len(Plan) : Plan[k] \in Name
  /\ \A n \in Name : \E k \in 1..Len(Plan) : Plan[k] = n
  /\ \A k \in 1..Len(Plan) :
       /\ Plan[k] \in Range(Tables) => \E i \in 1..(k - 1) : Plan[i] = "database"
       /\ Plan[k] \in Range(Charts) => /\ \E i \in 1..(k - 1) : Plan[i] = "dashboard"
                                       /\ \A t \in Range(Tables) : \E i \in 1..(k - 1) : Plan[i] = t
<1> DEFINE S == STRING \cup {"database", "dashboard"}
           first == <<"database">>  upto == first \o Tables
           all == upto \o <<"dashboard">>  x == Len(Tables)  y == Len(Charts)
<1>1. /\ Tables \in Seq(S) /\ Charts \in Seq(S)
      /\ x \in Nat /\ Len(Tables) = x /\ DOMAIN Tables = 1..x
      /\ y \in Nat /\ Len(Charts) = y /\ DOMAIN Charts = 1..y
      /\ first \in Seq(S) /\ <<"dashboard">> \in Seq(S)
      /\ Len(first) = 1 /\ first[1] = "database"
      /\ Len(<<"dashboard">>) = 1 /\ <<"dashboard">>[1] = "dashboard"
  <2>1. Tables \in Seq(S) /\ Charts \in Seq(S)
    BY SeqMonotonic, SupersetAssumption
  <2>2. first \in Seq(S) /\ <<"dashboard">> \in Seq(S)
    OBVIOUS
  <2> QED
    BY <2>1, <2>2, LenProperties
<1> HIDE DEF S, x, y
<1>2. /\ upto \in Seq(S) /\ Len(upto) = x + 1 /\ upto[1] = "database"
      /\ \A i \in 1..x : upto[i + 1] = Tables[i]
  <2>1. upto \in Seq(S) /\ Len(upto) = 1 + x
        /\ \A i \in 1..(1 + x) : upto[i] = IF i <= 1 THEN first[i] ELSE Tables[i - 1]
    BY <1>1, ConcatProperties
  <2> HIDE DEF upto
  <2> QED
    BY <1>1, <2>1
<1> HIDE DEF upto
<1>3. /\ all \in Seq(S) /\ Len(all) = x + 2 /\ all[x + 2] = "dashboard"
      /\ \A i \in 1..(x + 1) : all[i] = upto[i]
  <2>1. all \in Seq(S) /\ Len(all) = x + 2
        /\ \A i \in 1..(x + 2) : all[i] = IF i <= x + 1 THEN upto[i] ELSE <<"dashboard">>[i - (x + 1)]
    BY <1>1, <1>2, ConcatProperties
  <2> HIDE DEF all
  <2> QED
    BY <1>1, <2>1
<1> HIDE DEF all
<1>4. /\ Len(Plan) = x + 2 + y
      /\ \A i \in 1..(x + 2) : Plan[i] = all[i]
      /\ \A i \in 1..y : Plan[x + 2 + i] = Charts[i]
  <2>1. Plan = all \o Charts
    BY DEF Plan, all, upto
  <2>2. /\ Len(Plan) = (x + 2) + y
        /\ \A i \in 1..((x + 2) + y) : Plan[i] = IF i <= x + 2 THEN all[i] ELSE Charts[i - (x + 2)]
    <3> HIDE DEF all
    <3>1. /\ Len(all \o Charts) = Len(all) + Len(Charts)
          /\ \A i \in 1..(Len(all) + Len(Charts)) :
               (all \o Charts)[i] = IF i <= Len(all) THEN all[i] ELSE Charts[i - Len(all)]
      BY <1>1, <1>3, ConcatProperties
    <3> QED
      BY <1>1, <1>3, <2>1, <3>1
  <2>3. ASSUME NEW i \in 1..y PROVE Plan[x + 2 + i] = Charts[i]
    <3> DEFINE k == x + 2 + i  j == k - (x + 2)
    <3>1. k \in 1..((x + 2) + y) /\ ~(k <= x + 2) /\ j = i
      BY <1>1
    <3>2. k \in 1..((x + 2) + y) => Plan[k] = IF k <= x + 2 THEN all[k] ELSE Charts[j]
      BY <2>2
    <3> HIDE DEF k, j
    <3>3. Plan[k] = Charts[i]
      BY <3>1, <3>2
    <3> QED
      BY <3>3 DEF k
  <2> QED
    BY <1>1, <2>2, <2>3
<1>5. /\ Plan[1] = "database" /\ Plan[x + 2] = "dashboard"
      /\ \A i \in 1..x : Plan[i + 1] = Tables[i]
  BY <1>1, <1>2, <1>3, <1>4
<1>6. ASSUME NEW k \in 1..Len(Plan)
      PROVE  \/ k = 1 \/ k = x + 2
             \/ \E i \in 1..x : k = i + 1
             \/ \E i \in 1..y : k = x + 2 + i
  <2>1. CASE k <= x + 1
    <3>1. k = 1 \/ (k - 1 \in 1..x /\ k = (k - 1) + 1)
      BY <1>1, <1>4, <2>1
    <3> QED
      BY <3>1
  <2>2. CASE k > x + 2
    <3>1. k - (x + 2) \in 1..y /\ k = x + 2 + (k - (x + 2))
      BY <1>1, <1>4, <2>2
    <3> QED
      BY <3>1
  <2> QED
    BY <1>1, <1>4, <2>1, <2>2
<1>7. /\ Range(Tables) = {Tables[i] : i \in 1..x} /\ Range(Charts) = {Charts[i] : i \in 1..y}
      /\ "database" \notin Range(Tables) \cup Range(Charts)
      /\ "dashboard" \notin Range(Tables) \cup Range(Charts)
      /\ Range(Tables) \cap Range(Charts) = {}
  BY <1>1, SupersetAssumption DEF Range
<1>8. ASSUME NEW k \in 1..Len(Plan) PROVE Plan[k] \in Name
  BY <1>4, <1>5, <1>6, <1>7 DEF Name
<1>9. ASSUME NEW n \in Name PROVE \E k \in 1..Len(Plan) : Plan[k] = n
  <2>1. CASE n = "database" BY <1>1, <1>4, <1>5, <2>1
  <2>2. CASE n = "dashboard" BY <1>1, <1>4, <1>5, <2>2
  <2>3. ASSUME NEW i \in 1..x, n = Tables[i] PROVE \E k \in 1..Len(Plan) : Plan[k] = n
    BY <1>1, <1>4, <1>5, <2>3
  <2>4. ASSUME NEW i \in 1..y, n = Charts[i] PROVE \E k \in 1..Len(Plan) : Plan[k] = n
    BY <1>1, <1>4, <2>4
  <2> QED
    BY <1>7, <2>1, <2>2, <2>3, <2>4 DEF Name
<1>10. ASSUME NEW k \in 1..Len(Plan), Plan[k] \in Range(Tables)
       PROVE  \E i \in 1..(k - 1) : Plan[i] = "database"
  <2>1. k # 1
    BY <1>5, <1>7, <1>10
  <2> QED
    BY <1>1, <1>4, <1>5, <2>1
<1>11. ASSUME NEW k \in 1..Len(Plan), Plan[k] \in Range(Charts)
       PROVE  k > x + 2
  <2>1. \A i \in 1..x : Plan[i + 1] \in Range(Tables)
    BY <1>5, <1>7
  <2>2. k # 1 /\ k # x + 2 /\ \A i \in 1..x : k # i + 1
    BY <1>5, <1>7, <1>11, <2>1
  <2>3. \A i \in 1..y : x + 2 + i > x + 2
    BY <1>1
  <2> QED
    BY <1>6, <2>2, <2>3
<1>12. ASSUME NEW k \in 1..Len(Plan), Plan[k] \in Range(Charts)
       PROVE  /\ \E i \in 1..(k - 1) : Plan[i] = "dashboard"
              /\ \A t \in Range(Tables) : \E i \in 1..(k - 1) : Plan[i] = t
  <2>1. x + 2 \in 1..(k - 1) /\ \A i \in 1..x : i + 1 \in 1..(k - 1)
    BY <1>1, <1>4, <1>11, <1>12
  <2> QED
    BY <1>5, <1>7, <2>1
<1>13. Len(Plan) \in Nat
  BY <1>1, <1>4
<1> QED
  BY <1>8, <1>9, <1>10, <1>12, <1>13

-----------------------------------------------------------------------------
(* TypeOK, and what makes it inductive: a run that posts has not got to the*)
(* end of the plan, one that is over holds no ids, and every object others *)
(* made was trouble.                                                       *)
RunsTyped ==
  /\ pc \in [Run -> {"off", "look", "make", "done", "failed"}]
  /\ at \in [Run -> 1..(Len(Plan) + 1)]
  /\ got = [r \in Run |-> got[r]]
  /\ \A r \in Run :
       /\ DOMAIN got[r] = {Plan[k] : k \in 1..(at[r] - 1)}
       /\ \A n \in DOMAIN got[r] : got[r][n] \in Id
       /\ pc[r] = "make" => at[r] <= Len(Plan)
       /\ r \notin Active => at[r] = 1

CountsTyped ==
  /\ others \in [Resource -> 0..MaxTrouble]
  /\ \A res \in Resource : others[res] <= trouble
  /\ spoiled \subseteq {"race", "page", "deleted", "namesake"}
  /\ trouble \in 0..MaxTrouble

TInv ==
  /\ marts \subseteq Range(Tables)
  /\ objects \subseteq Object
  /\ RunsTyped
  /\ CountsTyped

LEMMA TypeFromTInv == TInv => TypeOK
BY DEF TInv, RunsTyped, CountsTyped, TypeOK

LEMMA InitTInv == Init => TInv
<1> SUFFICES ASSUME Init PROVE TInv
  OBVIOUS
<1>1. \A r \in Run : DOMAIN got[r] = {Plan[k] : k \in 1..(at[r] - 1)} /\ DOMAIN got[r] = {}
  BY DEF Init
<1>2. RunsTyped
  BY <1>1, PlanOrder DEF Init, RunsTyped, Active
<1>3. CountsTyped
  BY SupersetAssumption DEF Init, CountsTyped
<1> QED
  BY <1>2, <1>3 DEF Init, TInv

(* An id for the object the run is at ...                                  *)
LEMMA TakeTyped ==
  ASSUME RunsTyped, NEW r \in Active, at[r] <= Len(Plan), NEW i \in Id, Take(r, i)
  PROVE  RunsTyped'
<1> DEFINE ids == [n \in DOMAIN got[r] \cup {Plan[at[r]]} |-> IF n = Plan[at[r]] THEN i ELSE got[r][n]]
<1>1. /\ pc' \in [Run -> {"off", "look", "make", "done", "failed"}]
      /\ at' \in [Run -> 1..(Len(Plan) + 1)]
      /\ got' = [q \in Run |-> got'[q]]
  <2>1. pc' \in [Run -> {"off", "look", "make", "done", "failed"}]
    BY DEF Take, RunsTyped, Active
  <2>2. at' \in [Run -> 1..(Len(Plan) + 1)]
    <3>1. at[r] + 1 \in 1..(Len(Plan) + 1)
      BY PlanOrder DEF RunsTyped, Active
    <3> QED
      BY <3>1 DEF Take, RunsTyped
  <2>3. got' = [got EXCEPT ![r] = ids]
    BY DEF Take
  <2>4. got' = [q \in Run |-> got'[q]]
    BY <2>3, Zenon DEF RunsTyped
  <2> QED
    BY <2>1, <2>2, <2>4
<1>2. /\ r \in Run /\ pc'[r] = "look" /\ at'[r] = at[r] + 1 /\ got'[r] = ids
      /\ \A q \in Run \ {r} : pc'[q] = pc[q] /\ at'[q] = at[q] /\ got'[q] = got[q]
  BY DEF Take, RunsTyped, Active
<1>3. at[r] \in Nat /\ 1 <= at[r] /\ DOMAIN got[r] = {Plan[k] : k \in 1..(at[r] - 1)}
  BY <1>2, PlanOrder DEF RunsTyped
<1>4. 1..((at[r] + 1) - 1) = 1..(at[r] - 1) \cup {at[r]}
  BY <1>3
<1>5. DOMAIN ids = {Plan[k] : k \in 1..((at[r] + 1) - 1)}
  BY <1>3, <1>4
<1>6. \A n \in DOMAIN ids : ids[n] \in Id
  BY <1>2 DEF RunsTyped
<1> HIDE DEF ids
<1>7. ASSUME NEW q \in Run
      PROVE  /\ DOMAIN got'[q] = {Plan[k] : k \in 1..(at'[q] - 1)}
             /\ \A n \in DOMAIN got'[q] : got'[q][n] \in Id
             /\ pc'[q] = "make" => at'[q] <= Len(Plan)
             /\ pc'[q] \notin {"look", "make"} => at'[q] = 1
  <2>1. CASE q = r
    BY <1>2, <1>5, <1>6, <2>1
  <2>2. CASE q # r
    BY <1>2, <2>2 DEF RunsTyped, Active
  <2> QED
    BY <2>1, <2>2
<1> QED
  BY <1>1, <1>7 DEF RunsTyped, Active, Id, Plan

(* ... and none when it is over.                                           *)
LEMMA EndTyped ==
  ASSUME RunsTyped, NEW r \in Run, NEW how \in {"done", "failed"}, End(r, how)
  PROVE  RunsTyped'
<1>1. /\ pc' \in [Run -> {"off", "look", "make", "done", "failed"}]
      /\ at' \in [Run -> 1..(Len(Plan) + 1)]
      /\ got' = [q \in Run |-> got'[q]]
  <2>1. pc' \in [Run -> {"off", "look", "make", "done", "failed"}]
    BY DEF End, RunsTyped
  <2>2. at' \in [Run -> 1..(Len(Plan) + 1)]
    BY PlanOrder DEF End, RunsTyped
  <2>3. got' = [got EXCEPT ![r] = <<>>]
    BY DEF End
  <2>4. got' = [q \in Run |-> got'[q]]
    BY <2>3, Zenon DEF RunsTyped
  <2> QED
    BY <2>1, <2>2, <2>4
<1>2. /\ pc'[r] = how /\ at'[r] = 1 /\ got'[r] = <<>>
      /\ \A q \in Run \ {r} : pc'[q] = pc[q] /\ at'[q] = at[q] /\ got'[q] = got[q]
  BY DEF End, RunsTyped
<1>3. DOMAIN got'[r] = {Plan[k] : k \in 1..(at'[r] - 1)} /\ DOMAIN got'[r] = {}
  BY <1>2
<1>4. ASSUME NEW q \in Run
      PROVE  /\ DOMAIN got'[q] = {Plan[k] : k \in 1..(at'[q] - 1)}
             /\ \A n \in DOMAIN got'[q] : got'[q][n] \in Id
             /\ pc'[q] = "make" => at'[q] <= Len(Plan)
             /\ pc'[q] \notin {"look", "make"} => at'[q] = 1
  <2>1. CASE q = r
    BY <1>2, <1>3, <2>1
  <2>2. CASE q # r
    BY <1>2, <2>2 DEF RunsTyped, Active
  <2> QED
    BY <2>1, <2>2
<1> QED
  BY <1>1, <1>4 DEF RunsTyped, Active, Id, Plan

(* What a new object refers to, the run has ids of.                        *)
LEMMA RefsAreHeld ==
  ASSUME RunsTyped, NEW r \in Run, at[r] <= Len(Plan)
  PROVE  /\ Plan[at[r]] \in Name
         /\ Plan[at[r]] \in Range(Tables) => "database" \in DOMAIN got[r]
         /\ Plan[at[r]] \in Range(Charts) =>
              "dashboard" \in DOMAIN got[r] /\ Range(Tables) \subseteq DOMAIN got[r]
<1>1. at[r] \in 1..Len(Plan) /\ DOMAIN got[r] = {Plan[k] : k \in 1..(at[r] - 1)}
  BY PlanOrder DEF RunsTyped
<1>2. Plan[at[r]] \in Name
  BY <1>1, PlanOrder
<1>3. ASSUME Plan[at[r]] \in Range(Tables) PROVE "database" \in DOMAIN got[r]
  <2>1. \E i \in 1..(at[r] - 1) : Plan[i] = "database"
    BY <1>1, <1>3, PlanOrder
  <2> QED
    BY <1>1, <2>1
<1>4. ASSUME Plan[at[r]] \in Range(Charts)
      PROVE  "dashboard" \in DOMAIN got[r] /\ Range(Tables) \subseteq DOMAIN got[r]
  <2>1. /\ \E i \in 1..(at[r] - 1) : Plan[i] = "dashboard"
        /\ \A t \in Range(Tables) : \E i \in 1..(at[r] - 1) : Plan[i] = t
    BY <1>1, <1>4, PlanOrder
  <2> QED
    BY <1>1, <2>1
<1> QED
  BY <1>2, <1>3, <1>4

LEMMA AllIsHeld ==
  ASSUME RunsTyped, NEW r \in Run, at[r] > Len(Plan)
  PROVE  DOMAIN got[r] = Name
<1>1. at[r] = Len(Plan) + 1 /\ DOMAIN got[r] = {Plan[k] : k \in 1..(at[r] - 1)}
  BY PlanOrder DEF RunsTyped
<1>2. 1..(at[r] - 1) = 1..Len(Plan)
  BY <1>1, PlanOrder
<1>3. DOMAIN got[r] = {Plan[k] : k \in 1..Len(Plan)}
  BY <1>1, <1>2
<1> QED
  BY <1>3, PlanOrder

LEMMA KindsOfNames ==
  /\ "database" \in Name /\ "dashboard" \in Name /\ "database" # "dashboard"
  /\ "database" \notin Range(Tables) \cup Range(Charts)
  /\ "dashboard" \notin Range(Tables) \cup Range(Charts)
  /\ Range(Tables) \subseteq Name /\ Range(Charts) \subseteq Name
  /\ Range(Tables) \cap Range(Charts) = {}
  /\ \A n \in Range(Charts) : Source[n] \in Range(Tables)
BY SupersetAssumption DEF Name

LEMMA PayloadIsHeld ==
  ASSUME RunsTyped, NEW r \in Run, at[r] <= Len(Plan)
  PROVE  Payload(Plan[at[r]], got[r]) \subseteq {got[r][n] : n \in DOMAIN got[r]}
BY RefsAreHeld, KindsOfNames DEF Payload

LEMMA NewIsTyped ==
  ASSUME Unused # {}, NEW n \in Name, NEW refs \in SUBSET Id
  PROVE  /\ New(n, refs) \in Object
         /\ \A o \in objects : NewId # o.id
<1>1. NewId \in Unused
  BY DEF NewId
<1>2. NewId \in Id /\ \A o \in objects : NewId \notin {o.id} \cup o.refs \cup o.shows
  BY <1>1 DEF Unused
<1> QED
  BY <1>2 DEF New, Object

-----------------------------------------------------------------------------
LEMMA StartTInv ==
  ASSUME TInv, NEW r \in Run, Start(r)
  PROVE  TInv'
<1>1. /\ pc' \in [Run -> {"off", "look", "make", "done", "failed"}]
      /\ \A q \in Run : pc'[q] = pc[q] \/ (q = r /\ pc'[q] = "look")
      /\ UNCHANGED <<at, got>>
  BY DEF TInv, RunsTyped, Start
<1>2. RunsTyped'
  BY <1>1 DEF TInv, RunsTyped, Active, Id, Plan
<1>3. CountsTyped'
  BY DEF TInv, CountsTyped, Start
<1> QED
  BY <1>2, <1>3 DEF TInv, Start, Object, Id

LEMMA LookTInv ==
  ASSUME TInv, NEW r \in Run, Look(r)
  PROVE  TInv'
<1>1. ASSUME pc' = [pc EXCEPT ![r] = "make"], UNCHANGED <<at, got>> PROVE RunsTyped'
  <2>1. /\ pc' \in [Run -> {"off", "look", "make", "done", "failed"}]
        /\ \A q \in Run : pc'[q] = pc[q] \/ (q = r /\ pc'[q] = "make")
    BY <1>1 DEF TInv, RunsTyped
  <2>2. at[r] <= Len(Plan) /\ r \in Active
    BY DEF Look, Active
  <2>3. RunsTyped'
    BY <1>1, <2>1, <2>2 DEF TInv, RunsTyped, Active, Id, Plan
  <2> QED
    BY <2>3
<1>2. ASSUME NEW o \in objects, Take(r, o.id) PROVE RunsTyped'
  <2>1. o.id \in Id /\ r \in Active /\ at[r] <= Len(Plan)
    BY DEF TInv, Object, Look, Active
  <2> QED
    BY <1>2, <2>1, TakeTyped DEF TInv
<1>4. RunsTyped'
  BY <1>1, <1>2 DEF Look, Page, InResource
<1>5. CountsTyped'
  BY DEF TInv, CountsTyped, Look, Overfull
<1> QED
  BY <1>4, <1>5 DEF TInv, Look, Object, Id

LEMMA MakeTInv ==
  ASSUME TInv, NEW r \in Run, Make(r)
  PROVE  TInv'
<1> DEFINE n == Plan[at[r]]  refs == Payload(n, got[r])
<1>1. at[r] <= Len(Plan) /\ r \in Active
  BY DEF TInv, RunsTyped, Make, Active
<1>2. n \in Name /\ refs \subseteq Id
  <2>1. n \in Name /\ refs \subseteq {got[r][m] : m \in DOMAIN got[r]}
    BY <1>1, RefsAreHeld, PayloadIsHeld DEF TInv
  <2>2. \A m \in DOMAIN got[r] : got[r][m] \in Id
    BY DEF TInv, RunsTyped
  <2> QED
    BY <2>1, <2>2
<1> HIDE DEF n, refs
<1>3. CountsTyped' /\ marts' \subseteq Range(Tables)
  BY DEF TInv, CountsTyped, Make
<1>4. CASE End(r, "failed") /\ UNCHANGED objects
  BY <1>3, <1>4, EndTyped DEF TInv, Object, Id
<1>5. CASE Unused # {} /\ objects' = objects \cup {New(n, refs)} /\ Take(r, NewId)
  <2>1. NewId \in Id /\ New(n, refs) \in Object
    BY <1>2, <1>5, NewIsTyped DEF NewId, Unused
  <2> QED
    BY <1>1, <1>3, <1>5, <2>1, TakeTyped DEF TInv, Object, Id
<1> QED
  BY <1>4, <1>5 DEF Make, n, refs

LEMMA PutLayoutTInv ==
  ASSUME TInv, NEW r \in Run, PutLayout(r)
  PROVE  TInv'
<1>1. CountsTyped' /\ marts' \subseteq Range(Tables)
  BY DEF TInv, CountsTyped, PutLayout
<1>2. RunsTyped'
  BY EndTyped DEF TInv, PutLayout
<1>3. ASSUME NEW d PROVE Layout(r, d) \subseteq Id
  <2>1. DOMAIN got[r] = Name
    BY AllIsHeld, PlanOrder DEF TInv, PutLayout, RunsTyped
  <2> QED
    BY <2>1, KindsOfNames DEF Layout, TInv, RunsTyped
<1>4. ASSUME NEW d \in objects PROVE [d EXCEPT !.shows = Layout(r, d)] \in Object
  BY <1>3 DEF TInv, Object
<1>5. objects' \subseteq Object
  BY <1>4 DEF PutLayout, TInv
<1> QED
  BY <1>1, <1>2, <1>5 DEF TInv, Object, Id

LEMMA CrashTInv ==
  ASSUME TInv, NEW r \in Run, Crash(r)
  PROVE  TInv'
<1>1. RunsTyped'
  BY EndTyped DEF TInv, Crash
<1>2. CountsTyped'
  BY SupersetAssumption DEF TInv, CountsTyped, Crash, Trouble
<1> QED
  BY <1>1, <1>2 DEF TInv, Crash, Object, Id

LEMMA DeleteTInv ==
  ASSUME TInv, NEW o \in objects, Delete(o)
  PROVE  TInv'
<1> DEFINE cut(x) == [x EXCEPT !.refs = IF o.name = "dashboard" THEN @ \ {o.id} ELSE @]
<1>1. objects' = {cut(x) : x \in objects \ {o}}
  BY DEF Delete
<1>2. \A x \in objects : cut(x) \in Object
  BY DEF TInv, Object
<1> HIDE DEF cut
<1>3. objects' \subseteq Object
  BY <1>1, <1>2
<1>4. RunsTyped'
  BY DEF TInv, RunsTyped, Delete, runVars, Active, Id, Plan
<1>5. CountsTyped'
  BY SupersetAssumption DEF TInv, CountsTyped, Delete, Trouble
<1> QED
  BY <1>3, <1>4, <1>5 DEF TInv, Delete, Object, Id

LEMMA OthersTInv ==
  ASSUME TInv, \/ \E t \in Range(Tables) : BuildMart(t)
               \/ \E res \in Resource : MakeOther(res)
               \/ \E n \in Name : MakeNamesake(n)
               \/ UNCHANGED vars
  PROVE  TInv'
<1>1. RunsTyped'
  BY DEF TInv, RunsTyped, BuildMart, MakeOther, MakeNamesake, vars, runVars, Active, Id, Plan
<1>2. ASSUME NEW res \in Resource, MakeOther(res) PROVE CountsTyped'
  BY <1>2, SupersetAssumption DEF TInv, CountsTyped, MakeOther, Trouble
<1>3. CountsTyped'
  <2>1. ASSUME NEW n \in Name, MakeNamesake(n) PROVE CountsTyped'
    BY <2>1, SupersetAssumption DEF TInv, CountsTyped, MakeNamesake, Trouble
  <2>2. (\E t \in Range(Tables) : BuildMart(t)) \/ UNCHANGED vars => CountsTyped'
    BY DEF TInv, CountsTyped, BuildMart, vars
  <2> QED
    BY <1>2, <2>1, <2>2
<1>4. ASSUME NEW n \in Name, MakeNamesake(n) PROVE objects' \subseteq Object
  BY <1>4, NewIsTyped DEF MakeNamesake, TInv
<1>5. objects' \subseteq Object
  BY <1>4 DEF TInv, BuildMart, MakeOther, vars
<1>6. marts' \subseteq Range(Tables)
  BY DEF TInv, BuildMart, MakeOther, MakeNamesake, vars
<1> QED
  BY <1>1, <1>3, <1>5, <1>6 DEF TInv, Object, Id

LEMMA NextTInv == TInv /\ [Next]_vars => TInv'
BY StartTInv, LookTInv, MakeTInv, PutLayoutTInv, CrashTInv, DeleteTInv, OthersTInv DEF Next, Step

(* Ids and references stay within their bounds, a run has the ids of just  *)
(* the objects its loop has passed, and every object others made counted.  *)
THEOREM TypeCorrect == Spec => []TypeOK
BY InitTInv, NextTInv, TypeFromTInv, PTL DEF Spec

-----------------------------------------------------------------------------
(* Why a run that ends well has built the dashboard.  As long as nothing   *)
(* spoiled it, every reference leads to the object of the right name       *)
(* (Linked), and the ids a run holds are those of the objects there (Held).*)
IdsUnique == \A o1, o2 \in objects : o1.id = o2.id => o1 = o2

RefersWell(o, things) ==
  /\ o.name \in Range(Tables) => \E b \in things : b.name = "database" /\ o.refs = {b.id}
  /\ o.name \in Range(Charts) =>
       \E t, d \in things : t.name = Source[o.name] /\ d.name = "dashboard" /\ o.refs = {t.id, d.id}
  /\ o.name \in {"database", "dashboard"} => o.refs = {}

Linked == \A o \in objects : RefersWell(o, objects)

Held == \A r \in Run : \A n \in DOMAIN got[r] : \E o \in Named(n) : o.id = got[r][n]

LInv ==
  /\ IdsUnique
  /\ spoiled = {} => Linked /\ Held

LEMMA InitLInv == Init => LInv
BY DEF Init, LInv, IdsUnique, Linked, Held, Named

(* Objects of the same ids, names and references are as well linked.       *)
LEMMA LinkedStays ==
  ASSUME Linked,
         \A o \in objects : \E x \in objects' : x.id = o.id /\ x.name = o.name,
         \A x \in objects' : \E o \in objects : o.name = x.name /\ o.refs = x.refs
  PROVE  Linked'
<1> SUFFICES ASSUME NEW x \in objects' PROVE RefersWell(x, objects')
  BY DEF Linked, RefersWell
<1>1. PICK o \in objects : o.name = x.name /\ o.refs = x.refs
  OBVIOUS
<1>2. RefersWell(o, objects)
  BY DEF Linked
<1> QED
  BY <1>1, <1>2 DEF RefersWell

LEMMA TakeHeld ==
  ASSUME Held, RunsTyped, NEW r \in Run, NEW i, Take(r, i), UNCHANGED objects,
         \E o \in Named(Plan[at[r]]) : o.id = i
  PROVE  Held'
<1>1. \A q \in Run \ {r} : got'[q] = got[q]
  BY DEF Take, RunsTyped
<1>2. got'[r] = [n \in DOMAIN got[r] \cup {Plan[at[r]]} |-> IF n = Plan[at[r]] THEN i ELSE got[r][n]]
  BY DEF Take, RunsTyped
<1>3. ASSUME NEW q \in Run, NEW n \in DOMAIN got'[q] PROVE \E o \in Named(n) : o.id = got'[q][n]
  BY <1>1, <1>2 DEF Held
<1> QED
  BY <1>3 DEF Held, Named

LEMMA EndHeld ==
  ASSUME Held, RunsTyped, NEW r \in Run, NEW how, End(r, how),
         \A o \in objects : \E x \in objects' : x.name = o.name /\ x.id = o.id
  PROVE  Held'
<1>1. got'[r] = <<>> /\ DOMAIN got'[r] = {} /\ \A q \in Run \ {r} : got'[q] = got[q]
  BY DEF End, RunsTyped
<1>2. ASSUME NEW q \in Run, NEW n \in DOMAIN got'[q] PROVE \E x \in objects' : x.name = n /\ x.id = got'[q][n]
  BY <1>1 DEF Held, Named
<1> QED
  BY <1>2 DEF Held, Named

LEMMA StartLInv ==
  ASSUME LInv, NEW r \in Run, Start(r)
  PROVE  LInv'
<1>1. UNCHANGED <<objects, got>> /\ (spoiled' = {} => spoiled = {})
  BY DEF Start
<1> QED
  BY <1>1 DEF LInv, IdsUnique, Linked, Held, Named

LEMMA LookLInv ==
  ASSUME TInv, LInv, NEW r \in Run, Look(r)
  PROVE  LInv'
<1>1. UNCHANGED objects /\ (spoiled' = {} => spoiled = {})
  BY DEF Look
<1>2. IdsUnique' /\ (spoiled' = {} => Linked')
  BY <1>1 DEF LInv, IdsUnique, Linked, Named
<1>3. ASSUME Held PROVE Held'
  <2>1. CASE UNCHANGED got
    BY <1>1, <1>3, <2>1 DEF Held, Named
  <2>2. ASSUME NEW o \in Named(Plan[at[r]]), Take(r, o.id) PROVE Held'
    BY <1>1, <1>3, <2>2, TakeHeld DEF TInv
  <2> QED
    BY <2>1, <2>2 DEF Look, Page, InResource, Named
<1> QED
  BY <1>1, <1>2, <1>3 DEF LInv

(* What is posted refers to what the run holds.                            *)
LEMMA MakeLInv ==
  ASSUME TInv, LInv, NEW r \in Run, Make(r)
  PROVE  LInv'
<1> DEFINE n == Plan[at[r]]  refs == Payload(n, got[r])  new == New(n, refs)
<1>1. at[r] <= Len(Plan) /\ n \in Name /\ spoiled' = spoiled
  BY RefsAreHeld DEF TInv, RunsTyped, Make
<1>2. CASE End(r, "failed") /\ UNCHANGED objects
  <2>1. Held => Held'
    BY <1>2, EndHeld DEF TInv
  <2>2. IdsUnique' /\ (Linked => Linked')
    BY <1>2 DEF LInv, IdsUnique, Linked, Named
  <2> QED
    BY <1>1, <2>1, <2>2 DEF LInv
<1>3. CASE Unused # {} /\ objects' = objects \cup {new} /\ Take(r, NewId)
  <2>1. /\ refs \subseteq Id
        /\ n \in Range(Tables) => "database" \in DOMAIN got[r] /\ refs = {got[r]["database"]}
        /\ n \in Range(Charts) => /\ "dashboard" \in DOMAIN got[r] /\ Source[n] \in DOMAIN got[r]
                                  /\ refs = {got[r][Source[n]], got[r]["dashboard"]}
        /\ n \in {"database", "dashboard"} => refs = {}
    <3>1. refs \subseteq {got[r][m] : m \in DOMAIN got[r]}
      BY <1>1, PayloadIsHeld DEF TInv
    <3>2. refs \subseteq Id
      BY <3>1 DEF TInv, RunsTyped
    <3> QED
      BY <1>1, <3>2, RefsAreHeld, KindsOfNames DEF TInv, Payload
  <2> HIDE DEF n, refs
  <2>2. new.id = NewId /\ new.name = n /\ new.refs = refs /\ \A o \in objects : NewId # o.id
    BY <1>1, <1>3, <2>1, NewIsTyped DEF New
  <2> HIDE DEF new
  <2>3. IdsUnique'
    BY <1>3, <2>2 DEF LInv, IdsUnique
  <2>4. ASSUME Held PROVE Held'
    <3>1. got'[r] = [m \in DOMAIN got[r] \cup {n} |-> IF m = n THEN NewId ELSE got[r][m]]
      BY <1>3 DEF Take, TInv, RunsTyped, n
    <3>2. \A q \in Run \ {r} : got'[q] = got[q]
      BY <1>3 DEF Take, TInv, RunsTyped
    <3>3. ASSUME NEW q \in Run, NEW m \in DOMAIN got'[q]
          PROVE  \E x \in objects' : x.name = m /\ x.id = got'[q][m]
      BY <1>3, <2>2, <2>4, <3>1, <3>2 DEF Held, Named
    <3> QED
      BY <3>3 DEF Held, Named
  <2>5. ASSUME Held, Linked PROVE Linked'
    <3>1. \A o \in objects : RefersWell(o, objects')
      BY <1>3, <2>5 DEF Linked, RefersWell
    <3>2. RefersWell(new, objects')
      BY <1>3, <2>1, <2>2, <2>5 DEF Held, Named, RefersWell
    <3> QED
      BY <1>3, <3>1, <3>2 DEF Linked, RefersWell
  <2> QED
    BY <1>1, <2>3, <2>4, <2>5 DEF LInv
<1> QED
  BY <1>2, <1>3 DEF Make

LEMMA PutLayoutLInv ==
  ASSUME TInv, LInv, NEW r \in Run, PutLayout(r)
  PROVE  LInv'
<1> DEFINE kept ==
             /\ \A o \in objects : \E x \in objects' : x.id = o.id /\ x.name = o.name
             /\ \A x \in objects' : \E o \in objects : o.name = x.name /\ o.refs = x.refs
             /\ IdsUnique'
<1>1. kept
  <2>1. CASE UNCHANGED objects
    BY <2>1 DEF LInv, IdsUnique
  <2>2. ASSUME NEW d \in objects, objects' = (objects \ {d}) \cup {[d EXCEPT !.shows = Layout(r, d)]}
        PROVE  kept
    <3> DEFINE e == [d EXCEPT !.shows = Layout(r, d)]
    <3>1. e.id = d.id /\ e.name = d.name /\ e.refs = d.refs
      BY DEF TInv, Object
    <3> HIDE DEF e
    <3>2. objects' = (objects \ {d}) \cup {e}
      BY <2>2 DEF e
    <3> QED
      BY <3>1, <3>2 DEF LInv, IdsUnique
  <2> QED
    BY <2>1, <2>2 DEF PutLayout
<1>2. Linked => Linked'
  BY <1>1, LinkedStays
<1>3. Held => Held'
  BY <1>1, EndHeld DEF PutLayout, TInv
<1> QED
  BY <1>1, <1>2, <1>3 DEF LInv, PutLayout

LEMMA CrashLInv ==
  ASSUME TInv, LInv, NEW r \in Run, Crash(r)
  PROVE  LInv'
<1>1. UNCHANGED <<objects, spoiled>>
  BY DEF Crash
<1>2. Held => Held'
  BY <1>1, EndHeld DEF Crash, TInv
<1> QED
  BY <1>1, <1>2 DEF LInv, IdsUnique, Linked

(* Nothing else refers to what is deleted, and no run holds ids.           *)
LEMMA DeleteLInv ==
  ASSUME TInv, LInv, NEW o \in objects, Delete(o)
  PROVE  LInv'
<1> DEFINE cut(x) == [x EXCEPT !.refs = IF o.name = "dashboard" THEN @ \ {o.id} ELSE @]
<1>1. objects' = {cut(x) : x \in objects \ {o}}
  BY DEF Delete
<1>2. \A x \in objects : cut(x).id = x.id
  BY DEF TInv, Object
<1>3. \A x \in objects : o.id \notin x.refs => cut(x) = x
  BY DEF TInv, Object
<1> HIDE DEF cut
<1>4. IdsUnique'
  BY <1>1, <1>2 DEF LInv, IdsUnique
<1>5. ASSUME spoiled' = {} PROVE Linked' /\ Held'
  <2>1. spoiled = {} /\ Active = {} /\ \A x \in objects : o.id \notin x.refs
    BY <1>5 DEF Delete
  <2>2. objects' = objects \ {o}
    BY <1>1, <1>3, <2>1
  <2>3. Linked'
    <3>1. \A x \in objects : RefersWell(x, objects)
      BY <2>1 DEF LInv, Linked
    <3>2. \A x \in objects : RefersWell(x, objects \ {o})
      BY <2>1, <3>1 DEF RefersWell
    <3> QED
      BY <2>2, <3>2 DEF Linked, RefersWell
  <2>4. \A r \in Run : got'[r] = got[r] /\ DOMAIN got[r] = {}
    <3>1. \A r \in Run : DOMAIN got[r] = {Plan[k] : k \in 1..(1 - 1)}
      BY <2>1 DEF TInv, RunsTyped
    <3> QED
      BY <3>1 DEF Delete, runVars
  <2>5. Held'
    BY <2>4 DEF Held, Named
  <2> QED
    BY <2>3, <2>5
<1> QED
  BY <1>4, <1>5 DEF LInv

LEMMA OthersLInv ==
  ASSUME TInv, LInv, \/ \E t \in Range(Tables) : BuildMart(t)
                     \/ \E res \in Resource : MakeOther(res)
                     \/ \E n \in Name : MakeNamesake(n)
                     \/ UNCHANGED vars
  PROVE  LInv'
<1>1. ASSUME NEW n \in Name, MakeNamesake(n) PROVE IdsUnique' /\ spoiled' # {}
  <2>1. New(n, {}).id = NewId /\ \A o \in objects : NewId # o.id
    BY <1>1, NewIsTyped DEF MakeNamesake, New
  <2> QED
    BY <1>1, <2>1 DEF MakeNamesake, LInv, IdsUnique
<1>2. CASE UNCHANGED <<objects, got, spoiled>>
  BY <1>2 DEF LInv, IdsUnique, Linked, Held, Named
<1> QED
  BY <1>1, <1>2 DEF BuildMart, MakeOther, vars, runVars, LInv

IInv == TInv /\ DInv /\ LInv

LEMMA Inductive == Spec => []IInv
<1>1. Init => IInv
  BY InitTInv, InitDInv, InitLInv DEF IInv
<1>2. IInv /\ [Next]_vars => LInv'
  BY StartLInv, LookLInv, MakeLInv, PutLayoutLInv, CrashLInv, DeleteLInv, OthersLInv
     DEF Next, Step, IInv
<1>3. IInv /\ [Next]_vars => IInv'
  BY <1>2, NextTInv, NextDInv DEF IInv
<1> QED
  BY <1>1, <1>3, PTL DEF Spec

-----------------------------------------------------------------------------
(* With nothing spoiled: what a run holds at the end is everything.        *)
LEMMA HoldsAll ==
  ASSUME IInv, spoiled = {}, NEW r \in Run, at[r] > Len(Plan),
         NEW d \in objects, d.id = got[r]["dashboard"]
  PROVE  /\ d.name = "dashboard"
         /\ \A n \in Name : \E o \in objects : o.name = n /\ o.id = got[r][n]
<1>1. \A n \in Name : \E o \in objects : o.name = n /\ o.id = got[r][n]
  BY AllIsHeld DEF IInv, TInv, LInv, Held, Named
<1>2. PICK o \in objects : o.name = "dashboard" /\ o.id = got[r]["dashboard"]
  BY <1>1, KindsOfNames
<1>3. o = d
  BY <1>2 DEF IInv, LInv, IdsUnique
<1> QED
  BY <1>1, <1>2, <1>3

(* The charts of the layout are linked to the dashboard that gets it.      *)
LEMMA LayoutBuilds ==
  ASSUME IInv, spoiled = {}, NEW r \in Run, at[r] > Len(Plan),
         NEW d \in objects, d.id = got[r]["dashboard"],
         objects' = (objects \ {d}) \cup {[d EXCEPT !.shows = Layout(r, d)]}
  PROVE  \E e \in objects' : Built(e)'
<1> DEFINE e == [d EXCEPT !.shows = Layout(r, d)]
<1>1. d.name = "dashboard" /\ \A n \in Name : \E o \in objects : o.name = n /\ o.id = got[r][n]
  BY HoldsAll
<1>2. e.id = d.id /\ e.name = d.name /\ e.refs = d.refs /\ e.shows = {got[r][n] : n \in Range(Charts)}
  BY DEF IInv, TInv, Object, Layout
<1>3. e \in objects' /\ \A o \in objects : o.name # "dashboard" => o \in objects'
  BY <1>1
<1>4. \A x, y \in objects : x.name = y.name => x = y
  BY DEF IInv, DInv, Untroubled, Single
<1>5. \A o \in objects : RefersWell(o, objects)
  BY DEF IInv, LInv, Linked
<1> SUFFICES ASSUME NEW f \in objects', f = e PROVE Built(f)'
  BY <1>3
<1> HIDE DEF e
<1>6. ASSUME NEW n \in Range(Charts)
      PROVE  \E c, t, b \in objects' :
               /\ c.name = n /\ t.name = Source[n] /\ b.name = "database"
               /\ c.id = got[r][n] /\ f.id \in c.refs
               /\ t.id \in c.refs /\ b.id \in t.refs
  <2>1. PICK c \in objects : c.name = n /\ c.id = got[r][n]
    BY <1>1, KindsOfNames
  <2>2. PICK t \in objects, x \in objects :
          t.name = Source[n] /\ x.name = "dashboard" /\ c.refs = {t.id, x.id}
    BY <1>5, <2>1 DEF RefersWell
  <2>3. x = d
    BY <1>1, <1>4, <2>2
  <2>4. PICK b \in objects : b.name = "database" /\ t.refs = {b.id}
    BY <1>5, <2>2, KindsOfNames DEF RefersWell
  <2>5. c \in objects' /\ t \in objects' /\ b \in objects'
    BY <1>3, <2>1, <2>2, <2>4, KindsOfNames
  <2> QED
    BY <1>2, <2>1, <2>2, <2>3, <2>4, <2>5
<1> QED
  BY <1>1, <1>2, <1>6 DEF Built, Named

(* A run that completes has built the whole dashboard, from whatever state *)
(* earlier runs and users left, as long as nothing spoiled it.             *)
THEOREM CompletedRunsHaveBuilt == Spec => DoneMeansBuilt
<1>1. ASSUME IInv, [Next]_vars, NEW r \in Run, pc[r] # "done", pc'[r] = "done", spoiled = {}
      PROVE  \E d \in objects' : Built(d)'
  <2>1. pc \in [Run -> {"off", "look", "make", "done", "failed"}]
    BY <1>1 DEF IInv, DInv
  <2>2. PutLayout(r)
    <3>1. ASSUME NEW q \in Run, Start(q) \/ Look(q) \/ Make(q) \/ Crash(q) PROVE FALSE
      BY <1>1, <2>1, <3>1 DEF Start, Look, Make, Crash, Take, End
    <3>2. ASSUME NEW q \in Run, PutLayout(q) PROVE q = r
      BY <1>1, <2>1, <3>2 DEF PutLayout, End
    <3> QED
      BY <1>1, <3>1, <3>2
         DEF Next, Step, BuildMart, Delete, MakeOther, MakeNamesake, vars, runVars
  <2>3. PICK d \in objects : /\ d.id = got[r]["dashboard"]
                             /\ objects' = (objects \ {d}) \cup {[d EXCEPT !.shows = Layout(r, d)]}
    BY <1>1, <2>1, <2>2 DEF PutLayout, End
  <2> QED
    BY <1>1, <2>2, <2>3, LayoutBuilds DEF PutLayout
<1>2. IInv /\ [Next]_vars =>
        \A r \in Run : pc[r] # "done" /\ pc'[r] = "done" /\ spoiled = {} => \E d \in objects' : Built(d)'
  BY <1>1
<1> QED
  BY <1>2, Inductive, PTL DEF Spec, DoneMeansBuilt

-----------------------------------------------------------------------------
LEMMA BuiltIsWhole ==
  ASSUME NEW d \in objects, Built(d)
  PROVE  \A n \in Name : Named(n) # {}
<1>1. \A n \in Range(Charts) : Named(n) # {} /\ Named(Source[n]) # {} /\ Named("database") # {}
  BY DEF Built
<1>2. PICK n \in Range(Charts) : TRUE
  <2>1. Len(Charts) \in Nat \ {0} /\ DOMAIN Charts = 1..Len(Charts)
    BY SupersetAssumption, EmptySeq, LenProperties
  <2> QED
    BY <2>1 DEF Range
<1>3. \A t \in Range(Tables) : \E c \in Range(Charts) : t = Source[c]
  <2>1. Range(Source) = {Source[c] : c \in Range(Charts)}
    BY SupersetAssumption DEF Range
  <2> QED
    BY <2>1, SupersetAssumption
<1> QED
  BY <1>1, <1>2, <1>3 DEF Name, Built, Named

(* A layout that is there already is put again.                            *)
LEMMA SameLayout ==
  ASSUME IInv, spoiled = {}, NEW r \in Run, at[r] > Len(Plan),
         NEW d \in objects, d.id = got[r]["dashboard"], NEW b \in objects, Built(b)
  PROVE  [d EXCEPT !.shows = Layout(r, d)] = d
<1>1. d.name = "dashboard" /\ \A n \in Name : \E o \in objects : o.name = n /\ o.id = got[r][n]
  BY HoldsAll
<1>2. \A x, y \in objects : x.name = y.name => x = y
  BY DEF IInv, DInv, Untroubled, Single
<1>3. b = d
  BY <1>1, <1>2 DEF Built
<1>4. ASSUME NEW n \in Range(Charts) PROVE got[r][n] \in d.shows
  BY <1>1, <1>2, <1>3, KindsOfNames DEF Built, Named
<1>5. ASSUME NEW i \in d.shows PROVE \E n \in Range(Charts) : i = got[r][n]
  <2>1. PICK c \in objects : c.id = i /\ d.id \in c.refs
    BY <1>3 DEF Built
  <2>2. RefersWell(c, objects) /\ c.name \in Name
    BY DEF IInv, TInv, Object, LInv, Linked
  <2>3. c.name \notin Range(Tables)
    BY <1>1, <2>1, <2>2, KindsOfNames DEF RefersWell, IInv, LInv, IdsUnique
  <2>4. c.name \in Range(Charts)
    BY <2>1, <2>2, <2>3 DEF RefersWell, Name
  <2> QED
    BY <1>1, <1>2, <2>1, <2>4, KindsOfNames
<1>6. Layout(r, d) = d.shows
  BY <1>4, <1>5 DEF Layout
<1> QED
  BY <1>6 DEF IInv, TInv, Object

(* Once the dashboard is built, another run finds all of it and leaves     *)
(* Superset as it is, down to the layout it puts.                          *)
THEOREM RerunsChangeNothing == Spec => RerunChangesNothing
<1>1. ASSUME IInv, [Next]_vars, NEW b \in objects, Built(b), spoiled' = {}, trouble' = trouble
      PROVE  objects' = objects
  <2>1. ASSUME NEW r \in Run, Make(r) PROVE FALSE
    <3>1. spoiled = {} /\ at[r] <= Len(Plan) /\ pc[r] = "make"
      BY <1>1, <2>1 DEF Make, IInv, TInv, RunsTyped
    <3>2. Named(Plan[at[r]]) = {} /\ Plan[at[r]] \in Name
      BY <1>1, <3>1, RefsAreHeld DEF IInv, DInv, Untroubled, NotSeen, TInv
    <3> QED
      BY <1>1, <3>2, BuiltIsWhole
  <2>2. ASSUME NEW r \in Run, PutLayout(r) PROVE objects' = objects
    <3>1. spoiled = {} /\ at[r] > Len(Plan)
      BY <1>1, <2>2 DEF PutLayout
    <3>2. CASE \E d \in objects : /\ d.id = got[r]["dashboard"]
                                  /\ objects' = (objects \ {d}) \cup {[d EXCEPT !.shows = Layout(r, d)]}
      BY <1>1, <3>1, <3>2, SameLayout
    <3> QED
      BY <2>2, <3>2 DEF PutLayout
  <2>3. ASSUME Trouble PROVE FALSE
    BY <1>1, <2>3 DEF Trouble, IInv, TInv, CountsTyped
  <2> QED
    BY <1>1, <2>1, <2>2, <2>3
       DEF Next, Step, Start, Look, Crash, BuildMart, Delete, MakeOther, MakeNamesake, vars
<1>2. IInv /\ [Next]_vars =>
        ((\E d \in objects : Built(d)) /\ spoiled' = {} /\ trouble' = trouble => objects' = objects)
  BY <1>1
<1> QED
  BY <1>2, Inductive, PTL DEF Spec, RerunChangesNothing
=============================================================================

-------------------------- MODULE StrictVerifyProofs --------------------------
(***************************************************************************)
(* That no command outlives its owner unwatched, and that what is reported *)
(* as ended is gone, for every number of groups, stages and mishaps.       *)
(*                                                                         *)
(* A running process always has an armed watcher, not only one whose owner *)
(* is gone (Watched): a leader is released after its watcher is ready, and *)
(* what takes the watcher away has killed or seen dead every member first. *)
(* A verified group stays gone (Ended).  A stage only ends well when every *)
(* engine it ran was reported as ended (Clean, EndsWell), and the verifier *)
(* has only passed where each of its stages did (Passed).                  *)
(*                                                                         *)
(* The last part proves the releases (Packaging) safe: while its checkout  *)
(* has not been put back, a build's reading is the commit that it noted or *)
(* the checkout shows by its status or its HEAD that it is not.            *)
(***************************************************************************)
EXTENDS StrictVerify, Packaging, TLAPS

Watcher == {"none", "armed", "fired", "off"}
Step    == {"free", "arm", "release", "wait", "grace", "kill", "confirm"}
Word    == {"none", "verified", "unverified", "launch"}
Status  == {"passed", "failed", "blocked"}

GroupRecord == [owner : Owner, run : Nat, leader : Member,
                helper : {"none", "run", "doomed"}, watch : Watcher,
                told : Word, code : {"none", "ok", "bad"}]
SupRecord == [pc : Step, child : Owner, timed : BOOLEAN, quit : BOOLEAN, clean : BOOLEAN]

Shape ==
  /\ group \in [Group -> GroupRecord]
  /\ sup \in [Owner -> SupRecord]
  /\ strict \in [run : Nat, up : BOOLEAN, status : Seq(Status), abort : BOOLEAN,
                 verdict : {"none"} \cup Status]

Exists(g) == group[g].leader # "none"
Lives(r)  == r.leader \in {"held", "released", "run"} \/ r.helper = "run"
Alive(g)  == Lives(group[g])
Busy(o)   == sup[o].pc # "free"

\* A busy owner supervises a group of its own that exists and was not reported.
Supervised ==
  \A o \in Owner : Busy(o) => /\ sup[o].child \in Group
                              /\ Exists(sup[o].child)
                              /\ group[sup[o].child].owner = o
                              /\ group[sup[o].child].told = "none"

\* Who started a group exists, and is the verifier or one of its stages.
Descent ==
  \A g \in Group : Exists(g) /\ group[g].owner \in Group =>
    /\ Exists(group[g].owner)
    /\ group[group[g].owner].owner = Verifier
    /\ group[group[g].owner].run = group[g].run

\* What a record of a group says of its watcher.
OnLeash(r) ==
  /\ r.leader \in {"released", "run"} \/ r.helper = "run" => r.watch = "armed"
  /\ r.watch \in {"fired", "off"} => ~Lives(r)
  /\ r.leader = "none" => r.helper = "none"

Watched ==
  /\ \A g \in Group : OnLeash(group[g])
  /\ \A o \in Owner :
       /\ sup[o].pc = "release" => group[sup[o].child].watch # "none"
       /\ sup[o].pc = "confirm" => ~Alive(sup[o].child)

Ended == \A g \in Group : group[g].told = "verified" => Gone(g) /\ Exists(g)

\* An engine is the present one of its stage, was reported as ended, or else
\* the stage knows of it.
Clean ==
  \A h \in Group :
    Exists(h) /\ group[h].owner \in Group =>
      \/ group[h].told = "verified"
      \/ Busy(group[h].owner) /\ sup[group[h].owner].child = h
      \/ ~sup[group[h].owner].clean

EndsWell ==
  \A g \in Group :
    group[g].code = "ok" => group[g].leader = "dead" /\ ~Busy(g) /\ sup[g].clean

AllPassed == \A i \in 1 .. Len(strict.status) : strict.status[i] = "passed"

\* A stage and every engine it ran were reported as ended.
Over(g) ==
  /\ group[g].told = "verified"
  /\ \A h \in Group : Exists(h) /\ group[h].owner = g => group[h].told = "verified"

Passed ==
  /\ \A g \in Group : Exists(g) => group[g].run <= strict.run
  /\ strict.verdict # "none" => ~Busy(Verifier)
  /\ strict.verdict = "passed" => AllPassed
  /\ (strict.up \/ strict.verdict = "passed") /\ AllPassed =>
       \A g \in Group :
         Exists(g) /\ group[g].owner = Verifier /\ group[g].run = strict.run =>
           (Busy(Verifier) /\ sup[Verifier].child = g) \/ Over(g)

IInv == Shape /\ Supervised /\ Descent /\ Watched /\ Ended /\ Clean /\ EndsWell /\ Passed

LEMMA VerifierIsNoGroup == Verifier \notin Group
  BY DEF Verifier, Group

LEMMA InitInv == StrictInit => IInv
<1> SUFFICES ASSUME StrictInit PROVE IInv
  OBVIOUS
<1> USE VerifierIsNoGroup
<1>1. Shape
  BY DEF StrictInit, Shape, Ungroup, Unbusy, NewRun, GroupRecord, SupRecord, Owner,
         Member, Watcher, Step, Word, Status, Verifier
<1>2. \A g \in Group : group[g] = Ungroup
  BY DEF StrictInit
<1>3. \A o \in Owner : sup[o] = Unbusy
  BY DEF StrictInit
<1>4. strict.status = <<>> /\ strict.verdict = "none"
  BY DEF StrictInit, NewRun
<1> QED
  BY <1>1, <1>2, <1>3, <1>4
     DEF IInv, Supervised, Descent, Watched, Ended, Clean, EndsWell, Passed,
         Exists, Alive, Lives, OnLeash, Busy, Gone, Ungroup, Unbusy

(***************************************************************************)
(* Steps that neither start nor report a group.                            *)
(***************************************************************************)

\* What such a step may make of a group and of an owner.
KeepsGroup(g, r) ==
  /\ r.owner = group[g].owner /\ r.run = group[g].run /\ r.told = group[g].told
  /\ r.leader = "none" <=> group[g].leader = "none"
  /\ OnLeash(r)
  /\ Lives(r) => Alive(g)
  /\ Gone(g) => r.leader \in {"none", "dead"} /\ r.helper = "none"
  /\ group[g].watch # "none" => r.watch # "none"
  /\ r.code = "ok" => /\ r.leader = "dead"
                      /\ group[g].code = "ok" \/ (~Busy(g) /\ sup[g].clean)

KeepsOwner(o, s, g, r) ==
  /\ s.child = sup[o].child /\ s.clean = sup[o].clean
  /\ s.pc = "free" <=> ~Busy(o)
  /\ s.pc = "release" => sup[o].pc = "release" \/ (sup[o].child = g /\ r.watch # "none")
  /\ s.pc = "confirm" => sup[o].pc = "confirm" \/ (sup[o].child = g /\ ~Lives(r))

LEMMA QuietStep ==
  ASSUME IInv, NEW g \in Group, NEW o \in Owner, NEW r \in GroupRecord, NEW s \in SupRecord,
         group' = [group EXCEPT ![g] = r], sup' = [sup EXCEPT ![o] = s], strict' = strict,
         KeepsGroup(g, r), KeepsOwner(o, s, g, r)
  PROVE  IInv'
<1> USE DEF IInv, Shape, KeepsGroup, KeepsOwner
<1>1. Shape'
  OBVIOUS
<1>2. \A x \in Group : group'[x] = IF x = g THEN r ELSE group[x]
  OBVIOUS
<1>3. \A x \in Owner : sup'[x] = IF x = o THEN s ELSE sup[x]
  OBVIOUS
<1>4. Group \subseteq Owner /\ Verifier \in Owner
  BY DEF Owner
<1>5. \A x \in Group : /\ Exists(x)' <=> Exists(x)
                       /\ group'[x].owner = group[x].owner
                       /\ group'[x].run = group[x].run
                       /\ group'[x].told = group[x].told
  BY <1>2 DEF Exists
<1>6. \A x \in Owner : /\ Busy(x)' <=> Busy(x)
                       /\ sup'[x].child = sup[x].child
                       /\ sup'[x].clean = sup[x].clean
  BY <1>3 DEF Busy
<1>7. \A x \in Group : Alive(x)' => Alive(x)
  BY <1>2 DEF Alive
<1>8. Supervised'
  BY <1>5, <1>6 DEF Supervised
<1>9. Descent'
  BY <1>5 DEF Descent
<1>10. Watched'
  <2>1. \A x \in Group : OnLeash(group[x])'
    BY <1>2 DEF Watched, OnLeash, Lives
  <2>2. ASSUME NEW x \in Owner, (sup[x].pc = "release")'
        PROVE  (group[sup[x].child].watch # "none")'
    BY <2>2, <1>2, <1>3, <1>6 DEF Watched, Supervised, Busy
  <2>3. ASSUME NEW x \in Owner, (sup[x].pc = "confirm")'
        PROVE  ~Alive(sup[x].child)'
    <3>1. sup'[x].child \in Group
      BY <2>3, <1>3, <1>6 DEF Supervised, Busy
    <3>2. CASE sup[x].pc = "confirm"
      BY <3>1, <3>2, <1>6, <1>7 DEF Watched, Alive
    <3>3. CASE x = o /\ sup[o].child = g /\ ~Lives(r)
      BY <3>3, <1>2, <1>6 DEF Alive
    <3> QED  BY <2>3, <3>2, <3>3, <1>3
  <2> QED  BY <2>1, <2>2, <2>3 DEF Watched
<1>11. Ended'
  BY <1>2, <1>5 DEF Ended, Gone
<1>12. Clean'
  BY <1>4, <1>5, <1>6 DEF Clean
<1>13. EndsWell'
  BY <1>2, <1>4, <1>6 DEF EndsWell
<1>14. Passed'
  BY <1>4, <1>5, <1>6 DEF Passed, AllPassed, Over
<1> QED
  BY <1>1, <1>8, <1>9, <1>10, <1>11, <1>12, <1>13, <1>14

LEMMA GroupStep ==
  ASSUME IInv, NEW g \in Group, NEW r \in GroupRecord, KeepsGroup(g, r),
         group' = [group EXCEPT ![g] = r], sup' = sup, strict' = strict
  PROVE  IInv'
<1>1. g \in Owner /\ sup[g] \in SupRecord /\ sup' = [sup EXCEPT ![g] = sup[g]]
  BY DEF IInv, Shape, Owner
<1>2. KeepsOwner(g, sup[g], g, r)
  BY DEF KeepsOwner, Busy
<1> QED
  BY <1>1, <1>2, QuietStep

LEMMA SameGroup ==
  ASSUME IInv, NEW g \in Group
  PROVE  group[g] \in GroupRecord /\ KeepsGroup(g, group[g])
  BY DEF IInv, Shape, KeepsGroup, Watched, EndsWell, Alive, Gone

LEMMA OwnerStep ==
  ASSUME IInv, NEW o \in Owner, NEW s \in SupRecord, sup[o].child \in Group,
         KeepsOwner(o, s, sup[o].child, group[sup[o].child]),
         group' = group, sup' = [sup EXCEPT ![o] = s], strict' = strict
  PROVE  IInv'
<1> DEFINE g == sup[o].child
<1>1. group' = [group EXCEPT ![g] = group[g]]
  BY DEF IInv, Shape
<1> HIDE DEF g
<1>2. g \in Group /\ KeepsOwner(o, s, g, group[g])
  BY DEF g
<1> QED
  BY <1>1, <1>2, SameGroup, QuietStep

(***************************************************************************)
(* The commands and their watchers.                                        *)
(***************************************************************************)

LEMMA DoomedRecord ==
  ASSUME NEW r \in GroupRecord
  PROVE  /\ Doomed(r) = [r EXCEPT !.leader = Doom(r.leader), !.helper = Doom(r.helper)]
         /\ Doomed(r) \in GroupRecord
         /\ ~Lives(Doomed(r))
         /\ Doomed(r).leader = "none" <=> r.leader = "none"
         /\ Doomed(r).helper = "none" <=> r.helper = "none"
         /\ Doomed(r).leader = "dead" <=> r.leader = "dead"
<1> DEFINE d == [r EXCEPT !.leader = Doom(r.leader), !.helper = Doom(r.helper)]
<1>1. Doomed(r) = d
  BY DEF Doomed
<1>2. Doom(r.leader) \in Member /\ Doom(r.helper) \in {"none", "run", "doomed"}
  BY DEF Doom, GroupRecord, Member
<1>3. d \in GroupRecord /\ d.leader = Doom(r.leader) /\ d.helper = Doom(r.helper)
  BY <1>2 DEF GroupRecord
<1>4. /\ Doom(r.leader) \notin {"held", "released", "run"} /\ Doom(r.helper) # "run"
      /\ Doom(r.leader) = "none" <=> r.leader = "none"
      /\ Doom(r.helper) = "none" <=> r.helper = "none"
      /\ Doom(r.leader) = "dead" <=> r.leader = "dead"
  BY DEF Doom, GroupRecord, Member
<1> QED
  BY <1>1, <1>3, <1>4 DEF Lives

LEMMA EndedRecord ==
  ASSUME IInv, NEW g \in Group
  PROVE  LET r == Doomed([group[g] EXCEPT !.watch = "fired"])
         IN  r \in GroupRecord /\ KeepsGroup(g, r) /\ ~Lives(r)
<1> DEFINE w == [group[g] EXCEPT !.watch = "fired"]
           r == Doomed(w)
<1>1. /\ group[g] \in GroupRecord /\ OnLeash(group[g])
      /\ group[g].code = "ok" => group[g].leader = "dead"
  BY DEF IInv, Shape, Watched, EndsWell
<1>2. /\ w \in GroupRecord /\ w.watch = "fired"
      /\ w.owner = group[g].owner /\ w.run = group[g].run /\ w.told = group[g].told
      /\ w.leader = group[g].leader /\ w.helper = group[g].helper /\ w.code = group[g].code
  BY <1>1 DEF GroupRecord, Watcher
<1>3. /\ r \in GroupRecord /\ ~Lives(r)
      /\ r.leader = "none" <=> w.leader = "none"
      /\ r.helper = "none" <=> w.helper = "none"
      /\ r.leader = "dead" <=> w.leader = "dead"
  BY <1>2, DoomedRecord
<1>4. /\ r.owner = w.owner /\ r.run = w.run /\ r.told = w.told
      /\ r.watch = w.watch /\ r.code = w.code
  BY <1>2 DEF Doomed, GroupRecord
<1> HIDE DEF r, w
<1>5. KeepsGroup(g, r)
  BY <1>1, <1>2, <1>3, <1>4 DEF KeepsGroup, OnLeash, Gone, Lives
<1> QED
  BY <1>3, <1>5 DEF r, w

LEMMA CommandInv ==
  ASSUME IInv, NEW g \in Group, CommandStep(g)
  PROVE  IInv'
<1> DEFINE G == group[g]
<1>1. /\ G \in GroupRecord /\ OnLeash(G) /\ group \in [Group -> GroupRecord]
      /\ G.code = "ok" => G.leader = "dead" /\ ~Busy(g) /\ sup[g].clean
  BY DEF IInv, Shape, Watched, EndsWell
<1> USE <1>1
<1>2. CASE Become(g)
  <2> DEFINE r == [G EXCEPT !.leader = IF HasOwner(g) THEN "run" ELSE "dead"]
  <2>1. group' = [group EXCEPT ![g] = r] /\ sup' = sup /\ strict' = strict
    BY <1>2 DEF Become
  <2>2. r \in GroupRecord /\ KeepsGroup(g, r)
    BY <1>2 DEF Become,
       GroupRecord, Member, Watcher, KeepsGroup, OnLeash, Lives, Alive, Gone
  <2> QED  BY <2>1, <2>2, GroupStep
<1>3. CASE HeldInVain(g)
  <2> DEFINE r == [G EXCEPT !.leader = "dead"]
  <2>1. group' = [group EXCEPT ![g] = r] /\ sup' = sup /\ strict' = strict
    BY <1>3 DEF HeldInVain
  <2>2. r \in GroupRecord /\ KeepsGroup(g, r)
    BY <1>3 DEF HeldInVain,
       GroupRecord, Member, Watcher, KeepsGroup, OnLeash, Lives, Alive, Gone
  <2> QED  BY <2>1, <2>2, GroupStep
<1>4. CASE Fork(g)
  <2> DEFINE r == [G EXCEPT !.helper = "run"]
  <2>1. group' = [group EXCEPT ![g] = r] /\ sup' = sup /\ strict' = strict
    BY <1>4 DEF Fork
  <2>2. r \in GroupRecord /\ KeepsGroup(g, r)
    BY <1>4 DEF Fork,
       GroupRecord, Member, Watcher, KeepsGroup, OnLeash, Lives, Alive, Gone
  <2> QED  BY <2>1, <2>2, GroupStep
<1>5. CASE ExitHelper(g)
  <2> DEFINE r == [G EXCEPT !.helper = "none"]
  <2>1. group' = [group EXCEPT ![g] = r] /\ sup' = sup /\ strict' = strict
    BY <1>5 DEF ExitHelper
  <2>2. r \in GroupRecord /\ KeepsGroup(g, r)
    BY <1>5 DEF ExitHelper,
       GroupRecord, Member, Watcher, KeepsGroup, OnLeash, Lives, Alive, Gone
  <2> QED  BY <2>1, <2>2, GroupStep
<1>6. ASSUME NEW code \in {"ok", "bad"}, ExitLeader(g, code)
      PROVE  IInv'
  <2> DEFINE r == [G EXCEPT !.leader = "dead", !.code = code]
  <2>1. group' = [group EXCEPT ![g] = r] /\ sup' = sup /\ strict' = strict
    BY <1>6 DEF ExitLeader
  <2>2. r \in GroupRecord /\ KeepsGroup(g, r)
    BY <1>6 DEF ExitLeader, Busy,
       GroupRecord, Member, Watcher, KeepsGroup, OnLeash, Lives, Alive, Gone
  <2> QED  BY <2>1, <2>2, GroupStep
<1>7. CASE KillMember(g)
  <2> DEFINE r == [G EXCEPT !.leader = "dead", !.code = "bad"]
  <2>1. group' = [group EXCEPT ![g] = r] /\ sup' = sup /\ strict' = strict
    BY <1>7 DEF KillMember
  <2>2. r \in GroupRecord /\ KeepsGroup(g, r)
    BY <1>7 DEF KillMember,
       GroupRecord, Member, Watcher, KeepsGroup, OnLeash, Lives, Alive, Gone
  <2> QED  BY <2>1, <2>2, GroupStep
<1>8. CASE Die(g)
  <2>1. CASE G.leader = "doomed" /\ group' = [group EXCEPT ![g].leader = "dead"]
    <3> DEFINE r == [G EXCEPT !.leader = "dead"]
    <3>1. group' = [group EXCEPT ![g] = r] /\ sup' = sup /\ strict' = strict
      BY <1>8, <2>1 DEF Die
    <3>2. r \in GroupRecord /\ KeepsGroup(g, r)
      BY <2>1 DEF
         GroupRecord, Member, Watcher, KeepsGroup, OnLeash, Lives, Alive, Gone
    <3> QED  BY <3>1, <3>2, GroupStep
  <2>2. CASE G.helper = "doomed" /\ group' = [group EXCEPT ![g].helper = "none"]
    <3> DEFINE r == [G EXCEPT !.helper = "none"]
    <3>1. group' = [group EXCEPT ![g] = r] /\ sup' = sup /\ strict' = strict
      BY <1>8, <2>2 DEF Die
    <3>2. r \in GroupRecord /\ KeepsGroup(g, r)
      BY <2>2 DEF
         GroupRecord, Member, Watcher, KeepsGroup, OnLeash, Lives, Alive, Gone
    <3> QED  BY <3>1, <3>2, GroupStep
  <2> QED  BY <1>8, <2>1, <2>2 DEF Die
<1>9. CASE Watch(g)
  <2> DEFINE r == Doomed([G EXCEPT !.watch = "fired"])
  <2>1. group' = [group EXCEPT ![g] = r] /\ sup' = sup /\ strict' = strict
    BY <1>9 DEF Watch
  <2>2. r \in GroupRecord /\ KeepsGroup(g, r)
    BY EndedRecord
  <2> QED  BY <2>1, <2>2, GroupStep
<1>10. CASE ParentDies(g)
  <2> DEFINE r == [G EXCEPT !.leader = "doomed"]
  <2>1. group' = [group EXCEPT ![g] = r] /\ sup' = sup /\ strict' = strict
    BY <1>10 DEF ParentDies
  <2>2. r \in GroupRecord /\ KeepsGroup(g, r)
    BY <1>10 DEF ParentDies,
       GroupRecord, Member, Watcher, KeepsGroup, OnLeash, Lives, Alive, Gone
  <2> QED  BY <2>1, <2>2, GroupStep
<1>11. CASE Interrupted(g)
  <2>1. CASE group' = [group EXCEPT ![g].leader = "dead", ![g].code = "bad"] /\ sup' = sup
    <3> DEFINE r == [G EXCEPT !.leader = "dead", !.code = "bad"]
    <3>1. group' = [group EXCEPT ![g] = r]
      BY <2>1
    <3>3. strict' = strict
      BY <1>11 DEF Interrupted
    <3>2. r \in GroupRecord /\ KeepsGroup(g, r)
      BY <1>11 DEF Interrupted,
         GroupRecord, Member, Watcher, KeepsGroup, OnLeash, Lives, Alive, Gone
    <3> QED  BY <2>1, <3>1, <3>2, <3>3, GroupStep
  <2>2. CASE /\ sup[g].pc = "wait" /\ group' = group
             /\ sup' = [sup EXCEPT ![g].pc = "grace", ![g].quit = TRUE]
    <3> DEFINE s == [sup[g] EXCEPT !.pc = "grace", !.quit = TRUE]
    <3>1. g \in Owner /\ sup[g] \in SupRecord /\ sup[g].child \in Group
      BY <2>2 DEF IInv, Shape, Owner, Supervised, Busy
    <3>2. sup' = [sup EXCEPT ![g] = s] /\ strict' = strict
      BY <1>11, <2>2 DEF Interrupted
    <3>3. s \in SupRecord /\ KeepsOwner(g, s, sup[g].child, group[sup[g].child])
      BY <2>2, <3>1 DEF SupRecord, Step, KeepsOwner, Busy
    <3> HIDE DEF s
    <3> QED  BY <2>2, <3>1, <3>2, <3>3, OwnerStep
  <2> QED  BY <1>11, <2>1, <2>2 DEF Interrupted
<1> QED
  BY <1>2, <1>3, <1>4, <1>5, <1>6, <1>7, <1>8, <1>9, <1>10, <1>11 DEF CommandStep

(***************************************************************************)
(* Waiting for a command and ending it.                                    *)
(***************************************************************************)

LEMMA OwnersChild ==
  ASSUME IInv, NEW o \in Owner, sup[o].pc # "free"
  PROVE  /\ sup[o].child \in Group /\ Exists(sup[o].child)
         /\ group[sup[o].child].owner = o /\ group[sup[o].child].told = "none"
  BY DEF IInv, Supervised, Busy

LEMMA PcStep ==
  ASSUME IInv, NEW o \in Owner, sup[o].pc # "free", NEW s \in SupRecord,
         s.pc \notin {"free", "release", "confirm"},
         s.child = sup[o].child, s.clean = sup[o].clean,
         group' = group, sup' = [sup EXCEPT ![o] = s], strict' = strict
  PROVE  IInv'
<1>1. KeepsOwner(o, s, sup[o].child, group[sup[o].child])
  BY DEF KeepsOwner, Busy
<1> QED
  BY <1>1, OwnersChild, OwnerStep

LEMMA WaitInv ==
  ASSUME IInv, NEW o \in Owner,
         \/ Arm(o) \/ ReleaseHeld(o) \/ Notice(o) \/ TimeOut(o) \/ Forcibly(o) \/ EndGroup(o)
  PROVE  IInv'
<1> DEFINE S == sup[o]
           g == S.child
           G == group[g]
<1>1. /\ S \in SupRecord /\ sup \in [Owner -> SupRecord]
      /\ group \in [Group -> GroupRecord]
      /\ S.pc # "free"
  BY DEF IInv, Shape, Arm, ReleaseHeld, Notice, TimeOut, Forcibly, EndGroup, Supervises
<1>2. /\ g \in Group /\ G \in GroupRecord /\ OnLeash(G)
      /\ G.code = "ok" => G.leader = "dead"
      /\ S.pc = "release" => G.watch # "none"
  BY <1>1, OwnersChild DEF IInv, Watched, EndsWell
<1>3. CASE Arm(o)
  <2> DEFINE r == [G EXCEPT !.watch = "armed"]
             s == [S EXCEPT !.pc = "release"]
  <2>1. group' = [group EXCEPT ![g] = r] /\ sup' = [sup EXCEPT ![o] = s] /\ strict' = strict
    BY <1>3 DEF Arm, Moves
  <2>2. r \in GroupRecord /\ s \in SupRecord
    BY <1>1, <1>2 DEF GroupRecord, SupRecord, Watcher, Step
  <2>3. KeepsGroup(g, r)
    BY <1>2 DEF GroupRecord, Watcher, KeepsGroup, OnLeash, Lives, Alive, Gone
  <2>4. KeepsOwner(o, s, g, r)
    BY <1>1, <1>2 DEF KeepsOwner, Busy, SupRecord, GroupRecord
  <2> HIDE DEF r, s, g
  <2> QED  BY <1>2, <2>1, <2>2, <2>3, <2>4, QuietStep
<1>4. CASE ReleaseHeld(o)
  <2> DEFINE r == [G EXCEPT !.leader = IF @ = "held" THEN "released" ELSE @]
             s == [S EXCEPT !.pc = "wait"]
  <2>1. group' = [group EXCEPT ![g] = r] /\ sup' = [sup EXCEPT ![o] = s] /\ strict' = strict
    BY <1>2, <1>4 DEF ReleaseHeld, Moves
  <2>2. r \in GroupRecord /\ s \in SupRecord
    BY <1>1, <1>2 DEF GroupRecord, SupRecord, Member, Step
  <2>3. KeepsGroup(g, r)
    <3>1. G.watch # "none"
      BY <1>2, <1>4 DEF ReleaseHeld, Supervises
    <3> QED
      BY <1>2, <3>1 DEF GroupRecord, Member, Watcher, KeepsGroup, OnLeash, Lives, Alive, Gone
  <2>4. KeepsOwner(o, s, g, r)
    BY <1>1 DEF KeepsOwner, Busy, SupRecord
  <2> HIDE DEF r, s, g
  <2> QED  BY <1>2, <2>1, <2>2, <2>3, <2>4, QuietStep
<1>5. CASE Notice(o) \/ Forcibly(o)
  <2> DEFINE s == [S EXCEPT !.pc = "kill"]
  <2>1. group' = group /\ sup' = [sup EXCEPT ![o] = s] /\ strict' = strict
    BY <1>5 DEF Notice, Forcibly, Moves
  <2>2. /\ s \in SupRecord /\ s.pc = "kill"
        /\ s.child = sup[o].child /\ s.clean = sup[o].clean
    BY <1>1 DEF SupRecord, Step
  <2> HIDE DEF s
  <2> QED  BY <1>1, <2>1, <2>2, PcStep
<1>6. CASE TimeOut(o)
  <2> DEFINE s == [S EXCEPT !.pc = "grace", !.timed = TRUE]
  <2>1. group' = group /\ sup' = [sup EXCEPT ![o] = s] /\ strict' = strict
    BY <1>6 DEF TimeOut
  <2>2. /\ s \in SupRecord /\ s.pc = "grace"
        /\ s.child = sup[o].child /\ s.clean = sup[o].clean
    BY <1>1 DEF SupRecord, Step
  <2> HIDE DEF s
  <2> QED  BY <1>1, <2>1, <2>2, PcStep
<1>7. CASE EndGroup(o)
  <2> DEFINE r == Doomed([G EXCEPT !.watch = "fired"])
             s == [S EXCEPT !.pc = "confirm"]
  <2>1. group' = [group EXCEPT ![g] = r] /\ sup' = [sup EXCEPT ![o] = s] /\ strict' = strict
    BY <1>7 DEF EndGroup, Moves
  <2>2. r \in GroupRecord /\ KeepsGroup(g, r) /\ ~Lives(r)
    BY <1>2, EndedRecord
  <2>3. s \in SupRecord
    BY <1>1 DEF SupRecord, Step
  <2> HIDE DEF r
  <2>4. KeepsOwner(o, s, g, r)
    BY <1>1, <2>2 DEF KeepsOwner, Busy, SupRecord
  <2> HIDE DEF s, g
  <2> QED  BY <1>2, <2>1, <2>2, <2>3, <2>4, QuietStep
<1> QED
  BY <1>3, <1>4, <1>5, <1>6, <1>7

(***************************************************************************)
(* Reporting a command.                                                    *)
(***************************************************************************)

\* What a report may make of the group it is about.
Answers(g, r) ==
  /\ r.owner = group[g].owner /\ r.run = group[g].run
  /\ r.leader # "none"
  /\ OnLeash(r)
  /\ r.told = "verified" => r.leader = "dead" /\ r.helper = "none"
  /\ r.code = "ok" => r.leader = "dead" /\ group[g].code = "ok"

LEMMA StageReturns ==
  ASSUME IInv, NEW o \in Group, sup[o].pc # "free", group[o].leader = "run",
         NEW g \in Group, g = sup[o].child,
         NEW r \in GroupRecord, Answers(g, r),
         NEW q \in GroupRecord, KeepsGroup(o, q), q.code # "ok",
         NEW s \in SupRecord, s.pc = "free", s.clean => sup[o].clean /\ r.told = "verified",
         group' \in [Group -> GroupRecord], group'[g] = r, g # o => group'[o] = q,
         \A x \in Group \ {g, o} : group'[x] = group[x],
         sup' = [sup EXCEPT ![o] = s], strict' = strict
  PROVE  IInv'
<1> USE VerifierIsNoGroup DEF IInv
<1>1. o \in Owner /\ Group \subseteq Owner
  BY DEF Owner
<1>2. Exists(g) /\ group[g].owner = o /\ group[g].told = "none"
  BY <1>1, OwnersChild
<1>3. Exists(o) /\ group[o].owner = Verifier /\ g # o
  BY <1>2 DEF Exists, Descent
<1>4. Shape'
  BY <1>1 DEF Shape
<1>5. \A x \in Group : group'[x] = IF x = o THEN q ELSE IF x = g THEN r ELSE group[x]
  BY <1>3
<1>6. \A x \in Owner : sup'[x] = IF x = o THEN s ELSE sup[x]
  BY <1>1 DEF Shape
<1>7. \A x \in Group : /\ Exists(x)' <=> Exists(x)
                       /\ group'[x].owner = group[x].owner
                       /\ group'[x].run = group[x].run
                       /\ x # g => group'[x].told = group[x].told
  BY <1>2, <1>3, <1>5 DEF Exists, Answers, KeepsGroup
<1>8. \A x \in Owner : Busy(x)' <=> Busy(x) /\ x # o
  BY <1>1, <1>6 DEF Busy
<1>9. \A x \in Owner : Busy(x) /\ x # o => sup[x].child # g
  BY <1>2 DEF Supervised
<1>10. Supervised'
  BY <1>6, <1>7, <1>8, <1>9 DEF Supervised
<1>11. Descent'
  BY <1>7 DEF Descent
<1>12. Watched'
  <2>1. \A x \in Group : OnLeash(group[x])'
    BY <1>5 DEF Watched, OnLeash, Lives, Answers, KeepsGroup
  <2>2. ASSUME NEW x \in Owner, Busy(x)'
        PROVE  /\ sup'[x] = sup[x] /\ sup[x].child \in Group /\ sup[x].child # g
               /\ group[sup[x].child].watch # "none" => group'[sup[x].child].watch # "none"
               /\ Alive(sup[x].child)' => Alive(sup[x].child)
    BY <2>2, <1>5, <1>6, <1>8, <1>9 DEF Supervised, KeepsGroup, Alive
  <2>3. ASSUME NEW x \in Owner, (sup[x].pc = "release")'
        PROVE  (group[sup[x].child].watch # "none")'
    BY <2>2, <2>3 DEF Watched, Busy
  <2>4. ASSUME NEW x \in Owner, (sup[x].pc = "confirm")'
        PROVE  (~Alive(sup[x].child))'
    BY <2>2, <2>4 DEF Watched, Busy, Alive
  <2> QED  BY <2>1, <2>3, <2>4 DEF Watched
<1>13. Ended'
  BY <1>5, <1>7 DEF Ended, Gone, Exists, KeepsGroup, Answers
<1>14. Clean'
  <2> SUFFICES ASSUME NEW h \in Group, Exists(h), group[h].owner \in Group
               PROVE  \/ group'[h].told = "verified"
                      \/ Busy(group[h].owner)' /\ sup'[group[h].owner].child = h
                      \/ ~sup'[group[h].owner].clean
    BY <1>7 DEF Clean
  <2>1. CASE group[h].owner = o
    BY <2>1, <1>1, <1>5, <1>6, <1>7, <1>3 DEF Clean
  <2>2. CASE group[h].owner # o
    BY <2>2, <1>1, <1>2, <1>6, <1>7, <1>8 DEF Clean
  <2> QED  BY <2>1, <2>2
<1>15. EndsWell'
  BY <1>1, <1>5, <1>6, <1>8 DEF EndsWell, Answers
<1>16. Passed'
  <2>1. \A x \in Group : Over(x) => Over(x)'
    BY <1>2, <1>7 DEF Over
  <2>2. Verifier \in Owner /\ Verifier # o
    BY DEF Owner
  <2>3. (Busy(Verifier)' <=> Busy(Verifier)) /\ sup'[Verifier] = sup[Verifier]
    BY <2>2, <1>6, <1>8
  <2> QED  BY <1>7, <2>1, <2>3 DEF Passed, AllPassed
<1> QED
  BY <1>4, <1>10, <1>11, <1>12, <1>13, <1>14, <1>15, <1>16

Recorded(st, abort) ==
  [strict EXCEPT !.status = Append(strict.status, st), !.abort = abort]

LEMMA VerifierReturns ==
  ASSUME IInv, sup[Verifier].pc # "free", strict.up,
         NEW g \in Group, g = sup[Verifier].child,
         NEW r \in GroupRecord, Answers(g, r),
         NEW st \in Status, st = "passed" => r.told = "verified" /\ group[g].code = "ok",
         NEW abort \in BOOLEAN,
         group' = [group EXCEPT ![g] = r],
         sup' = [sup EXCEPT ![Verifier] = Unbusy],
         strict' = Recorded(st, abort)
  PROVE  IInv'
<1> USE VerifierIsNoGroup DEF IInv, Shape
<1>1. Verifier \in Owner /\ Group \subseteq Owner
  BY DEF Owner
<1>2. Exists(g) /\ group[g].owner = Verifier /\ group[g].told = "none"
  BY <1>1, OwnersChild
<1>3. /\ strict'.run = strict.run /\ strict'.up = strict.up
      /\ strict'.verdict = strict.verdict /\ strict'.abort = abort
      /\ strict'.status = Append(strict.status, st)
      /\ strict.status \in Seq(Status)
  BY DEF Recorded
<1>4. Unbusy \in SupRecord /\ Unbusy.pc = "free"
  BY DEF Unbusy, SupRecord, Step, Owner, Verifier
<1>5. Shape'
  <2>1. group' \in [Group -> GroupRecord] /\ sup' \in [Owner -> SupRecord]
    BY <1>1, <1>4
  <2>2. Append(strict.status, st) \in Seq(Status)
    BY <1>3
  <2> QED  BY <2>1, <2>2 DEF Recorded
<1>6. \A x \in Group : group'[x] = IF x = g THEN r ELSE group[x]
  OBVIOUS
<1>7. \A x \in Owner : sup'[x] = IF x = Verifier THEN Unbusy ELSE sup[x]
  BY <1>1
<1>8. \A x \in Group : /\ Exists(x)' <=> Exists(x)
                       /\ group'[x].owner = group[x].owner
                       /\ group'[x].run = group[x].run
                       /\ x # g => group'[x].told = group[x].told
  BY <1>2, <1>6 DEF Exists, Answers
<1>9. \A x \in Owner : Busy(x)' <=> Busy(x) /\ x # Verifier
  BY <1>1, <1>4, <1>7 DEF Busy
<1>10. \A x \in Owner : Busy(x) /\ x # Verifier => sup[x].child # g
  BY <1>2 DEF Supervised
<1>11. Supervised'
  BY <1>7, <1>8, <1>9, <1>10 DEF Supervised
<1>12. Descent'
  BY <1>8 DEF Descent
<1>13. Watched'
  <2>1. \A x \in Group : OnLeash(group[x])'
    BY <1>6 DEF Watched, OnLeash, Lives, Answers
  <2>2. ASSUME NEW x \in Owner, Busy(x)'
        PROVE  /\ sup'[x] = sup[x] /\ sup[x].child \in Group
               /\ group'[sup[x].child] = group[sup[x].child]
    BY <2>2, <1>6, <1>7, <1>9, <1>10 DEF Supervised
  <2>3. ASSUME NEW x \in Owner, (sup[x].pc = "release")'
        PROVE  (group[sup[x].child].watch # "none")'
    BY <2>2, <2>3 DEF Watched, Busy
  <2>4. ASSUME NEW x \in Owner, (sup[x].pc = "confirm")'
        PROVE  (~Alive(sup[x].child))'
    BY <2>2, <2>4 DEF Watched, Busy, Alive
  <2> QED  BY <2>1, <2>3, <2>4 DEF Watched
<1>14. Ended'
  BY <1>6, <1>8 DEF Ended, Gone, Exists, Answers
<1>15. Clean'
  BY <1>1, <1>2, <1>7, <1>8, <1>9 DEF Clean
<1>16. EndsWell'
  BY <1>1, <1>6, <1>7, <1>9 DEF EndsWell, Answers
<1>17. Passed'
  <2>1. \A x \in Group : x # g /\ Over(x) => Over(x)'
    BY <1>2, <1>8 DEF Over
  <2>2. AllPassed' => AllPassed /\ st = "passed"
    <3> SUFFICES ASSUME \A i \in 1 .. Len(strict'.status) : strict'.status[i] = "passed"
                 PROVE  AllPassed /\ st = "passed"
      BY DEF AllPassed
    <3>1. /\ Len(strict'.status) = Len(strict.status) + 1
          /\ Len(strict.status) \in Nat
          /\ strict'.status[Len(strict.status) + 1] = st
          /\ \A i \in 1 .. Len(strict.status) : strict'.status[i] = strict.status[i]
      BY <1>3
    <3> QED  BY <3>1 DEF AllPassed
  <2>3. st = "passed" => Over(g)'
    <3> SUFFICES ASSUME st = "passed", NEW h \in Group, Exists(h), group[h].owner = g
                 PROVE  group'[h].told = "verified"
      BY <1>6, <1>8 DEF Over
    <3>1. ~Busy(g) /\ sup[g].clean
      BY DEF EndsWell
    <3>2. group[h].told = "verified"
      BY <3>1 DEF Clean
    <3> QED  BY <3>2, <1>2, <1>8
  <2>4. strict.verdict = "none"
    BY DEF Passed, Busy
  <2>5. AllPassed' => \A x \in Group : /\ Exists(x) /\ group[x].owner = Verifier
                                       /\ group[x].run = strict.run
                                       => Over(x)'
    BY <2>1, <2>2, <2>3 DEF Passed
  <2> QED  BY <1>3, <1>8, <2>4, <2>5 DEF Passed
<1> QED
  BY <1>5, <1>11, <1>12, <1>13, <1>14, <1>15, <1>16, <1>17

LEMMA ReturnInv ==
  ASSUME IInv, NEW o \in Owner, sup[o].pc # "free", Acts(o),
         NEW g \in Group, g = sup[o].child,
         NEW r \in GroupRecord, Answers(g, r),
         NEW verified \in BOOLEAN, verified <=> r.told = "verified",
         Returns(o, verified, [group EXCEPT ![g] = r])
  PROVE  IInv'
<1>1. CASE o = Verifier
  <2> DEFINE st == StageStatus(Verifier, verified)
             abort == \/ sup[Verifier].timed /\ verified
                      \/ strict.status = <<>> /\ st # "passed"
  <2>1. /\ group' = [group EXCEPT ![g] = r]
        /\ sup' = [sup EXCEPT ![Verifier] = Unbusy]
        /\ Record(Verifier, verified)
    BY <1>1 DEF Returns
  <2>2. strict' = Recorded(st, abort)
    BY <2>1 DEF Record, Recorded
  <2>3. st \in Status /\ (st = "passed" => r.told = "verified" /\ group[g].code = "ok")
    BY <1>1 DEF StageStatus, Status
  <2>4. abort \in BOOLEAN
    BY <1>1 DEF IInv, Shape, SupRecord
  <2>5. strict.up /\ sup[Verifier].pc # "free" /\ g = sup[Verifier].child
    BY <1>1 DEF Acts
  <2> HIDE DEF st, abort
  <2> QED  BY <2>1, <2>2, <2>3, <2>4, <2>5, VerifierReturns
<1>2. CASE o # Verifier
  <2> DEFINE q == IF sup[o].quit THEN [group[o] EXCEPT !.leader = "dead", !.code = "bad"]
                                 ELSE group[o]
             s == [Unbusy EXCEPT !.clean =
                     sup[o].clean /\ verified /\ ~sup[o].timed /\ group[g].code = "ok"]
  <2>1. /\ o \in Group /\ group[o].leader = "run"
        /\ group \in [Group -> GroupRecord] /\ group[o] \in GroupRecord
        /\ sup[o] \in SupRecord
    BY <1>2 DEF Owner, Acts, IInv, Shape
  <2>2. group[o].code # "ok" /\ g # o
    BY <1>2, <2>1, OwnersChild, VerifierIsNoGroup DEF IInv, EndsWell, Descent
  <2>3. q \in GroupRecord /\ q.code # "ok"
    BY <2>1, <2>2 DEF GroupRecord, Member
  <2>4. KeepsGroup(o, q)
    <3>1. CASE sup[o].quit
      BY <2>1, <3>1 DEF IInv, Watched, GroupRecord, KeepsGroup, OnLeash, Lives, Alive, Gone
    <3>2. CASE ~sup[o].quit
      BY <2>1, <3>2, SameGroup
    <3> QED  BY <3>1, <3>2
  <2>5. /\ s \in SupRecord /\ s.pc = "free"
        /\ s.clean => sup[o].clean /\ r.told = "verified"
    BY <2>1 DEF Unbusy, SupRecord, Step, Owner, Verifier
  <2>6. sup' = [sup EXCEPT ![o] = s] /\ strict' = strict
    BY <1>2 DEF Returns
  <2>7. /\ group' \in [Group -> GroupRecord] /\ group'[g] = r /\ group'[o] = q
        /\ \A x \in Group \ {g, o} : group'[x] = group[x]
    <3> DEFINE record == [group EXCEPT ![g] = r]
    <3>1. /\ record \in [Group -> GroupRecord] /\ record[g] = r /\ record[o] = group[o]
          /\ \A x \in Group \ {g, o} : record[x] = group[x]
      BY <2>1, <2>2
    <3>2. CASE sup[o].quit
      <4>1. group' = [record EXCEPT ![o].leader = "dead", ![o].code = "bad"]
        BY <1>2, <3>2 DEF Returns
      <4> HIDE DEF record
      <4>2. group' = [record EXCEPT ![o] = q]
        BY <3>1, <3>2, <4>1, <2>1
      <4> QED  BY <2>1, <2>2, <2>3, <3>1, <4>2
    <3>3. CASE ~sup[o].quit
      BY <1>2, <3>1, <3>3 DEF Returns
    <3> QED  BY <3>2, <3>3
  <2> HIDE DEF q, s
  <2> QED  BY <2>1, <2>3, <2>4, <2>5, <2>6, <2>7, StageReturns
<1> QED
  BY <1>1, <1>2

LEMMA ReportInv ==
  ASSUME IInv, NEW o \in Owner,
         Graceful(o) \/ ConfirmGone(o) \/ Unverified(o) \/ LaunchFails(o)
  PROVE  IInv'
<1> DEFINE g == sup[o].child
           G == group[g]
           R(what) == [G EXCEPT !.told = what, !.watch = "off", !.code = "none"]
<1>1. sup[o].pc # "free" /\ Acts(o)
  BY DEF Graceful, ConfirmGone, Unverified, LaunchFails, Supervises
<1>2. g \in Group /\ G \in GroupRecord /\ G.leader # "none" /\ OnLeash(G)
  BY <1>1, OwnersChild DEF IInv, Shape, Watched, Exists
<1>3. ASSUME NEW what \in {"verified", "unverified"}, ~Alive(g), what = "verified" => Gone(g)
      PROVE  R(what) \in GroupRecord /\ R(what).told = what /\ Answers(g, R(what))
  <2>1. /\ R(what) \in GroupRecord
        /\ R(what).owner = G.owner /\ R(what).run = G.run
        /\ R(what).leader = G.leader /\ R(what).helper = G.helper
        /\ R(what).told = what /\ R(what).code = "none"
    BY <1>2 DEF GroupRecord, Word, Watcher
  <2> QED  BY <1>2, <1>3, <2>1 DEF Answers, OnLeash, Lives, Alive, Gone
<1>4. Gone(g) => ~Alive(g)
  BY DEF Gone, Alive, Lives
<1>5. sup[o].pc = "confirm" => ~Alive(g)
  BY DEF IInv, Watched
<1>6. CASE Graceful(o) \/ ConfirmGone(o)
  <2>1. Gone(g) /\ Returns(o, TRUE, [group EXCEPT ![g] = R("verified")])
    BY <1>6 DEF Graceful, ConfirmGone, Told
  <2>2. /\ R("verified") \in GroupRecord /\ R("verified").told = "verified"
        /\ Answers(g, R("verified"))
    BY <1>3, <1>4, <2>1
  <2> QED  BY <1>1, <1>2, <2>1, <2>2, ReturnInv
<1>7. CASE Unverified(o)
  <2>1. ~Alive(g) /\ Returns(o, FALSE, [group EXCEPT ![g] = R("unverified")])
    BY <1>4, <1>5, <1>7 DEF Unverified, Supervises, Told
  <2>2. /\ R("unverified") \in GroupRecord /\ R("unverified").told = "unverified"
        /\ Answers(g, R("unverified"))
    BY <1>3, <2>1
  <2> QED  BY <1>1, <1>2, <2>1, <2>2, ReturnInv
<1>8. CASE LaunchFails(o)
  <2> DEFINE w == [G EXCEPT !.told = "launch"]
             r == Doomed(w)
  <2>1. Returns(o, FALSE, [group EXCEPT ![g] = r])
    BY <1>8 DEF LaunchFails
  <2>2. /\ w \in GroupRecord
        /\ w.owner = G.owner /\ w.run = G.run /\ w.told = "launch"
        /\ w.leader = G.leader /\ w.code = G.code
    BY <1>2 DEF GroupRecord, Word
  <2>3. /\ r \in GroupRecord /\ ~Lives(r)
        /\ r.leader = "none" <=> w.leader = "none"
        /\ r.leader = "dead" <=> w.leader = "dead"
    BY <2>2, DoomedRecord
  <2>4. r.owner = w.owner /\ r.run = w.run /\ r.told = w.told /\ r.code = w.code
    BY <2>2 DEF Doomed, GroupRecord
  <2>5. G.code = "ok" => G.leader = "dead"
    BY <1>2 DEF IInv, EndsWell
  <2> HIDE DEF r, w
  <2>6. Answers(g, r)
    BY <1>2, <2>2, <2>3, <2>4, <2>5 DEF Answers, OnLeash, Lives
  <2> QED  BY <1>1, <1>2, <2>1, <2>2, <2>3, <2>4, <2>6, ReturnInv
<1> QED
  BY <1>6, <1>7, <1>8

(***************************************************************************)
(* Starting a command.                                                     *)
(***************************************************************************)

LEMMA LaunchInv ==
  ASSUME IInv, NEW o \in Owner, NEW g \in Group, Launch(o, g)
  PROVE  IInv'
<1> DEFINE r == [Ungroup EXCEPT !.owner = o, !.run = RunOf(o), !.leader = "held"]
           s == [sup[o] EXCEPT !.pc = "arm", !.child = g, !.timed = FALSE]
<1> USE VerifierIsNoGroup DEF IInv
<1>1. Verifier \in Owner /\ Group \subseteq Owner
  BY DEF Owner
<1>2. /\ group' = [group EXCEPT ![g] = r] /\ sup' = [sup EXCEPT ![o] = s]
      /\ strict' = strict
      /\ Acts(o) /\ sup[o].pc = "free" /\ group[g] = Ungroup
      /\ o = Verifier => strict.verdict = "none"
      /\ o # Verifier => group[o].owner = Verifier
  BY DEF Launch, Supervises, NextGroup, MayLaunch
<1>3. ~Exists(g)
  BY <1>2 DEF Exists, Ungroup
<1>4. o # Verifier => o \in Group /\ group[o].leader = "run" /\ Exists(o)
  BY <1>2 DEF Owner, Acts, Exists
<1>5. RunOf(o) \in Nat /\ RunOf(o) <= strict.run
  BY <1>4 DEF RunOf, Shape, GroupRecord, Passed
<1>6. /\ r \in GroupRecord /\ r.owner = o /\ r.run = RunOf(o) /\ r.leader = "held"
      /\ r.helper = "none" /\ r.watch = "none" /\ r.told = "none" /\ r.code = "none"
  BY <1>5 DEF Ungroup, GroupRecord, Member, Watcher, Word
<1>7. /\ s \in SupRecord /\ s.pc = "arm" /\ s.child = g
      /\ s.clean = sup[o].clean
  <2>1. sup[o] \in SupRecord /\ g \in Owner
    BY <1>1 DEF Shape
  <2> QED  BY <2>1 DEF SupRecord, Step
<1> HIDE DEF r, s
<1>8. Shape'
  BY <1>2, <1>6, <1>7 DEF Shape
<1>9. \A x \in Group : group'[x] = IF x = g THEN r ELSE group[x]
  BY <1>2 DEF Shape
<1>10. \A x \in Owner : sup'[x] = IF x = o THEN s ELSE sup[x]
  BY <1>2 DEF Shape
<1>11. \A x \in Group : /\ Exists(x)' <=> Exists(x) \/ x = g
                        /\ x # g => group'[x] = group[x]
  BY <1>6, <1>9 DEF Exists
<1>12. \A x \in Owner : /\ Busy(x)' <=> Busy(x) \/ x = o
                        /\ sup'[x].clean = sup[x].clean
                        /\ x # o => sup'[x] = sup[x]
  BY <1>7, <1>10 DEF Busy
<1>13. ~Busy(o)
  BY <1>2 DEF Busy
<1>14. Supervised'
  <2> SUFFICES ASSUME NEW x \in Owner, Busy(x)'
               PROVE  /\ sup'[x].child \in Group
                      /\ Exists(sup[x].child)'
                      /\ group'[sup'[x].child].owner = x
                      /\ group'[sup'[x].child].told = "none"
    BY DEF Supervised, Exists
  <2>1. CASE x = o
    BY <2>1, <1>6, <1>7, <1>9, <1>10, <1>11
  <2>2. CASE x # o
    BY <2>2, <1>3, <1>11, <1>12 DEF Supervised
  <2> QED  BY <2>1, <2>2
<1>15. \A x \in Group : Exists(x) => group[x].owner # g
  BY <1>3 DEF Descent
<1>16. Descent'
  <2> SUFFICES ASSUME NEW x \in Group, Exists(x)', group'[x].owner \in Group
               PROVE  /\ Exists(group[x].owner)'
                      /\ group'[group'[x].owner].owner = Verifier
                      /\ group'[group'[x].owner].run = group'[x].run
    BY DEF Descent, Exists
  <2>1. CASE x = g
    BY <2>1, <1>2, <1>3, <1>4, <1>6, <1>9, <1>11 DEF RunOf
  <2>2. CASE x # g
    BY <2>2, <1>11, <1>15 DEF Descent
  <2> QED  BY <2>1, <2>2
<1>17. Watched'
  <2>1. \A x \in Group : OnLeash(group[x])'
    BY <1>6, <1>9 DEF Watched, OnLeash, Lives
  <2>2. ASSUME NEW x \in Owner, Busy(x)', x # o
        PROVE  /\ sup'[x] = sup[x] /\ sup[x].child \in Group
               /\ group'[sup[x].child] = group[sup[x].child]
    BY <2>2, <1>3, <1>11, <1>12 DEF Supervised
  <2>3. ASSUME NEW x \in Owner, (sup[x].pc = "release")'
        PROVE  (group[sup[x].child].watch # "none")'
    BY <2>2, <2>3, <1>7, <1>10 DEF Watched, Busy
  <2>4. ASSUME NEW x \in Owner, (sup[x].pc = "confirm")'
        PROVE  (~Alive(sup[x].child))'
    BY <2>2, <2>4, <1>7, <1>10 DEF Watched, Busy, Alive
  <2> QED  BY <2>1, <2>3, <2>4 DEF Watched
<1>18. Ended'
  BY <1>6, <1>9, <1>11 DEF Ended, Gone, Exists
<1>19. Clean'
  <2> SUFFICES ASSUME NEW h \in Group, Exists(h)', group'[h].owner \in Group
               PROVE  \/ group'[h].told = "verified"
                      \/ Busy(group[h].owner)' /\ sup'[group'[h].owner].child = h
                      \/ ~sup'[group'[h].owner].clean
    BY DEF Clean
  <2>1. CASE h = g
    BY <2>1, <1>6, <1>7, <1>9, <1>10, <1>12
  <2>2. CASE h # g
    BY <2>2, <1>1, <1>11, <1>12, <1>13 DEF Clean
  <2> QED  BY <2>1, <2>2
<1>20. EndsWell'
  BY <1>1, <1>4, <1>6, <1>9, <1>12 DEF EndsWell
<1>21. Passed'
  <2>1. \A x \in Group : x # o /\ Exists(x) /\ Over(x) => Over(x)'
    BY <1>3, <1>6, <1>9, <1>11 DEF Over
  <2>2. \A x \in Group : Over(x) => x # o
    BY <1>4 DEF Over, Ended, Gone
  <2>3. \A x \in Group : Exists(x)' => group'[x].run <= strict.run
    BY <1>5, <1>6, <1>9, <1>11 DEF Passed
  <2>4. CASE o = Verifier
    BY <2>1, <2>2, <2>3, <2>4, <1>2, <1>7, <1>9, <1>10, <1>11, <1>12, <1>13
       DEF Passed, AllPassed, Acts
  <2>5. CASE o # Verifier
    BY <2>1, <2>2, <2>3, <2>5, <1>1, <1>2, <1>6, <1>9, <1>11, <1>12 DEF Passed, AllPassed
  <2> QED  BY <2>4, <2>5
<1> QED
  BY <1>8, <1>14, <1>16, <1>17, <1>18, <1>19, <1>20, <1>21

(***************************************************************************)
(* The verifier.                                                           *)
(***************************************************************************)

LEMMA VerifierInv ==
  ASSUME IInv, Overall \/ KillVerifier \/ Rerun
  PROVE  IInv'
<1> USE VerifierIsNoGroup DEF IInv
<1>1. Verifier \in Owner /\ Group \subseteq Owner
  BY DEF Owner
<1>2. CASE Overall
  <2> DEFINE verdict ==
        IF ToSet(strict.status) = {"passed"} /\ Len(strict.status) = MaxStage THEN "passed"
        ELSE IF "failed" \in ToSet(strict.status) THEN "failed" ELSE "blocked"
  <2>1. /\ group' = group /\ sup' = sup /\ strict' = [strict EXCEPT !.verdict = verdict]
        /\ strict.up /\ sup[Verifier].pc = "free"
    BY <1>2 DEF Overall, Supervises, Acts
  <2>2. verdict \in Status /\ (verdict = "passed" => ToSet(strict.status) = {"passed"})
    BY DEF Status
  <2>3. verdict = "passed" => AllPassed
    <3>1. strict.status \in Seq(Status)
      BY DEF Shape
    <3>2. \A i \in 1 .. Len(strict.status) : strict.status[i] \in ToSet(strict.status)
      BY <3>1 DEF ToSet
    <3> HIDE DEF verdict
    <3> QED  BY <2>2, <3>2 DEF AllPassed
  <2> HIDE DEF verdict
  <2>4. /\ strict'.run = strict.run /\ strict'.up = strict.up
        /\ strict'.status = strict.status /\ strict'.verdict = verdict
    BY <2>1 DEF Shape
  <2>5. Shape'
    BY <2>1, <2>2 DEF Shape
  <2>6. /\ Supervised' /\ Descent' /\ Watched' /\ Ended' /\ Clean' /\ EndsWell'
    BY <2>1 DEF Supervised, Descent, Watched, Ended, Clean, EndsWell, Exists, Busy,
                Alive, Gone
  <2>7. Passed'
    BY <2>1, <2>3, <2>4 DEF Passed, AllPassed, Over, Exists, Busy
  <2> QED  BY <2>5, <2>6, <2>7
<1>3. CASE KillVerifier
  <2>1. /\ group' = group /\ sup' = [sup EXCEPT ![Verifier] = Unbusy]
        /\ strict' = [strict EXCEPT !.up = FALSE] /\ strict.up
    BY <1>3 DEF KillVerifier
  <2>2. Unbusy \in SupRecord /\ Unbusy.pc = "free"
    BY DEF Unbusy, SupRecord, Step, Owner, Verifier
  <2>3. \A x \in Owner : sup'[x] = IF x = Verifier THEN Unbusy ELSE sup[x]
    BY <2>1 DEF Shape
  <2>4. \A x \in Owner : Busy(x)' <=> Busy(x) /\ x # Verifier
    BY <2>2, <2>3 DEF Busy
  <2>5. /\ strict'.run = strict.run /\ strict'.up = FALSE
        /\ strict'.status = strict.status /\ strict'.verdict = strict.verdict
    BY <2>1 DEF Shape
  <2>6. Shape'
    BY <1>1, <2>1, <2>2 DEF Shape
  <2>7. Supervised'
    BY <2>1, <2>3, <2>4 DEF Supervised, Exists
  <2>8. Watched'
    <3>1. \A x \in Owner : sup'[x].pc \in {"release", "confirm"} => sup'[x] = sup[x]
      BY <2>2, <2>3
    <3> QED  BY <3>1, <2>1 DEF Watched, Alive
  <2>9. Descent' /\ Ended'
    BY <2>1 DEF Descent, Ended, Exists, Gone
  <2>10. Clean' /\ EndsWell'
    BY <1>1, <2>1, <2>3, <2>4 DEF Clean, EndsWell, Exists
  <2>11. Passed'
    BY <1>1, <2>1, <2>4, <2>5 DEF Passed, AllPassed, Over, Exists
  <2> QED  BY <2>6, <2>7, <2>8, <2>9, <2>10, <2>11
<1>4. CASE Rerun
  <2>1. group' = group /\ sup' = sup /\ strict' = NewRun(strict.run + 1)
    BY <1>4 DEF Rerun
  <2>2. /\ strict'.run = strict.run + 1 /\ strict'.verdict = "none"
        /\ strict.run \in Nat
    BY <2>1 DEF NewRun, Shape
  <2>3. Shape'
    BY <2>1, <2>2 DEF Shape, NewRun
  <2>4. /\ Supervised' /\ Descent' /\ Watched' /\ Ended' /\ Clean' /\ EndsWell'
    BY <2>1 DEF Supervised, Descent, Watched, Ended, Clean, EndsWell, Exists, Busy,
                Alive, Gone
  <2>5. \A x \in Group : Exists(x) => group[x].run \in Nat /\ group[x].run <= strict.run
    BY DEF Shape, GroupRecord, Passed
  <2>6. Passed'
    BY <2>1, <2>2, <2>5 DEF Passed, Exists
  <2> QED  BY <2>3, <2>4, <2>6
<1> QED
  BY <1>2, <1>3, <1>4

LEMMA IInvIsInductive == IInv /\ [StrictNext]_strictVars => IInv'
<1> SUFFICES ASSUME IInv, [StrictNext]_strictVars PROVE IInv'
  OBVIOUS
<1>1. ASSUME NEW o \in Owner, Supervision(o) PROVE IInv'
  BY <1>1, LaunchInv, WaitInv, ReportInv DEF Supervision
<1>2. CASE UNCHANGED strictVars
  BY <1>2 DEF strictVars, IInv, Shape, Supervised, Descent, Watched, Ended, Clean,
              EndsWell, Passed, AllPassed, Over, Exists, Busy, Alive, Gone
<1> QED
  BY <1>1, <1>2, CommandInv, VerifierInv DEF StrictNext

LEMMA AlwaysIInv == StrictSpec => []IInv
  BY InitInv, IInvIsInductive, PTL DEF StrictSpec

(***************************************************************************)
(* The theorems.                                                           *)
(***************************************************************************)

\* run_supervised (process_supervisor.py): however many groups, however deep in
\* which step the verifier or a stage is killed, a running process whose owner
\* is gone has a watcher that is armed.
THEOREM NothingOffTheLeash == StrictSpec => []Leashed
<1>1. IInv => Leashed
  BY DEF IInv, Watched, OnLeash, Leashed
<1> QED
  BY <1>1, AlwaysIInv, PTL

\* run_supervised and run_strict (strict_verify.py): a group reported as ended is
\* gone with its helpers, and a verification that passed left no process of its
\* run behind, on either level.
THEOREM PassedLeavesNothing == StrictSpec => []Contained
<1>1. IInv => VerifiedMeansGone
  BY DEF IInv, Ended, VerifiedMeansGone
<1>2. IInv => PassedIsContained
  <2> SUFFICES ASSUME IInv, strict.verdict = "passed",
                      NEW g \in Group, group[g].run = strict.run
               PROVE  Gone(g)
    BY DEF PassedIsContained
  <2> USE VerifierIsNoGroup DEF IInv
  <2>1. CASE ~Exists(g)
    BY <2>1 DEF Exists, Gone, Watched, OnLeash
  <2>2. \A h \in Group : Exists(h) /\ group[h].owner = Verifier /\ group[h].run = strict.run
                           => Over(h)
    BY DEF Passed
  <2>3. CASE Exists(g) /\ group[g].owner = Verifier
    BY <2>2, <2>3 DEF Over, Ended
  <2>4. CASE Exists(g) /\ group[g].owner \in Group
    <3>1. Over(group[g].owner)
      BY <2>2, <2>4 DEF Descent
    <3> QED  BY <2>4, <3>1 DEF Over, Ended
  <2>5. group[g].owner \in Owner
    BY DEF Shape, GroupRecord
  <2> QED  BY <2>1, <2>3, <2>4, <2>5 DEF Owner
<1> QED
  BY <1>1, <1>2, AlwaysIInv, PTL DEF Contained

(***************************************************************************)
(* The types.  A group is started by an earlier one, and a stage that runs *)
(* has its place among the MaxStage that will be recorded.                 *)
(***************************************************************************)

Tree ==
  \A g \in Group :
    /\ group[g].owner \in 0 .. g - 1
    /\ Exists(g) => \A h \in 1 .. g - 1 : Exists(h)
    /\ ~Exists(g) => group[g] = Ungroup

Counted ==
  /\ Len(strict.status) <= MaxStage
  /\ Busy(Verifier) => strict.up /\ Len(strict.status) < MaxStage

\* What no step but the start of a group does to the groups.
SameTree ==
  \A x \in Group :
    /\ group'[x].owner = group[x].owner
    /\ Exists(x)' <=> Exists(x)
    /\ ~Exists(x) => group'[x] = group[x]

LEMMA TreeKept ==
  ASSUME Tree, SameTree
  PROVE  Tree'
<1>1. \A g \in Group : \A h \in 1 .. g - 1 : h \in Group
  BY StrictAssumption DEF Group
<1> QED
  BY <1>1 DEF Tree, SameTree

\* A step that changes one existing group and neither its owner nor its existence.
LEMMA OneChanged ==
  ASSUME IInv, NEW g \in Group, Exists(g), NEW r, group' = [group EXCEPT ![g] = r],
         r.owner = group[g].owner, r.leader # "none"
  PROVE  SameTree
  BY DEF IInv, Shape, SameTree, Exists

\* What is killed keeps its owner and does not cease to have existed.
LEMMA DoomedKeeps ==
  ASSUME NEW r \in GroupRecord, r.leader # "none"
  PROVE  Doomed(r).owner = r.owner /\ Doomed(r).leader # "none"
  BY DEF GroupRecord, Doomed, Doom

LEMMA CommandTree ==
  ASSUME IInv, Tree, NEW g \in Group, CommandStep(g)
  PROVE  SameTree /\ strict' = strict /\ sup'[Verifier] = sup[Verifier]
<1>1. group[g] \in GroupRecord /\ group \in [Group -> GroupRecord]
  BY DEF IInv, Shape
<1>2. strict' = strict /\ sup'[Verifier] = sup[Verifier]
  BY VerifierIsNoGroup
     DEF CommandStep, Become, HeldInVain, Fork, ExitHelper, Interrupted, ExitLeader,
         KillMember, Die, Watch, ParentDies, IInv, Shape, Owner
<1>3. \/ group' = group
      \/ /\ Exists(g) /\ group' = [group EXCEPT ![g] = group'[g]]
         /\ group'[g].owner = group[g].owner /\ group'[g].leader # "none"
  <2> USE <1>1 DEF GroupRecord, Exists
  <2>1. group[g].leader = "none" => group[g].helper = "none"
    BY DEF IInv, Watched, OnLeash
  <2>2. CASE Become(g)
    BY <2>2 DEF Become
  <2>3. CASE HeldInVain(g) \/ ParentDies(g)
    BY <2>3 DEF HeldInVain, ParentDies
  <2>4. CASE Fork(g)
    BY <2>4 DEF Fork
  <2>5. CASE ExitHelper(g)
    BY <2>1, <2>5 DEF ExitHelper
  <2>6. CASE Interrupted(g)
    BY <2>6 DEF Interrupted
  <2>7. CASE KillMember(g)
    BY <2>7 DEF KillMember
  <2>8. CASE Die(g)
    BY <2>1, <2>8 DEF Die
  <2>9. ASSUME NEW code \in {"ok", "bad"}, ExitLeader(g, code)
        PROVE  /\ Exists(g) /\ group' = [group EXCEPT ![g] = group'[g]]
               /\ group'[g].owner = group[g].owner /\ group'[g].leader # "none"
    BY <2>9 DEF ExitLeader
  <2>10. CASE Watch(g)
    <3> DEFINE w == [group[g] EXCEPT !.watch = "fired"]
    <3>1. Exists(g)
      BY <2>10 DEF Watch, Tree, Ungroup
    <3>2. w \in GroupRecord /\ w.owner = group[g].owner /\ w.leader # "none"
      BY <3>1 DEF Watcher
    <3>3. Doomed(w).owner = w.owner /\ Doomed(w).leader # "none"
      BY <3>2, DoomedKeeps
    <3>4. group' = [group EXCEPT ![g] = Doomed(w)]
      BY <2>10 DEF Watch
    <3> HIDE DEF w
    <3>5. group'[g] = Doomed(w)
      BY <3>4
    <3> QED
      BY <3>1, <3>2, <3>3, <3>4, <3>5
  <2> QED
    BY <2>2, <2>3, <2>4, <2>5, <2>6, <2>7, <2>8, <2>9, <2>10 DEF CommandStep
<1>4. SameTree
  BY <1>3, OneChanged DEF SameTree, Exists
<1> QED
  BY <1>2, <1>4

LEMMA LaunchTree ==
  ASSUME IInv, Tree, NEW o \in Owner, NEW g \in Group, Launch(o, g)
  PROVE  Tree'
<1> DEFINE r == [Ungroup EXCEPT !.owner = o, !.run = RunOf(o), !.leader = "held"]
<1>1. group' = [group EXCEPT ![g] = r] /\ group \in [Group -> GroupRecord]
  BY DEF Launch, IInv, Shape
<1>2. r.owner = o /\ r.leader = "held"
  BY DEF Ungroup
<1> HIDE DEF r
<1>3. \A x \in Group : group'[x] = IF x = g THEN r ELSE group[x]
  BY <1>1
<1>4. ~Exists(g) /\ \A h \in 1 .. g - 1 : group[h] # Ungroup
  BY DEF Launch, NextGroup, Exists, Ungroup
<1>5. g \in Nat /\ g >= 1 /\ \A h \in 1 .. g - 1 : h \in Group
  BY StrictAssumption DEF Group
<1>6. \A h \in 1 .. g - 1 : Exists(h)
  BY <1>4, <1>5 DEF Tree
<1>7. o \in 0 .. g - 1
  <2>1. CASE o = Verifier
    BY <2>1, <1>5 DEF Verifier
  <2>2. CASE o # Verifier
    <3>1. o \in Group /\ Exists(o)
      BY <2>2 DEF Owner, Launch, Supervises, Acts, Exists
    <3>2. o # g /\ o \in Nat /\ o >= 1
      BY <3>1, <1>4, StrictAssumption DEF Group
    <3>3. ~(g < o)
      <4> SUFFICES ASSUME g < o PROVE FALSE
        OBVIOUS
      <4>1. g \in 1 .. o - 1
        BY <1>5, <3>2
      <4> QED
        BY <4>1, <3>1, <1>4 DEF Tree
    <3> QED
      BY <3>2, <3>3, <1>5
  <2> QED
    BY <2>1, <2>2
<1>8. \A x \in Group : Exists(x)' <=> x = g \/ Exists(x)
  BY <1>2, <1>3 DEF Exists
<1>9. \A x \in Group : \A h \in 1 .. x - 1 : h \in Group
  BY StrictAssumption DEF Group
<1> QED
  BY <1>2, <1>3, <1>6, <1>7, <1>8, <1>9 DEF Tree

\* What a return makes of the groups, where its record is of one that exists.
LEMMA ReturnTree ==
  ASSUME IInv, NEW o \in Owner, sup[o].pc # "free", Acts(o), NEW verified,
         NEW r \in GroupRecord, r.owner = group[sup[o].child].owner, r.leader # "none",
         Returns(o, verified, [group EXCEPT ![sup[o].child] = r])
  PROVE  SameTree
<1> DEFINE g == sup[o].child
           record == [group EXCEPT ![g] = r]
<1>1. g \in Group /\ Exists(g) /\ group \in [Group -> GroupRecord]
  BY OwnersChild DEF IInv, Shape
<1>2. /\ record \in [Group -> GroupRecord]
      /\ \A x \in Group : /\ record[x].owner = group[x].owner
                          /\ record[x].leader = "none" <=> group[x].leader = "none"
                          /\ ~Exists(x) => record[x] = group[x]
  BY <1>1 DEF Exists
<1>3. CASE group' = record
  BY <1>2, <1>3 DEF SameTree, Exists
<1>4. CASE o \in Group /\ group' = [record EXCEPT ![o].leader = "dead", ![o].code = "bad"]
  <2>1. Exists(o)
    BY <1>4, VerifierIsNoGroup DEF Acts, Exists
  <2>2. \A x \in Group : x # o => group'[x] = record[x]
    BY <1>2, <1>4
  <2>3. /\ group'[o].owner = record[o].owner /\ group'[o].leader = "dead"
    BY <1>2, <1>4, <2>2 DEF GroupRecord
  <2> HIDE DEF record
  <2> QED
    BY <1>2, <2>1, <2>2, <2>3 DEF SameTree, Exists
<1> QED
  BY <1>3, <1>4 DEF Returns, Owner

LEMMA SupervisionTree ==
  ASSUME IInv, Tree, NEW o \in Owner, Supervision(o)
  PROVE  Tree'
<1> DEFINE g == sup[o].child
<1>1. group \in [Group -> GroupRecord]
  BY DEF IInv, Shape
<1>2. ASSUME NEW x \in Group, Launch(o, x) PROVE Tree'
  BY <1>2, LaunchTree
<1>3. ASSUME sup[o].pc # "free" PROVE g \in Group /\ Exists(g) /\ group[g] \in GroupRecord
  BY <1>1, <1>3, OwnersChild
<1>4. CASE Notice(o) \/ TimeOut(o) \/ Forcibly(o)
  <2>1. SameTree
    BY <1>4 DEF Notice, TimeOut, Forcibly, SameTree, Exists
  <2> QED
    BY <2>1, TreeKept
<1>5. CASE Arm(o)
  <2> DEFINE r == [group[g] EXCEPT !.watch = "armed"]
  <2>1. /\ g \in Group /\ Exists(g) /\ group' = [group EXCEPT ![g] = r]
        /\ r.owner = group[g].owner /\ r.leader # "none"
    BY <1>3, <1>5 DEF Arm, Supervises, GroupRecord, Exists
  <2> QED
    BY <2>1, OneChanged, TreeKept
<1>6. CASE ReleaseHeld(o)
  <2> DEFINE r == [group[g] EXCEPT !.leader = IF @ = "held" THEN "released" ELSE @]
  <2>1. /\ g \in Group /\ Exists(g) /\ group' = [group EXCEPT ![g] = r]
        /\ r.owner = group[g].owner /\ r.leader # "none"
    BY <1>3, <1>6 DEF ReleaseHeld, Supervises, GroupRecord, Exists
  <2> QED
    BY <2>1, OneChanged, TreeKept
<1>7. CASE EndGroup(o)
  <2> DEFINE w == [group[g] EXCEPT !.watch = "fired"]
             r == Doomed(w)
  <2>1. /\ g \in Group /\ Exists(g) /\ w \in GroupRecord
        /\ w.owner = group[g].owner /\ w.leader # "none"
    BY <1>3, <1>7 DEF EndGroup, Supervises, GroupRecord, Exists, Watcher
  <2>2. r.owner = w.owner /\ r.leader # "none" /\ group' = [group EXCEPT ![g] = r]
    BY <2>1, <1>7, DoomedKeeps DEF EndGroup
  <2> HIDE DEF r
  <2> QED
    BY <2>1, <2>2, OneChanged, TreeKept
<1>8. CASE Graceful(o) \/ ConfirmGone(o) \/ Unverified(o)
  <2>1. PICK what \in Word, verified \in BOOLEAN : Returns(o, verified, Told(g, what))
    BY <1>8 DEF Graceful, ConfirmGone, Unverified, Word
  <2> DEFINE r == [group[g] EXCEPT !.told = what, !.watch = "off", !.code = "none"]
  <2>2. /\ g \in Group /\ Exists(g) /\ r \in GroupRecord
        /\ r.owner = group[g].owner /\ r.leader # "none" /\ Acts(o) /\ sup[o].pc # "free"
    BY <1>3, <1>8 DEF Graceful, ConfirmGone, Unverified, Supervises, GroupRecord, Exists, Watcher
  <2>3. Told(g, what) = [group EXCEPT ![g] = r]
    BY DEF Told
  <2> HIDE DEF r
  <2>4. SameTree
    BY <2>1, <2>2, <2>3, ReturnTree
  <2> QED
    BY <2>4, TreeKept
<1>9. CASE LaunchFails(o)
  <2> DEFINE w == [group[g] EXCEPT !.told = "launch"]
             r == Doomed(w)
  <2>1. /\ g \in Group /\ Exists(g) /\ w \in GroupRecord /\ sup[o].pc # "free" /\ Acts(o)
        /\ w.owner = group[g].owner /\ w.leader # "none"
    BY <1>3, <1>9 DEF LaunchFails, GroupRecord, Exists, Word
  <2>2. /\ r \in GroupRecord /\ r.owner = group[g].owner /\ r.leader # "none"
        /\ Returns(o, FALSE, [group EXCEPT ![g] = r])
    BY <2>1, <1>9, DoomedRecord, DoomedKeeps DEF LaunchFails
  <2> HIDE DEF r
  <2>3. SameTree
    BY <2>1, <2>2, ReturnTree
  <2> QED
    BY <2>3, TreeKept
<1> QED
  BY <1>2, <1>4, <1>5, <1>6, <1>7, <1>8, <1>9 DEF Supervision

LEMMA SupervisionCounted ==
  ASSUME IInv, Counted, NEW o \in Owner, Supervision(o)
  PROVE  Counted'
<1>1. /\ strict.status \in Seq(Status) /\ Verifier \in Owner /\ sup \in [Owner -> SupRecord]
      /\ strict \in [run : Nat, up : BOOLEAN, status : Seq(Status), abort : BOOLEAN,
                      verdict : {"none"} \cup Status]
  BY DEF IInv, Shape, Owner
<1>2. CASE o # Verifier
  <2>1. strict' = strict /\ sup'[Verifier] = sup[Verifier]
    BY <1>1, <1>2 DEF Supervision, Launch, Arm, ReleaseHeld, Notice, TimeOut, Forcibly, EndGroup,
       Graceful, ConfirmGone, Unverified, LaunchFails, Moves, Returns
  <2> QED
    BY <2>1 DEF Counted, Busy
<1>3. CASE o = Verifier
  <2>1. ASSUME NEW g \in Group, Launch(o, g) PROVE Counted'
    BY <1>1, <1>3, <2>1 DEF Launch, Supervises, Acts, MayLaunch, Counted
  <2>2. CASE Arm(o) \/ ReleaseHeld(o) \/ Notice(o) \/ TimeOut(o) \/ Forcibly(o) \/ EndGroup(o)
    <3>1. strict' = strict /\ sup[o].pc # "free"
      BY <2>2 DEF Arm, ReleaseHeld, Notice, TimeOut, Forcibly, EndGroup, Supervises
    <3> QED
      BY <3>1, <1>3 DEF Counted, Busy
  <2>3. CASE Graceful(o) \/ ConfirmGone(o) \/ Unverified(o) \/ LaunchFails(o)
    <3>1. /\ sup[o].pc # "free" /\ sup' = [sup EXCEPT ![o] = Unbusy]
          /\ \E verified \in BOOLEAN : Record(o, verified)
      BY <2>3, <1>3 DEF Graceful, ConfirmGone, Unverified, LaunchFails, Supervises, Returns
    <3>2. PICK st : strict'.status = Append(strict.status, st)
      BY <3>1, <1>1 DEF Record
    <3>3. ~Busy(Verifier)' /\ Len(strict.status) < MaxStage
      BY <3>1, <1>1, <1>3 DEF Busy, Counted, Unbusy
    <3>4. Len(strict'.status) = Len(strict.status) + 1 /\ Len(strict.status) \in Nat
      BY <3>2, <1>1
    <3> QED
      BY <3>3, <3>4, StrictAssumption DEF Counted
  <2> QED
    BY <2>1, <2>2, <2>3 DEF Supervision
<1> QED
  BY <1>2, <1>3

\* Every group is started by an earlier one or by the verifier, and no more
\* stages are recorded than there are (run_strict, run_supervised).
THEOREM StrictTyping == StrictSpec => []StrictTypeOK
<1>1. StrictInit => Tree /\ Counted
  <2> SUFFICES ASSUME StrictInit PROVE Tree /\ Counted
    OBVIOUS
  <2>1. \A g \in Group : group[g] = Ungroup /\ g \in Nat /\ g >= 1
    BY StrictAssumption DEF StrictInit, Group
  <2>2. sup[Verifier] = Unbusy /\ strict.status = <<>>
    BY DEF StrictInit, Owner, NewRun
  <2> QED
    BY <2>1, <2>2, StrictAssumption
       DEF Tree, Counted, Ungroup, Unbusy, Verifier, Exists, Busy
<1>2. IInv /\ Tree /\ Counted /\ [StrictNext]_strictVars => Tree' /\ Counted'
  <2> SUFFICES ASSUME IInv, Tree, Counted, [StrictNext]_strictVars PROVE Tree' /\ Counted'
    OBVIOUS
  <2>1. ASSUME NEW o \in Owner, Supervision(o) PROVE Tree' /\ Counted'
    BY <2>1, SupervisionTree, SupervisionCounted
  <2>2. ASSUME NEW g \in Group, CommandStep(g) PROVE Tree' /\ Counted'
    BY <2>2, CommandTree, TreeKept DEF Counted, Busy
  <2>3. CASE Overall \/ KillVerifier \/ Rerun
    <3>1. group' = group
      BY <2>3 DEF Overall, KillVerifier, Rerun
    <3>2. Tree'
      BY <3>1, TreeKept DEF SameTree, Exists
    <3>3. /\ Verifier \in Owner /\ sup \in [Owner -> SupRecord]
          /\ strict \in [run : Nat, up : BOOLEAN, status : Seq(Status), abort : BOOLEAN,
                          verdict : {"none"} \cup Status]
      BY DEF IInv, Shape, Owner
    <3>4. CASE Overall
      <4>1. sup' = sup /\ strict'.status = strict.status /\ strict'.up = strict.up
        BY <3>3, <3>4 DEF Overall
      <4> QED
        BY <3>2, <4>1 DEF Counted, Busy
    <3>5. CASE KillVerifier
      <4>1. sup'[Verifier] = Unbusy /\ strict'.status = strict.status
        BY <3>3, <3>5 DEF KillVerifier
      <4> QED
        BY <3>2, <4>1 DEF Counted, Busy, Unbusy
    <3>6. CASE Rerun
      <4>1. sup' = sup /\ strict'.status = <<>> /\ ~Busy(Verifier)
        BY <3>6 DEF Rerun, NewRun, Counted
      <4> QED
        BY <3>2, <4>1, StrictAssumption DEF Counted, Busy
    <3> QED
      BY <2>3, <3>4, <3>5, <3>6
  <2>4. CASE UNCHANGED strictVars
    BY <2>4 DEF strictVars, Tree, Counted, Exists, Busy
  <2> QED
    BY <2>1, <2>2, <2>3, <2>4 DEF StrictNext
<1>3. IInv /\ Tree /\ Counted => StrictTypeOK
  <2> SUFFICES ASSUME IInv, Tree, Counted PROVE StrictTypeOK
    OBVIOUS
  <2>1. \A g \in Group : group[g] \in GroupRecord
    BY DEF IInv, Shape
  <2>2. \A o \in Owner : sup[o].child \in 0 .. MaxGroup
    BY StrictAssumption DEF IInv, Shape, SupRecord, Owner, Group, Verifier
  <2>3. \A g \in Group : /\ {group[g].leader, group[g].helper} \subseteq Member
                         /\ group[g].watch \in {"none", "armed", "fired", "off"}
    BY <2>1 DEF GroupRecord, Member, Watcher
  <2> QED
    BY <2>2, <2>3 DEF StrictTypeOK, Tree, Counted
<1> QED
  BY <1>1, <1>2, <1>3, AlwaysIInv, PTL DEF StrictSpec

\* Both together, as the runs check it (run_supervised, run_strict).
THEOREM NothingEscapes == StrictSpec => []NoneEscapes
<1>1. Leashed /\ Contained => NoneEscapes
  BY DEF NoneEscapes
<1> QED
  BY <1>1, NothingOffTheLeash, PassedLeavesNothing, PTL
-----------------------------------------------------------------------------
(***************************************************************************)
(* Releases (Packaging), for any number of commands, files and commits.    *)
(***************************************************************************)

Releases == built \cup doubtful

\* What a build has read is in the commit whose name it noted.
ReadCommitted(c) ==
  \A f \in Piece \ c.unread : c.release.file[f] = past[c.release.commit][f]

\* What a command may rely on.  As long as the checkout has not been put back it tells
\* by being clean, and by its HEAD, that nothing else was read.
CommandKnown(c) ==
  /\ c.step \in BuildStep => c.task = "build"
  /\ c.step \in BuildStep \ {"head"} => c.release.commit \in 1 .. count
  /\ c.step \in {"collect", "authority again", "head again", "status again"}
       => \/ c.blurred \/ ~NothingToCommit \/ tip # c.release.commit
          \/ ReadCommitted(c)
  /\ c.step = "status again" => c.blurred \/ tip = c.release.commit
  /\ c.step = "compose" => c.blurred \/ ReadCommitted(c)
  /\ c.step \in {"authority again", "head again", "status again", "compose"}
       => c.unread = {}
  /\ c.step \in {"target", "write", "report", "mkdir", "extract"}
       => c.release \in Releases
  /\ c.step = "read" => c.manifest \in Releases \cup {NoPackage}

PackInv ==
  /\ PackagingTypeOK
  /\ \A p \in Packer : CommandKnown(packer[p])
  /\ \A r \in built : r.commit \in 1 .. count
  /\ BuiltFromCommit
  /\ zip.state = "whole" => zip.release \in Releases
  /\ workspace.manifest \in Releases \cup {NoPackage}

LEMMA PackTypes ==
  /\ NoFiles \in Snapshot /\ NoPackage \in Package /\ Dormant \in Command
  /\ MaxCommit \in Nat \ {0} /\ MaxMeddle \in Nat /\ VersionFile \in Piece
<1>1. NoFiles \in Snapshot
  BY PackagingAssumption DEF NoFiles, Snapshot, Text
<1>2. NoPackage \in Package
  BY <1>1, PackagingAssumption DEF NoPackage, Package, Text, Trust
<1>. QED
  BY <1>1, <1>2, PackagingAssumption DEF Dormant, Command, PackStep

\* A step of one command that only reads: it is enough to look at what it knows then.
LEMMA ReadKeeps ==
  ASSUME PackInv, NEW p \in Packer, NEW c \in Command, To(p, c), Reads,
         CommandKnown(c)
  PROVE  PackInv'
<1>1. packer' = [packer EXCEPT ![p] = c] /\ packer \in [Packer -> Command]
  BY DEF To, PackInv, PackagingTypeOK
<1>2. PackagingTypeOK'
  BY <1>1 DEF Reads, sourceVars, PackInv, PackagingTypeOK
<1>3. \A q \in Packer : CommandKnown(packer[q])'
  <2>. SUFFICES ASSUME NEW q \in Packer PROVE CommandKnown(packer[q])'
    OBVIOUS
  <2>1. packer'[q] = IF q = p THEN c ELSE packer[q]
    BY <1>1
  <2>2. CommandKnown(packer'[q])
    BY <2>1 DEF PackInv
  <2>. QED
    BY <2>2 DEF Reads, sourceVars, CommandKnown, Releases, NothingToCommit, ReadCommitted
<1>. QED
  BY <1>2, <1>3 DEF Reads, sourceVars, PackInv, BuiltFromCommit, Releases

LEMMA RestKnown == CommandKnown(Dormant)
BY DEF CommandKnown, Dormant, BuildStep

LEMMA RestKeeps ==
  ASSUME PackInv, NEW p \in Packer, Rest(p), Reads
  PROVE  PackInv'
BY PackTypes, RestKnown, ReadKeeps DEF Rest

\* A step of one command that may add to what was built or put, and takes nothing away.
LEMMA WriteKeeps ==
  ASSUME PackInv, NEW p \in Packer, NEW c \in Command, To(p, c),
         UNCHANGED <<sourceVars, meddle>>, Releases \subseteq Releases',
         CommandKnown(c)',
         (built \subseteq Package /\ doubtful \subseteq Package)',
         \A r \in built' \ built : /\ r.commit \in 1 .. count
                                   /\ r.file = past[r.commit]
                                   /\ r.version = r.file[VersionFile],
         (zip \in Archive /\ workspace \in Directory)',
         zip'.state = "whole" => zip'.release \in Releases',
         workspace'.manifest \in Releases' \cup {NoPackage}
  PROVE  PackInv'
<1>1. packer' = [packer EXCEPT ![p] = c] /\ packer \in [Packer -> Command]
  BY DEF To, PackInv, PackagingTypeOK
<1>2. PackagingTypeOK'
  BY <1>1 DEF sourceVars, PackInv, PackagingTypeOK
<1>3. \A q \in Packer : CommandKnown(packer[q])'
  <2>. SUFFICES ASSUME NEW q \in Packer PROVE CommandKnown(packer[q])'
    OBVIOUS
  <2>1. CASE q = p
    BY <1>1, <2>1 DEF CommandKnown, sourceVars, Releases, NothingToCommit, ReadCommitted
  <2>2. CASE q # p
    <3>1. packer'[q] = packer[q] /\ CommandKnown(packer[q])
      BY <1>1, <2>2 DEF PackInv
    <3>. QED
      BY <3>1 DEF CommandKnown, sourceVars, Releases, NothingToCommit, ReadCommitted
  <2>. QED
    BY <2>1, <2>2
<1>4. BuiltFromCommit' /\ (\A r \in built : r.commit \in 1 .. count)'
  BY DEF sourceVars, PackInv, BuiltFromCommit
<1>. QED
  BY <1>2, <1>3, <1>4 DEF PackInv

LEMMA BuildKeeps ==
  ASSUME PackInv, NEW p \in Packer, BuildMoves(p)
  PROVE  PackInv'
<1>. SUFFICES ASSUME NEW c, c = packer[p] PROVE PackInv'
  OBVIOUS
<1>0. /\ c \in Command /\ c.release \in Package /\ c.generated \in Snapshot
      /\ CommandKnown(c)
      /\ tree \in Snapshot /\ tip \in 1 .. count /\ count \in 1 .. MaxCommit
      /\ tip \in 0 .. MaxCommit
  BY PackTypes DEF PackInv, PackagingTypeOK, Command
<1>1. CASE StartBuild(p)
  <2>1. CommandKnown([Dormant EXCEPT !.task = "build", !.step = "head"])
    BY DEF CommandKnown, Dormant, BuildStep
  <2>2. [Dormant EXCEPT !.task = "build", !.step = "head"] \in Command
    BY PackTypes DEF Dormant, Command, PackStep, BuildStep
  <2>. QED
    BY <1>1, <2>1, <2>2, ReadKeeps DEF StartBuild, Starts
<1>2. ASSUME NEW step \in PackStep, Turns(p, step), Reads,
             CommandKnown([c EXCEPT !.step = step])
      PROVE  PackInv'
  <2>1. [c EXCEPT !.step = step] \in Command
    BY <1>0 DEF Command
  <2>. QED
    BY <1>2, <2>1, ReadKeeps DEF Turns
<1>3. CASE ReadHead(p)
  <2>. DEFINE d == [c EXCEPT !.step = "status", !.release.commit = tip]
  <2>1. To(p, d) /\ Reads /\ c.step = "head"
    BY <1>3 DEF ReadHead, Is
  <2>2. d \in Command
    BY <1>0 DEF Command, Package, PackStep, BuildStep
  <2>3. CommandKnown(d)
    BY <1>0, <2>1 DEF CommandKnown, BuildStep, Command, Package
  <2>. QED
    BY <2>1, <2>2, <2>3, ReadKeeps
<1>4. CASE ReadStatus(p)
  <2>1. c.step = "status" /\ Reads /\ (Turns(p, "authority") \/ Rest(p))
    BY <1>4 DEF ReadStatus, Is
  <2>2. CommandKnown([c EXCEPT !.step = "authority"])
    BY <1>0, <2>1 DEF CommandKnown, BuildStep, Command
  <2>. QED
    BY <1>2, <2>1, <2>2, RestKeeps DEF PackStep, BuildStep
<1>5. CASE ReadAuthority(p)
  <2>. DEFINE d == [c EXCEPT !.step = "version", !.release.trust = receipt]
  <2>1. c.step = "authority" /\ Reads /\ (Rest(p) \/ (To(p, d) /\ receipt \in Trust))
    BY <1>5 DEF ReadAuthority, Is
  <2>2. receipt \in Trust => d \in Command
    BY <1>0 DEF Command, Package, PackStep, BuildStep
  <2>3. CommandKnown(d)
    BY <1>0, <2>1 DEF CommandKnown, BuildStep, Command, Package
  <2>. QED
    BY <2>1, <2>2, <2>3, ReadKeeps, RestKeeps
<1>6. CASE ReadVersion(p)
  <2>. DEFINE d == [c EXCEPT !.step = "collect", !.release.version = tree[VersionFile],
                             !.unread = Piece]
  <2>1. c.step = "version" /\ Reads /\ (Rest(p) \/ To(p, d))
    BY <1>6 DEF ReadVersion, Is
  <2>2. d \in Command
    BY <1>0, PackTypes DEF Command, Package, PackStep, BuildStep, Snapshot, Part
  <2>3. CommandKnown(d)
    BY <1>0, <2>1 DEF CommandKnown, BuildStep, Command, Package, ReadCommitted
  <2>. QED
    BY <2>1, <2>2, <2>3, ReadKeeps, RestKeeps
<1>7. ASSUME NEW f \in Piece, ReadPiece(p, f) PROVE PackInv'
  <2>. DEFINE file == [c.release.file EXCEPT ![f] = tree[f]]
              more == [c EXCEPT !.release.file = file, !.unread = @ \ {f}]
              last == [c EXCEPT !.step = "authority again", !.unread = {},
                                !.release.file = file, !.generated = Generated(file)]
  <2>1. c.step = "collect" /\ f \in c.unread /\ Reads
    BY <1>7 DEF ReadPiece, Is
  <2>2. (c.unread = {f} /\ To(p, last)) \/ To(p, more)
    BY <1>7 DEF ReadPiece
  <2>3. file \in Snapshot
    BY <1>0 DEF Snapshot, Package
  <2>4. more \in Command /\ last \in Command
    BY <1>0, <2>3 DEF Command, Package, PackStep, BuildStep, Generated
  <2>5. NothingToCommit /\ tip = c.release.commit /\ ReadCommitted(c)
          => \A g \in (Piece \ c.unread) \cup {f} : file[g] = past[c.release.commit][g]
    BY <1>0 DEF NothingToCommit, ReadCommitted, Package, Snapshot
  <2>6. CommandKnown(more)
    <3>1. /\ more.step = "collect" /\ more.task = c.task /\ more.blurred = c.blurred
          /\ more.unread = c.unread \ {f} /\ more.release.file = file
          /\ more.release.commit = c.release.commit
      BY <1>0, <2>1 DEF Command, Package
    <3>. HIDE DEF more, file
    <3>. QED
      BY <1>0, <2>1, <2>5, <3>1 DEF CommandKnown, BuildStep, ReadCommitted
  <2>7. c.unread = {f} => CommandKnown(last)
    <3>1. /\ last.step = "authority again" /\ last.task = c.task
          /\ last.blurred = c.blurred /\ last.unread = {} /\ last.release.file = file
          /\ last.release.commit = c.release.commit
      BY <1>0 DEF Command, Package
    <3>. HIDE DEF last, file
    <3>. QED
      BY <1>0, <2>1, <2>5, <3>1 DEF CommandKnown, BuildStep, ReadCommitted
  <2>. QED
    BY <2>1, <2>2, <2>4, <2>6, <2>7, ReadKeeps
<1>8. CASE PieceGone(p) \/ Report(p)
  BY <1>8, RestKeeps DEF PieceGone, Report
<1>9. CASE CheckAuthority(p)
  <2>1. c.step = "authority again" /\ Reads /\ (Turns(p, "head again") \/ Rest(p))
    BY <1>9 DEF CheckAuthority, Is
  <2>2. CommandKnown([c EXCEPT !.step = "head again"])
    BY <1>0, <2>1 DEF CommandKnown, BuildStep, Command, ReadCommitted
  <2>. QED
    BY <1>2, <2>1, <2>2, RestKeeps DEF PackStep, BuildStep
<1>10. CASE CheckHead(p)
  <2>1. /\ c.step = "head again" /\ Reads
        /\ \/ tip = c.release.commit /\ Turns(p, "status again")
           \/ Rest(p)
    BY <1>10 DEF CheckHead, Is
  <2>2. tip = c.release.commit => CommandKnown([c EXCEPT !.step = "status again"])
    BY <1>0, <2>1 DEF CommandKnown, BuildStep, Command, ReadCommitted
  <2>. QED
    BY <1>2, <2>1, <2>2, RestKeeps DEF PackStep, BuildStep
<1>11. CASE CheckStatus(p)
  <2>1. /\ c.step = "status again" /\ Reads
        /\ \/ NothingToCommit /\ Turns(p, "compose")
           \/ Rest(p)
    BY <1>11 DEF CheckStatus, Is
  <2>2. NothingToCommit => CommandKnown([c EXCEPT !.step = "compose"])
    BY <1>0, <2>1 DEF CommandKnown, BuildStep, Command, ReadCommitted
  <2>. QED
    BY <1>2, <2>1, <2>2, RestKeeps DEF PackStep, BuildStep
<1>12. CASE Compose(p)
  <2>. DEFINE r == c.release
  <2>1. /\ c.step = "compose" /\ UNCHANGED <<sourceVars, zip, workspace, meddle>>
    BY <1>12 DEF Compose, Is
  <2>2. CASE Verified(r.file, c.generated, r)
    <3>1. /\ Turns(p, "write")
          /\ \/ c.blurred /\ doubtful' = doubtful \cup {r} /\ built' = built
             \/ ~c.blurred /\ built' = built \cup {r} /\ doubtful' = doubtful
      BY <1>12, <2>2 DEF Compose
    <3>2. [c EXCEPT !.step = "write"] \in Command
      BY <1>0 DEF Command, PackStep
    <3>3. Releases' = Releases \cup {r}
      BY <3>1 DEF Releases
    <3>4. CommandKnown([c EXCEPT !.step = "write"])'
      BY <1>0, <3>3 DEF CommandKnown, BuildStep, Command
    <3>5. ~c.blurred => r.commit \in 1 .. count /\ r.file = past[r.commit]
      <4>1. ~c.blurred => /\ r.commit \in 1 .. count
                          /\ \A f \in Piece : r.file[f] = past[r.commit][f]
        BY <1>0, <2>1 DEF CommandKnown, BuildStep, ReadCommitted
      <4>. QED
        BY <1>0, <4>1 DEF PackInv, PackagingTypeOK, Package, Snapshot
    <3>6. r.version = r.file[VersionFile]
      BY <2>2 DEF Verified
    <3>7. (zip \in Archive /\ workspace \in Directory)'
      BY <2>1 DEF PackInv, PackagingTypeOK
    <3>8. (built \subseteq Package /\ doubtful \subseteq Package)'
      BY <1>0, <3>1 DEF PackInv, PackagingTypeOK
    <3>9. /\ zip'.state = "whole" => zip'.release \in Releases'
          /\ workspace'.manifest \in Releases' \cup {NoPackage}
      BY <2>1, <3>3 DEF PackInv
    <3>. QED
      BY <2>1, <3>1, <3>2, <3>3, <3>4, <3>5, <3>6, <3>7, <3>8, <3>9, WriteKeeps
      DEF Turns
  <2>3. CASE ~Verified(r.file, c.generated, r)
    BY <1>12, <2>3, RestKeeps DEF Compose, Reads
  <2>. QED
    BY <2>2, <2>3
<1>13. CASE Put(p)
  <2>1. /\ c.step = "write" /\ Turns(p, "report")
        /\ zip' = [state |-> "whole", release |-> c.release]
        /\ UNCHANGED <<sourceVars, workspace, built, doubtful, meddle>>
    BY <1>13 DEF Put, Is
  <2>2. [c EXCEPT !.step = "report"] \in Command
    BY <1>0 DEF Command, PackStep
  <2>3. CommandKnown([c EXCEPT !.step = "report"])'
    BY <1>0, <2>1 DEF CommandKnown, BuildStep, Command, Releases
  <2>4. zip' \in Archive /\ zip'.release \in Releases'
    BY <1>0, <2>1 DEF Archive, CommandKnown, Releases
  <2>5. /\ workspace' \in Directory /\ workspace'.manifest \in Releases' \cup {NoPackage}
        /\ (built \subseteq Package /\ doubtful \subseteq Package)'
        /\ Releases' = Releases /\ built' = built
    BY <2>1 DEF PackInv, PackagingTypeOK, Releases
  <2>. QED
    BY <2>1, <2>2, <2>3, <2>4, <2>5, WriteKeeps DEF Turns
<1>. QED
  BY <1>1, <1>3, <1>4, <1>5, <1>6, <1>7, <1>8, <1>9, <1>10, <1>11, <1>12, <1>13
  DEF BuildMoves

LEMMA CopyKeeps ==
  ASSUME PackInv, NEW p \in Packer, CopyMoves(p)
  PROVE  PackInv'
<1>. SUFFICES ASSUME NEW c, c = packer[p] PROVE PackInv'
  OBVIOUS
<1>0. /\ c \in Command /\ c.release \in Package /\ c.generated \in Snapshot
      /\ CommandKnown(c)
      /\ zip \in Archive /\ workspace \in Directory
      /\ built \subseteq Package /\ doubtful \subseteq Package
  BY DEF PackInv, PackagingTypeOK, Command
<1>1. CASE OpenZip(p)
  <2>. DEFINE d == [Dormant EXCEPT !.task = "smoke", !.step = "mkdir",
                                   !.release = zip.release]
  <2>1. To(p, d) /\ Reads /\ zip.state = "whole"
    BY <1>1 DEF OpenZip
  <2>2. d \in Command
    BY <1>0, PackTypes DEF Dormant, Command, PackStep, Archive
  <2>3. CommandKnown(d)
    BY <2>1 DEF CommandKnown, Dormant, BuildStep, PackInv
  <2>. QED
    BY <2>1, <2>2, <2>3, ReadKeeps
<1>2. CASE MakeWorkspace(p)
  <2>1. CASE workspace.there
    BY <1>2, <2>1, RestKeeps DEF MakeWorkspace, Reads
  <2>2. CASE ~workspace.there
    <3>. DEFINE d == [c EXCEPT !.step = "extract", !.unread = Part]
    <3>1. /\ To(p, d) /\ c.step = "mkdir"
          /\ workspace' = [workspace EXCEPT !.there = TRUE]
          /\ UNCHANGED <<sourceVars, zip, built, doubtful, meddle>>
      BY <1>2, <2>2 DEF MakeWorkspace, Is
    <3>2. d \in Command
      BY <1>0 DEF Command, PackStep
    <3>3. CommandKnown(d)'
      BY <1>0, <3>1 DEF CommandKnown, BuildStep, Command, Releases
    <3>4. workspace' \in Directory /\ workspace'.manifest = workspace.manifest
      BY <1>0, <3>1 DEF Directory
    <3>5. Releases' = Releases
      BY <3>1 DEF Releases
    <3>. QED
      BY <1>0, <3>1, <3>2, <3>3, <3>4, <3>5, WriteKeeps DEF PackInv
  <2>. QED
    BY <2>1, <2>2
<1>3. ASSUME NEW part \in Part, WritePart(p, part) PROVE PackInv'
  <2>. DEFINE d == IF c.unread = {part} THEN Dormant
                   ELSE [c EXCEPT !.unread = @ \ {part}]
  <2>1. /\ c.step = "extract"
        /\ UNCHANGED <<sourceVars, zip, built, doubtful, meddle>>
    BY <1>3 DEF WritePart, Is
  <2>2. d \in Command
    BY <1>0, PackTypes DEF Command
  <2>3. CommandKnown(d)'
    BY <1>0, <2>1 DEF CommandKnown, BuildStep, Command, Releases, Dormant
  <2>4. c.release \in Releases
    BY <1>0, <2>1 DEF CommandKnown
  <2>5. CASE Present(part)
    BY <1>3, <2>5, RestKeeps DEF WritePart, Reads
  <2>6. CASE ~Present(part)
    <3>1. /\ workspace' \in Directory
          /\ workspace'.manifest \in {workspace.manifest, c.release}
      BY <1>0, <1>3, <2>6 DEF WritePart, Directory, Package, Snapshot, Part, Generated
    <3>2. To(p, d)
      BY <1>3, <2>6 DEF WritePart
    <3>3. Releases' = Releases
      BY <2>1 DEF Releases
    <3>. HIDE DEF d
    <3>. QED
      BY <1>0, <2>1, <2>2, <2>3, <2>4, <3>1, <3>2, <3>3, WriteKeeps DEF PackInv
  <2>. QED
    BY <2>5, <2>6
<1>4. CASE Walk(p)
  <2>. DEFINE present == {part \in Part : Present(part)}
              d == [Dormant EXCEPT !.task = "make", !.step = "read", !.unread = present]
  <2>1. Reads /\ (To(p, d) \/ UNCHANGED packer)
    BY <1>4 DEF Walk
  <2>2. CASE UNCHANGED packer
    <3>1. CommandKnown(c) /\ To(p, c)
      BY <1>0, <2>2 DEF PackInv, PackagingTypeOK, To
    <3>. QED
      BY <1>0, <2>1, <3>1, ReadKeeps
  <2>3. d \in Command
    BY PackTypes DEF Command, Dormant, PackStep
  <2>4. CommandKnown(d)
    BY DEF CommandKnown, Dormant, BuildStep
  <2>. QED
    BY <2>1, <2>2, <2>3, <2>4, ReadKeeps
<1>5. CASE Target(p)
  <2>1. /\ c.step = "target" /\ Reads
        /\ \/ Rest(p)
           \/ Turns(p, "write")
           \/ Turns(p, "report")
    BY <1>5 DEF Target, Is
  <2>2. ASSUME NEW step \in {"write", "report"}
        PROVE  /\ [c EXCEPT !.step = step] \in Command
               /\ CommandKnown([c EXCEPT !.step = step])
    BY <1>0, <2>1 DEF Command, PackStep, CommandKnown, BuildStep
  <2>. QED
    BY <2>1, <2>2, ReadKeeps, RestKeeps DEF Turns
<1>6. ASSUME NEW part \in Part, ReadPart(p, part) PROVE PackInv'
  <2>. DEFINE d == [WithPart(c, part) EXCEPT !.unread = @ \ {part}]
              e == [d EXCEPT !.step = "target", !.release = d.manifest]
  <2>1. /\ c.step = "read" /\ Reads
        /\ \/ Rest(p)
           \/ To(p, d)
           \/ To(p, e) /\ Verified(d.release.file, d.generated, d.manifest)
    BY <1>6 DEF ReadPart, Is, Rest
  <2>2. WithPart(c, part) \in Command /\ WithPart(c, part).step = "read"
    BY <1>0, <2>1 DEF WithPart, Command, Package, Snapshot, Directory, Part
  <2>3. WithPart(c, part).manifest \in {c.manifest, workspace.manifest}
    BY <1>0 DEF WithPart, Command
  <2>4. d \in Command /\ d.manifest \in Releases \cup {NoPackage} /\ d.step = "read"
    BY <1>0, <2>1, <2>2, <2>3 DEF Command, CommandKnown, PackInv
  <2>5. CommandKnown(d)
    BY <2>4 DEF CommandKnown, BuildStep
  <2>6. e \in Command /\ e.step = "target" /\ e.release = d.manifest
    BY <2>4 DEF Command, PackStep
  <2>7. Verified(d.release.file, d.generated, d.manifest) => CommandKnown(e)
    <3>1. Verified(d.release.file, d.generated, d.manifest) => d.manifest \in Releases
      BY <2>4 DEF Verified, NoPackage
    <3>. QED
      BY <2>6, <3>1 DEF CommandKnown, BuildStep
  <2>. HIDE DEF d, e
  <2>. QED
    BY <2>1, <2>4, <2>5, <2>6, <2>7, ReadKeeps, RestKeeps
<1>. QED
  BY <1>1, <1>2, <1>3, <1>4, <1>5, <1>6 DEF CopyMoves

\* What others do to the checkout: the commits that there are stay as they are.
LEMMA MeddleKeeps ==
  ASSUME PackInv, Notices, UNCHANGED <<zip, workspace, built, doubtful>>,
         (tree \in Snapshot /\ past \in [1 .. MaxCommit -> Snapshot])',
         (count \in 1 .. MaxCommit /\ tip \in 1 .. count)',
         (receipt \in Receipt /\ meddle \in 0 .. MaxMeddle)',
         count <= count', \A i \in 1 .. count : past'[i] = past[i]
  PROVE  PackInv'
<1>. DEFINE C(p) == [packer[p] EXCEPT !.blurred = @ \/ Blurs(p)]
<1>1. /\ packer' = [p \in Packer |-> C(p)] /\ packer \in [Packer -> Command]
      /\ count \in 1 .. MaxCommit /\ MaxCommit \in Nat /\ count' \in 1 .. MaxCommit
  BY PackTypes DEF Notices, PackInv, PackagingTypeOK
<1>2. ASSUME NEW p \in Packer
      PROVE  /\ packer'[p] = C(p) /\ C(p) \in Command
             /\ C(p).task = packer[p].task /\ C(p).step = packer[p].step
             /\ C(p).release = packer[p].release /\ C(p).manifest = packer[p].manifest
             /\ C(p).unread = packer[p].unread
             /\ C(p).blurred = (packer[p].blurred \/ Blurs(p))
  <2>1. packer[p] \in Command /\ (packer[p].blurred \/ Blurs(p)) \in BOOLEAN
    BY <1>1 DEF Command
  <2>. QED
    BY <1>1, <2>1 DEF Command
<1>. HIDE DEF C
<1>3. ASSUME NEW p \in Packer PROVE CommandKnown(packer[p])'
  <2>. SUFFICES ASSUME NEW c, c = packer[p], NEW d, d = packer'[p]
                PROVE  CommandKnown(d)'
    BY DEF CommandKnown, ReadCommitted
  <2>. DEFINE reading == c.step \in {"collect", "authority again", "head again",
                                     "status again"}
              i == c.release.commit
  <2>1. /\ CommandKnown(c) /\ d.task = c.task /\ d.step = c.step
        /\ d.release = c.release /\ d.manifest = c.manifest /\ d.unread = c.unread
        /\ d.blurred = (c.blurred \/ Blurs(p))
    BY <1>2 DEF PackInv
  <2>2. c.step \in BuildStep \ {"head"} => c.task = "build" /\ i \in 1 .. count
                                           /\ i \in 1 .. count' /\ past'[i] = past[i]
    <3>1. c.step \in BuildStep \ {"head"} => c.task = "build" /\ i \in 1 .. count
      BY <2>1 DEF CommandKnown
    <3>2. i \in 1 .. count => i \in 1 .. count' /\ past'[i] = past[i]
      BY <1>1
    <3>. QED
      BY <3>1, <3>2
  <2>3. c.step \in BuildStep \ {"head"} /\ ReadCommitted(c) => ReadCommitted(d)'
    BY <2>1, <2>2 DEF ReadCommitted
  <2>4. /\ reading => c.step \in BuildStep \ {"head"}
        /\ c.step = "compose" => c.step \in BuildStep \ {"head"}
    BY DEF BuildStep
  <2>5. reading => d.blurred \/ ~NothingToCommit' \/ tip' # i \/ ReadCommitted(d)'
    <3>1. reading => c.blurred \/ ~NothingToCommit \/ tip # i \/ ReadCommitted(c)
      BY <2>1 DEF CommandKnown
    <3>2. reading /\ NothingToCommit' /\ tip' = i /\ ~(NothingToCommit /\ tip = i) => Blurs(p)
      BY <2>2, <2>4 DEF Blurs
    <3>. QED
      BY <2>1, <2>3, <2>4, <3>1, <3>2
  <2>6. c.step = "status again" => d.blurred \/ tip' = i
    <3>1. c.step = "status again" => c.blurred \/ tip = i
      BY <2>1 DEF CommandKnown
    <3>2. c.step = "status again" /\ tip' # tip => Blurs(p)
      BY <2>2, <2>4 DEF Blurs, Is
    <3>. QED
      BY <2>1, <3>1, <3>2
  <2>7. c.step = "compose" => d.blurred \/ ReadCommitted(d)'
    <3>1. c.step = "compose" => c.blurred \/ ReadCommitted(c)
      BY <2>1 DEF CommandKnown
    <3>. QED
      BY <2>1, <2>3, <2>4, <3>1
  <2>8. Releases' = Releases
    BY DEF Releases
  <2>9. /\ d.step \in BuildStep => d.task = "build"
        /\ d.step \in BuildStep \ {"head"} => d.release.commit \in 1 .. count'
        /\ d.step \in {"authority again", "head again", "status again", "compose"}
             => d.unread = {}
        /\ d.step \in {"target", "write", "report", "mkdir", "extract"}
             => d.release \in Releases'
        /\ d.step = "read" => d.manifest \in Releases' \cup {NoPackage}
    <3>1. /\ c.step \in BuildStep => c.task = "build"
          /\ c.step \in {"authority again", "head again", "status again", "compose"}
               => c.unread = {}
          /\ c.step \in {"target", "write", "report", "mkdir", "extract"}
               => c.release \in Releases
          /\ c.step = "read" => c.manifest \in Releases \cup {NoPackage}
      BY <2>1 DEF CommandKnown
    <3>. QED
      BY <2>1, <2>2, <2>8, <3>1
  <2>. QED
    BY <2>1, <2>5, <2>6, <2>7, <2>9 DEF CommandKnown
<1>4. packer' \in [Packer -> Command]
  BY <1>1, <1>2
<1>5. PackagingTypeOK'
  BY <1>4 DEF PackInv, PackagingTypeOK
<1>6. (\A r \in built : r.commit \in 1 .. count)' /\ BuiltFromCommit'
  BY <1>1 DEF PackInv, BuiltFromCommit
<1>. QED
  BY <1>3, <1>5, <1>6 DEF PackInv, Releases

\* Somebody edits what was extracted or damages an archive: nothing that was not a
\* release becomes one.
LEMMA DamageKeeps ==
  ASSUME PackInv, UNCHANGED <<sourceVars, packer, built, doubtful>>,
         (zip \in Archive /\ workspace \in Directory /\ meddle \in 0 .. MaxMeddle)',
         zip'.state = "whole" => zip' = zip,
         workspace'.manifest \in {workspace.manifest, NoPackage}
  PROVE  PackInv'
<1>1. PackagingTypeOK'
  BY DEF PackInv, PackagingTypeOK, sourceVars
<1>2. ASSUME NEW p \in Packer PROVE CommandKnown(packer[p])'
  <2>1. CommandKnown(packer[p])
    BY DEF PackInv
  <2>. QED
    BY <2>1 DEF CommandKnown, sourceVars, Releases, NothingToCommit, ReadCommitted
<1>. QED
  BY <1>1, <1>2 DEF PackInv, sourceVars, Releases, BuiltFromCommit

LEMMA OthersKeep ==
  ASSUME PackInv, OthersMove
  PROVE  PackInv'
<1>0. /\ tree \in Snapshot /\ past \in [1 .. MaxCommit -> Snapshot]
      /\ count \in 1 .. MaxCommit /\ tip \in 1 .. count /\ receipt \in Receipt
      /\ zip \in Archive /\ workspace \in Directory
      /\ meddle \in 0 .. MaxMeddle /\ MaxMeddle \in Nat /\ MaxCommit \in Nat
  BY PackTypes DEF PackInv, PackagingTypeOK
<1>1. ASSUME meddle > 0, meddle' = meddle - 1 PROVE meddle' \in 0 .. MaxMeddle
  BY <1>0, <1>1
<1>2. ASSUME NEW f \in Piece, NEW t \in Text, Amend(f, t) PROVE PackInv'
  <2>1. tree' \in Snapshot
    BY <1>0, <1>2 DEF Amend, Snapshot
  <2>. QED
    BY <1>0, <1>1, <1>2, <2>1, MeddleKeeps DEF Amend, Meddles
<1>3. CASE CommitTree
  <2>1. /\ count' = count + 1 /\ tip' = count + 1 /\ count < MaxCommit
        /\ past' = [past EXCEPT ![count + 1] = tree] /\ UNCHANGED <<tree, receipt>>
    BY <1>3 DEF CommitTree
  <2>2. count' \in 1 .. MaxCommit /\ tip' \in 1 .. count' /\ count <= count'
    BY <1>0, <2>1
  <2>3. past' \in [1 .. MaxCommit -> Snapshot] /\ \A i \in 1 .. count : past'[i] = past[i]
    BY <1>0, <2>1
  <2>. QED
    BY <1>0, <1>1, <1>3, <2>1, <2>2, <2>3, MeddleKeeps DEF CommitTree, Meddles
<1>4. ASSUME NEW i \in 1 .. MaxCommit, Checkout(i) PROVE PackInv'
  <2>1. tip' \in 1 .. count /\ tree' \in Snapshot /\ UNCHANGED <<past, count, receipt>>
    BY <1>0, <1>4 DEF Checkout
  <2>. QED
    BY <1>0, <1>1, <1>4, <2>1, MeddleKeeps DEF Checkout, Meddles
<1>5. ASSUME NEW r \in Receipt, Decides(r) PROVE PackInv'
  <2>1. /\ UNCHANGED <<tree, past, count, tip, packer, zip, workspace, built, doubtful>>
        /\ receipt' \in Receipt /\ meddle' \in 0 .. MaxMeddle
    BY <1>1, <1>5 DEF Decides, Meddles
  <2>2. PackagingTypeOK'
    BY <2>1 DEF PackInv, PackagingTypeOK
  <2>3. ASSUME NEW p \in Packer PROVE CommandKnown(packer[p])'
    <3>1. CommandKnown(packer[p])
      BY DEF PackInv
    <3>. QED
      BY <2>1, <3>1 DEF CommandKnown, Releases, NothingToCommit, ReadCommitted
  <2>. QED
    BY <2>1, <2>2, <2>3 DEF PackInv, Releases, BuiltFromCommit
<1>6. ASSUME NEW part \in Part, NEW t \in Text, EditWorkspace(part, t) PROVE PackInv'
  <2>1. workspace' \in Directory
        /\ workspace'.manifest \in {workspace.manifest, NoPackage}
    BY <1>0, <1>6, PackTypes DEF EditWorkspace, Directory, Snapshot, Part
  <2>. QED
    BY <1>0, <1>1, <1>6, <2>1, DamageKeeps DEF EditWorkspace
<1>7. CASE Damage \/ TakeOut
  <2>1. zip' \in Archive /\ zip'.state # "whole"
    BY <1>0, <1>7, PackTypes DEF Damage, TakeOut, Archive
  <2>. QED
    BY <1>0, <1>1, <1>7, <2>1, DamageKeeps DEF Damage, TakeOut
<1>8. ASSUME NEW p \in Packer, KillPacker(p) PROVE PackInv'
  <2>1. /\ To(p, Dormant) /\ UNCHANGED <<sourceVars, zip, workspace, built, doubtful>>
        /\ meddle' \in 0 .. MaxMeddle
    BY <1>1, <1>8 DEF KillPacker, Rest
  <2>2. packer' = [packer EXCEPT ![p] = Dormant] /\ packer \in [Packer -> Command]
    BY <2>1 DEF To, PackInv, PackagingTypeOK
  <2>3. PackagingTypeOK'
    BY <2>1, <2>2, PackTypes DEF PackInv, PackagingTypeOK, sourceVars
  <2>4. ASSUME NEW q \in Packer PROVE CommandKnown(packer[q])'
    <3>1. packer'[q] = IF q = p THEN Dormant ELSE packer[q]
      BY <2>2
    <3>2. CommandKnown(packer'[q])
      BY <3>1, RestKnown DEF PackInv
    <3>. QED
      BY <2>1, <3>2 DEF CommandKnown, sourceVars, Releases, NothingToCommit, ReadCommitted
  <2>. QED
    BY <2>1, <2>3, <2>4 DEF PackInv, sourceVars, Releases, BuiltFromCommit
<1>. QED
  BY <1>2, <1>3, <1>4, <1>5, <1>6, <1>7, <1>8 DEF OthersMove

LEMMA PackInductive == PackagingSpec => []PackInv
<1>1. PackagingInit => PackInv
  <2>. SUFFICES ASSUME PackagingInit PROVE PackInv
    OBVIOUS
  <2>1. past \in [1 .. MaxCommit -> Snapshot] /\ tree \in Snapshot
    <3>1. ASSUME NEW c \in 1 .. MaxCommit
          PROVE  [f \in Piece |-> IF c = 1 THEN 1 ELSE 0] \in Snapshot
      BY PackTypes, PackagingAssumption DEF Snapshot, Text
    <3>2. 1 \in 1 .. MaxCommit /\ tree = past[1]
          /\ past = [c \in 1 .. MaxCommit |-> [f \in Piece |-> IF c = 1 THEN 1 ELSE 0]]
      BY PackTypes DEF PackagingInit
    <3>. QED
      BY <3>1, <3>2
  <2>2. /\ zip = [state |-> "absent", release |-> NoPackage]
        /\ workspace = [there |-> FALSE, file |-> NoFiles, generated |-> NoFiles,
                        manifest |-> NoPackage]
        /\ packer = [p \in Packer |-> Dormant] /\ built = {} /\ doubtful = {}
        /\ count = 1 /\ tip = 1 /\ receipt = "no-project" /\ meddle = MaxMeddle
    BY DEF PackagingInit
  <2>3. PackagingTypeOK
    BY <2>1, <2>2, PackTypes
    DEF PackagingTypeOK, Receipt, Trust, Archive, Directory
  <2>. QED
    BY <2>2, <2>3, RestKnown DEF PackInv, BuiltFromCommit
<1>2. PackInv /\ [PackagingNext]_packVars => PackInv'
  <2>. SUFFICES ASSUME PackInv, [PackagingNext]_packVars PROVE PackInv'
    OBVIOUS
  <2>1. CASE UNCHANGED packVars
    <3>1. /\ UNCHANGED sourceVars /\ UNCHANGED packer
          /\ UNCHANGED <<zip, workspace, built, doubtful, meddle>>
      BY <2>1 DEF packVars
    <3>2. zip \in Archive /\ workspace \in Directory /\ meddle \in 0 .. MaxMeddle
      BY DEF PackInv, PackagingTypeOK
    <3>. QED
      BY <3>1, <3>2, DamageKeeps
  <2>2. CASE OthersMove
    BY <2>2, OthersKeep
  <2>3. ASSUME NEW p \in Packer, BuildMoves(p) \/ CopyMoves(p) PROVE PackInv'
    BY <2>3, BuildKeeps, CopyKeeps
  <2>. QED
    BY <2>1, <2>2, <2>3 DEF PackagingNext
<1>. QED
  BY <1>1, <1>2, PTL DEF PackagingSpec

\* Every value stays in its type (release.py:1382-2720).
THEOREM PackagingTyping == PackagingSpec => []PackagingTypeOK
BY PackInductive, PTL DEF PackInv

\* Whatever others do with the checkout, the archive and the workspace meanwhile: a
\* release that a build composed of an undisturbed checkout is the commit it names, two
\* of the same commit and decision are the same, and only releases that a build
\* composed are put, extracted or made again (release.py:1382-1469, 2087-2148,
\* 2350-2630).
THEOREM PackagesAreSafe == PackagingSpec => []PackagesSafe
<1>1. PackInv => PackagesSafe
  <2>. SUFFICES ASSUME PackInv PROVE PackagesSafe
    OBVIOUS
  <2>1. Reproducible
    <3>. SUFFICES ASSUME NEW r \in built, NEW s \in built,
                         r.commit = s.commit, r.trust = s.trust
                  PROVE  r = s
      BY DEF Reproducible
    <3>1. r.file = s.file /\ r.version = s.version
      BY DEF PackInv, BuiltFromCommit
    <3>2. r \in Package /\ s \in Package
      BY DEF PackInv, PackagingTypeOK
    <3>. QED
      BY <3>1, <3>2 DEF Package
  <2>2. Genuine
    <3>1. Verified(workspace.file, workspace.generated, workspace.manifest)
            => workspace.manifest # NoPackage
      BY DEF Verified, NoPackage
    <3>2. \A p \in Packer : packer[p].step \in {"target", "write", "report"}
                              => packer[p].release \in Releases
      BY DEF PackInv, CommandKnown
    <3>. QED
      BY <3>1, <3>2 DEF PackInv, Genuine, Releases
  <2>. QED
    BY <2>1, <2>2 DEF PackInv, PackagesSafe
<1>. QED
  BY <1>1, PackInductive, PTL
=============================================================================

----------------------------- MODULE DeliveryProofs -----------------------------
(***************************************************************************)
(* Profiles keep their IDs apart and their credentials, and messages go    *)
(* where their references say, for any names, requests, manifests and      *)
(* number of concurrent updates.  What a number after an ID is good for is *)
(* the pigeonhole principle: a list of n profiles cannot take n + 1        *)
(* numbers.                                                                *)
(***************************************************************************)
EXTENDS Delivery, SequenceTheorems, FiniteSetTheorems, WellFoundedInduction, TLAPS

(* All strings; the provers do not know that the names of drivers are some. *)
Texts == STRING \cup Drivers

Profiles == [id : Texts, name : STRING, driver : Texts, enabled : BOOLEAN, config : Configs]

(* Every profile was added by a change of its own.                          *)
Listed == /\ profiles \in Seq(Profiles)
          /\ edits \in 0..MaxEdits
          /\ Len(profiles) <= edits

Pending == update \in [Handlers -> {None} \cup Profiles]

ListInv == Listed /\ Pending /\ IdsAreUnique

-------------------------------------------------------------------------------
(* IDs                                                                      *)

(* Trimming and slugs make strings of strings.                              *)
LEMMA StringsAreStrings ==
  ASSUME NEW t \in STRING
  PROVE  TrimOf(t) \in STRING /\ SlugOf(t) \in STRING
BY TextsAssumption DEF TrimOf, SlugOf

LEMMA BasesAreTexts == Bases \subseteq Texts
<1> SUFFICES ASSUME NEW n \in Names, NEW g \in GivenIds PROVE Base(n, g) \in Texts
  BY DEF Bases
<1> DEFINE chosen == OrElse(g, OrElse(SlugOf(TrimOf(n)), "telegram"))
<1>1. g \in STRING /\ SlugOf(TrimOf(n)) \in STRING
  <2>1. n \in STRING /\ g \in STRING
    BY TextsAssumption
  <2> QED
    BY <2>1, StringsAreStrings
<1>2. chosen \in STRING \/ chosen = "telegram"
  BY <1>1 DEF OrElse
<1>3. TrimOf(chosen) \in STRING \/ TrimOf(chosen) = "telegram"
  BY <1>2, TextsAssumption DEF TrimOf
<1>4. "telegram" \in Texts /\ STRING \subseteq Texts
  BY DEF Texts, Drivers
<1>5. Base(n, g) = TrimOf(chosen)
  BY DEF Base
<1> QED
  BY <1>3, <1>4, <1>5, Zenon

(* The IDs of a list are no more than its profiles.                         *)
LEMMA IdsAreFew ==
  ASSUME NEW list \in Seq(Profiles)
  PROVE  IsFiniteSet(IdsOf(list)) /\ Cardinality(IdsOf(list)) <= Len(list)
<1> DEFINE where == [id \in IdsOf(list) |-> Index(list, id)]
<1>1. \A id \in IdsOf(list) : where[id] \in 1..Len(list) /\ list[where[id]].id = id
  BY DEF IdsOf, Index
<1>2. where \in Injection(IdsOf(list), 1..Len(list))
  BY <1>1 DEF Injection, IsInjective
<1>3. IsFiniteSet(1..Len(list)) /\ Cardinality(1..Len(list)) = Len(list)
  <2>1. Len(list) \in Nat
    OBVIOUS
  <2> QED
    BY <2>1, FS_Interval, SMTT(30)
<1> QED
  <2> HIDE DEF where
  <2> QED BY <1>2, <1>3, FS_Injection

(* uniqueDeliveryProfileIDLocked finds an ID no profile of the list has.    *)
LEMMA UniqueIdIsNew ==
  ASSUME profiles \in Seq(Profiles), Len(profiles) <= MaxEdits, NEW base \in Bases
  PROVE  UniqueId(base) \in Texts /\ UniqueId(base) \notin IdsOf(profiles)
<1> DEFINE numbers == 2..(Len(profiles) + 2)
           Taken(i) == Numbered(base, i) \in IdsOf(profiles)
           Least(i) == ~Taken(i) /\ \A j \in 2..(i - 1) : Taken(j)
           free == {i \in numbers : ~Taken(i)}
           text == [i \in numbers |-> Numbered(base, i)]
<1>1. base \in Texts /\ STRING \subseteq Texts
  BY BasesAreTexts DEF Texts
<1>2. CASE base \notin IdsOf(profiles)
  BY <1>1, <1>2 DEF UniqueId
<1>3. CASE base \in IdsOf(profiles)
  <2>1. Len(profiles) \in Nat /\ numbers \subseteq 2..(MaxEdits + 2)
    BY BoundsAssumption
  <2>2. \A i, j \in numbers : Numbered(base, i) \in STRING
                              /\ (Numbered(base, i) = Numbered(base, j) => i = j)
    BY <2>1, NumberedAssumption
  <2>3. free # {}
    <3> SUFFICES ASSUME free = {} PROVE FALSE
      OBVIOUS
    <3>1. text \in [numbers -> IdsOf(profiles)]
      OBVIOUS
    <3>2. IsFiniteSet(numbers) /\ Cardinality(numbers) = Len(profiles) + 1
      BY <2>1, FS_Interval
    <3>3. /\ IsFiniteSet(IdsOf(profiles)) /\ Cardinality(IdsOf(profiles)) <= Len(profiles)
          /\ Cardinality(IdsOf(profiles)) \in Nat
      BY IdsAreFew, FS_CardinalityType
    <3>4. \E i, j \in numbers : i # j /\ text[i] = text[j]
      <4> HIDE DEF numbers, text
      <4> QED BY <3>1, <3>2, <3>3, <2>1, FS_PigeonHole
    <3> QED
      BY <3>4, <2>2
  <2>4. PICK n \in free : \A m \in free : n <= m
    <3>1. free \subseteq Nat
      BY <2>1
    <3>2. \E n \in free : \A m \in free : <<m, n>> \notin OpToRel(<, Nat)
      <4> HIDE DEF free
      <4> QED BY <2>3, <3>1, WFMin, NatLessThanWellFounded
    <3>3. \A m, n \in free : <<m, n>> \notin OpToRel(<, Nat) => n <= m
      BY <3>1 DEF OpToRel
    <3> QED
      BY <3>2, <3>3
  <2>5. n \in numbers /\ Least(n)
    BY <2>1, <2>4
  <2>6. \E i \in numbers : Least(i)
    BY <2>5
  <2>7. UniqueId(base) = Numbered(base, CHOOSE i \in numbers : Least(i))
    BY <1>3 DEF UniqueId
  <2>8. (CHOOSE i \in numbers : Least(i)) \in numbers /\ Least(CHOOSE i \in numbers : Least(i))
    <3> HIDE DEF numbers, Least
    <3> QED BY <2>6
  <2> QED
    BY <1>1, <2>2, <2>7, <2>8
<1> QED
  BY <1>2, <1>3

(* AddDeliveryProfile gives an ID no profile of the list has.               *)
LEMMA NewIdsAreNew ==
  ASSUME profiles \in Seq(Profiles), Len(profiles) <= MaxEdits, NEW base \in Bases,
         NEW id \in NewIds(base)
  PROVE  id \in Texts /\ id \notin IdsOf(profiles)
<1>1. CASE base = ""
  <2>1. id \in RandomIds \ IdsOf(profiles)
    BY <1>1 DEF NewIds
  <2> QED
    BY <2>1, TextsAssumption DEF Texts
<1>2. CASE base # ""
  <2>1. id = UniqueId(base)
    BY <1>2 DEF NewIds
  <2> QED
    BY <2>1, UniqueIdIsNew
<1> QED
  BY <1>1, <1>2

(* A profile that is asked for by its ID is found.                          *)
LEMMA IndexFinds ==
  ASSUME NEW list \in Seq(Profiles), NEW id \in IdsOf(list)
  PROVE  Index(list, id) \in 1..Len(list) /\ list[Index(list, id)].id = id
BY DEF IdsOf, Index

-------------------------------------------------------------------------------
(* Changes of a list                                                        *)

UniqueIds(list) == \A i, j \in DOMAIN list : list[i].id = list[j].id => i = j

(* No profile of the old list is incomplete in the new one only.            *)
KeepsCredentials(old, new) ==
  \A i \in DOMAIN old, j \in DOMAIN new :
    old[i].id = new[j].id /\ Complete(old[i].config) => Complete(new[j].config)

GoodChange(old, new, more) ==
  /\ new \in Seq(Profiles) /\ UniqueIds(new) /\ KeepsCredentials(old, new)
  /\ Len(new) <= Len(old) + more

(* A profile with a new ID is added.                                        *)
LEMMA Added ==
  ASSUME NEW list \in Seq(Profiles), UniqueIds(list),
         NEW p \in Profiles, p.id \notin IdsOf(list)
  PROVE  GoodChange(list, Append(list, p), 1)
<1> DEFINE new == Append(list, p)
<1>1. /\ new \in Seq(Profiles) /\ Len(new) = Len(list) + 1
      /\ \A i \in 1..Len(list) : new[i] = list[i]
      /\ new[Len(list) + 1] = p
  BY AppendProperties
<1> HIDE DEF new
<1>2. Len(list) \in Nat /\ DOMAIN list = 1..Len(list) /\ DOMAIN new = 1..(Len(list) + 1)
  BY <1>1
<1>3. \A i \in 1..Len(list) : list[i].id # p.id
  BY <1>2 DEF IdsOf
<1>4. \A i \in DOMAIN new : i \in 1..Len(list) \/ i = Len(list) + 1
  BY <1>2
<1>5. UniqueIds(new)
  BY <1>1, <1>2, <1>3, <1>4 DEF UniqueIds
<1>6. KeepsCredentials(list, new)
  <2> SUFFICES ASSUME NEW i \in DOMAIN list, NEW j \in DOMAIN new,
                      list[i].id = new[j].id, Complete(list[i].config)
               PROVE  Complete(new[j].config)
    BY DEF KeepsCredentials
  <2>1. j \in 1..Len(list)
    BY <1>1, <1>2, <1>3, <1>4
  <2> QED
    BY <1>1, <1>2, <2>1 DEF UniqueIds
<1> QED
  BY <1>1, <1>2, <1>5, <1>6 DEF GoodChange, new

(* A profile is removed.                                                    *)
LEMMA Removed ==
  ASSUME NEW list \in Seq(Profiles), UniqueIds(list), NEW k \in 1..Len(list)
  PROVE  GoodChange(list, RemoveAt(list, k), 0)
<1> DEFINE new == RemoveAt(list, k)
           before == SubSeq(list, 1, k - 1)
           after == SubSeq(list, k + 1, Len(list))
           old(i) == IF i < k THEN i ELSE i + 1
<1>1. Len(list) \in Nat /\ k \in Nat /\ k >= 1 /\ k <= Len(list) /\ DOMAIN list = 1..Len(list)
  OBVIOUS
<1>2. /\ before \in Seq(Profiles) /\ Len(before) = k - 1
      /\ \A i \in 1..(k - 1) : before[i] = list[i]
  BY <1>1
<1>3. /\ after \in Seq(Profiles) /\ Len(after) = Len(list) - k
      /\ \A i \in 1..(Len(list) - k) : after[i] = list[k + i]
  <2>1. \A i \in (k + 1)..Len(list) : list[i] \in Profiles
    BY <1>1
  <2>2. k + 1 \in Int /\ Len(list) \in Int
    BY <1>1
  <2>3. /\ after \in Seq(Profiles)
        /\ Len(after) = IF k + 1 <= Len(list) THEN Len(list) - (k + 1) + 1 ELSE 0
        /\ \A i \in 1..(Len(list) - (k + 1) + 1) : after[i] = list[(k + 1) + i - 1]
    BY <2>1, <2>2, SubSeqProperties
  <2> HIDE DEF after
  <2>4. \A i \in 1..(Len(list) - k) : i \in 1..(Len(list) - (k + 1) + 1) /\ (k + 1) + i - 1 = k + i
    BY <1>1
  <2>5. \A i \in 1..(Len(list) - k) : after[i] = list[k + i]
    <3> SUFFICES ASSUME NEW i \in 1..(Len(list) - k) PROVE after[i] = list[k + i]
      OBVIOUS
    <3>1. after[i] = list[(k + 1) + i - 1] /\ (k + 1) + i - 1 = k + i
      BY <2>3, <2>4
    <3> QED
      BY <3>1
  <2>6. Len(after) = Len(list) - k
    <3> DEFINE n == Len(list)
    <3>1. n \in Nat /\ k \in Nat /\ k <= n /\ Len(after) = IF k + 1 <= n THEN n - (k + 1) + 1 ELSE 0
      BY <1>1, <2>3
    <3> HIDE DEF n
    <3>2. Len(after) = n - k
      BY <3>1
    <3> QED
      BY <3>2 DEF n
  <2> QED
    BY <2>3, <2>5, <2>6
<1>4. new = before \o after
  BY DEF RemoveAt
<1> HIDE DEF new, before, after
<1>5. new \in Seq(Profiles) /\ Len(new) = Len(list) - 1 /\ DOMAIN new = 1..(Len(list) - 1)
  <2>1. /\ new \in Seq(Profiles) /\ Len(new) = Len(before) + Len(after)
    BY <1>2, <1>3, <1>4, ConcatProperties
  <2> QED
    BY <1>1, <1>2, <1>3, <2>1
<1>6. \A i \in DOMAIN new : old(i) \in DOMAIN list /\ new[i] = list[old(i)]
  <2> SUFFICES ASSUME NEW i \in DOMAIN new PROVE old(i) \in DOMAIN list /\ new[i] = list[old(i)]
    OBVIOUS
  <2>1. i \in Nat /\ 1 <= i /\ i <= Len(list) - 1
    BY <1>1, <1>5
  <2>2. new[i] = IF i <= Len(before) THEN before[i] ELSE after[i - Len(before)]
    <3>1. i \in 1..(Len(before) + Len(after))
      BY <1>1, <1>2, <1>3, <2>1
    <3> QED
      BY <1>2, <1>3, <1>4, <3>1, ConcatProperties
  <2>3. CASE i < k
    BY <1>1, <1>2, <2>1, <2>2, <2>3
  <2>4. CASE ~(i < k)
    <3>1. i - (k - 1) \in 1..(Len(list) - k) /\ k + (i - (k - 1)) = i + 1
      BY <1>1, <2>1, <2>4
    <3>2. new[i] = after[i - (k - 1)]
      BY <1>1, <1>2, <2>1, <2>2, <2>4
    <3> QED
      BY <1>1, <1>3, <2>1, <2>4, <3>1, <3>2, SMTT(30)
  <2> QED
    BY <2>3, <2>4
<1>7. \A i, j \in DOMAIN new : old(i) = old(j) => i = j
  BY <1>1, <1>5
<1> HIDE DEF old
<1>8. UniqueIds(new)
  BY <1>6, <1>7 DEF UniqueIds
<1>9. KeepsCredentials(list, new)
  BY <1>6 DEF UniqueIds, KeepsCredentials
<1> QED
  BY <1>1, <1>5, <1>8, <1>9 DEF GoodChange, new

(* A profile is replaced by one of the same ID and as complete.             *)
LEMMA Replaced ==
  ASSUME NEW list \in Seq(Profiles), UniqueIds(list), NEW k \in 1..Len(list),
         NEW p \in Profiles, p.id = list[k].id,
         Complete(list[k].config) => Complete(p.config)
  PROVE  GoodChange(list, [list EXCEPT ![k] = p], 0)
<1> DEFINE new == [list EXCEPT ![k] = p]
<1>1. /\ new \in Seq(Profiles) /\ Len(new) = Len(list) /\ DOMAIN new = DOMAIN list
      /\ \A i \in DOMAIN list : new[i] = IF i = k THEN p ELSE list[i]
      /\ Len(list) \in Nat
  OBVIOUS
<1> HIDE DEF new
<1>2. \A i \in DOMAIN list : new[i].id = list[i].id
  BY <1>1
<1>3. UniqueIds(new)
  BY <1>1, <1>2 DEF UniqueIds
<1>4. \A i \in DOMAIN list : Complete(list[i].config) => Complete(new[i].config)
  BY <1>1
<1>5. KeepsCredentials(list, new)
  BY <1>1, <1>2, <1>4 DEF UniqueIds, KeepsCredentials
<1> QED
  BY <1>1, <1>3, <1>5 DEF GoodChange, new

-------------------------------------------------------------------------------
(* The actions                                                              *)

(* What a change of the list has to show.                                   *)
LEMMA ChangeKeepsListInv ==
  ASSUME ListInv, Edit, GoodChange(profiles, profiles', 1), Pending'
  PROVE  ListInv' /\ KeepsCredentials(profiles, profiles')
<1>1. edits' \in 0..MaxEdits /\ edits' = edits + 1
  BY BoundsAssumption DEF Edit, ListInv, Listed
<1>2. Len(profiles') \in Nat /\ Len(profiles') <= Len(profiles) + 1
  BY DEF GoodChange
<1>3. Len(profiles') <= edits'
  BY <1>1, <1>2 DEF ListInv, Listed
<1> QED
  BY <1>1, <1>3 DEF ListInv, Listed, IdsAreUnique, UniqueIds, GoodChange

(* A change that adds nothing is one that adds one at most.                 *)
LEMMA NoMore ==
  ASSUME NEW old \in Seq(Profiles), NEW new, GoodChange(old, new, 0)
  PROVE  GoodChange(old, new, 1)
<1>1. Len(old) \in Nat /\ Len(new) \in Nat
  BY DEF GoodChange
<1> QED
  BY <1>1 DEF GoodChange

(* A request for a new profile                                              *)
LEMMA CreateStep ==
  ASSUME ListInv, NEW n \in Names, NEW g \in GivenIds, NEW c \in Changes,
         CreateProfile(n, g, c.enabled, c.config)
  PROVE  ListInv' /\ KeepsCredentials(profiles, profiles')
<1>0. PICK id \in NewIds(Base(n, g)) :
        profiles' = Append(profiles,
          [id |-> id, name |-> TrimOf(n), driver |-> "telegram", enabled |-> c.enabled,
           config |-> c.config])
  BY DEF CreateProfile
<1> DEFINE p == [id |-> id, name |-> TrimOf(n), driver |-> "telegram",
                 enabled |-> c.enabled, config |-> c.config]
<1>1. Base(n, g) \in Bases
  BY DEF Bases
<1>2. profiles \in Seq(Profiles) /\ Len(profiles) <= MaxEdits /\ UniqueIds(profiles)
  BY BoundsAssumption DEF ListInv, Listed, IdsAreUnique, UniqueIds
<1>3. id \in Texts /\ id \notin IdsOf(profiles)
  BY <1>0, <1>1, <1>2, NewIdsAreNew
<1>4. p \in Profiles /\ p.id = id
  <2>1. TrimOf(n) \in STRING
    BY TextsAssumption, StringsAreStrings
  <2>2. c \in [name : STRING, driver : STRING, enabled : BOOLEAN, config : Configs]
    BY BodiesAssumption
  <2>3. c.enabled \in BOOLEAN /\ c.config \in Configs
    BY <2>2
  <2>4. \A new \in Texts, name \in STRING, driver \in Texts, on \in BOOLEAN, config \in Configs :
          [id |-> new, name |-> name, driver |-> driver, enabled |-> on, config |-> config]
            \in Profiles
    BY DEF Profiles
  <2>5. "telegram" \in Texts
    BY DEF Texts, Drivers
  <2>6. p \in Profiles
    BY <1>3, <2>1, <2>3, <2>4, <2>5
  <2> QED
    BY <2>6
<1>5. profiles' = Append(profiles, p) /\ Edit /\ Pending'
  BY <1>0 DEF CreateProfile, ListInv, Pending
<1> HIDE DEF p
<1>6. GoodChange(profiles, profiles', 1)
  BY <1>2, <1>3, <1>4, <1>5, Added
<1> QED
  BY <1>5, <1>6, ChangeKeepsListInv

(* The import of a task with an inline profile                              *)
LEMMA ImportStep ==
  ASSUME ListInv, NEW x \in Inlines, ImportInline(x)
  PROVE  ListInv' /\ KeepsCredentials(profiles, profiles')
<1> DEFINE p == [id |-> x.id, name |-> OrElse(x.name, x.id), driver |-> x.driver,
                 enabled |-> TRUE, config |-> x.config]
<1>1. x \in [id : STRING, name : STRING, driver : STRING, config : Configs]
  BY BodiesAssumption
<1>2. p \in Profiles /\ p.id = x.id
  <2>1. x.id \in STRING /\ x.name \in STRING /\ x.driver \in STRING /\ x.config \in Configs
    BY <1>1
  <2>2. OrElse(x.name, x.id) \in STRING
    BY <2>1 DEF OrElse
  <2> QED
    BY <2>1, <2>2 DEF Profiles, Texts
<1>3. /\ profiles' = Append(profiles, p) /\ Edit /\ Pending'
      /\ x.id \notin IdsOf(profiles)
  BY DEF ImportInline, ListInv, Pending
<1> HIDE DEF p
<1>4. GoodChange(profiles, profiles', 1)
  BY <1>2, <1>3, Added DEF ListInv, Listed, IdsAreUnique, UniqueIds
<1> QED
  BY <1>3, <1>4, ChangeKeepsListInv

(* A request that removes a profile                                         *)
LEMMA RemoveStep ==
  ASSUME ListInv, NEW id \in IdsOf(profiles), RemoveProfile(id)
  PROVE  ListInv' /\ KeepsCredentials(profiles, profiles')
<1>1. profiles \in Seq(Profiles) /\ UniqueIds(profiles)
  BY DEF ListInv, Listed, IdsAreUnique, UniqueIds
<1>2. Index(profiles, id) \in 1..Len(profiles)
  BY <1>1, IndexFinds
<1>3. profiles' = RemoveAt(profiles, Index(profiles, id)) /\ Edit /\ Pending'
  BY DEF RemoveProfile, ListInv, Pending
<1>4. GoodChange(profiles, profiles', 1)
  BY <1>1, <1>2, <1>3, Removed, NoMore
<1> QED
  BY <1>3, <1>4, ChangeKeepsListInv

(* An update, whatever became of the profile since it was validated         *)
LEMMA ApplyStep ==
  ASSUME ListInv, NEW h \in Handlers, ApplyUpdate(h)
  PROVE  ListInv' /\ KeepsCredentials(profiles, profiles')
<1> DEFINE u == update[h]
           k == Index(profiles, u.id)
           p == profiles[k]
           q == [u EXCEPT !.name = OrElse(@, p.name), !.driver = OrElse(@, p.driver),
                          !.config = Merged(p.config, @)]
<1>1. profiles \in Seq(Profiles) /\ UniqueIds(profiles) /\ u \in Profiles
  BY DEF ListInv, Listed, Pending, IdsAreUnique, UniqueIds, ApplyUpdate
<1>2. k \in 1..Len(profiles) /\ p.id = u.id /\ p \in Profiles
  <2>1. u.id \in IdsOf(profiles)
    BY DEF ApplyUpdate
  <2> QED
    BY <1>1, <2>1, IndexFinds
<1>3. /\ profiles' = [profiles EXCEPT ![k] = q] /\ Edit
      /\ update' = [update EXCEPT ![h] = None]
  BY DEF ApplyUpdate
<1>4. Pending'
  BY <1>3 DEF ListInv, Pending
<1> HIDE DEF u, k, p
<1>5. Merged(p.config, u.config) \in Configs
      /\ (Complete(p.config) => Complete(Merged(p.config, u.config)))
  <2>1. p.config \in Configs /\ u.config \in Configs
    BY <1>1, <1>2 DEF Profiles
  <2>2. DOMAIN p.config = {"token", "chat"}
    BY <2>1 DEF Configs
  <2>3. Merged(p.config, u.config) =
          [f \in {"token", "chat"} |-> IF TrimOf(u.config[f]) = "" THEN p.config[f]
                                       ELSE u.config[f]]
    BY <2>2 DEF Merged
  <2>4. /\ p.config["token"] \in STRING /\ p.config["chat"] \in STRING
        /\ u.config["token"] \in STRING /\ u.config["chat"] \in STRING
    BY <2>1 DEF Configs
  <2>5. /\ Merged(p.config, u.config) \in [{"token", "chat"} -> STRING]
        /\ Complete(p.config) => Complete(Merged(p.config, u.config))
    BY <2>3, <2>4 DEF Complete
  <2>6. [{"token", "chat"} -> STRING] = Configs
    BY DEF Configs
  <2> QED
    BY <2>5, <2>6
<1>6. q \in Profiles /\ q.id = p.id /\ q.config = Merged(p.config, u.config)
  <2>1. OrElse(u.name, p.name) \in STRING /\ OrElse(u.driver, p.driver) \in Texts
    BY <1>1, <1>2 DEF OrElse, Profiles
  <2> QED
    BY <1>1, <1>2, <1>5, <2>1 DEF Profiles
<1>7. Complete(p.config) => Complete(q.config)
  BY <1>5, <1>6
<1> HIDE DEF q
<1>8. GoodChange(profiles, profiles', 0)
  BY <1>1, <1>2, <1>3, <1>6, <1>7, Replaced DEF p
<1> QED
  BY <1>1, <1>3, <1>4, <1>8, NoMore, ChangeKeepsListInv

(* Validation and deliveries leave the list alone.                          *)
LEMMA OtherSteps ==
  ASSUME ListInv, UNCHANGED <<profiles, edits>>, Pending'
  PROVE  ListInv' /\ KeepsCredentials(profiles, profiles')
<1>1. ListInv'
  BY DEF ListInv, Listed, IdsAreUnique
<1>2. KeepsCredentials(profiles, profiles)
  BY DEF KeepsCredentials, ListInv, IdsAreUnique
<1> QED
  BY <1>1, <1>2

(* What a handler is about to apply has the fields of a profile.            *)
LEMMA ReadStep ==
  ASSUME ListInv, NEW h \in Handlers, NEW u \in Updates, ReadAndValidate(h, u)
  PROVE  ListInv' /\ KeepsCredentials(profiles, profiles')
<1>1. PICK id \in IdsOf(profiles), c \in Changes :
        u = [id |-> id, name |-> c.name, driver |-> c.driver, enabled |-> c.enabled,
             config |-> c.config]
  BY DEF Updates
<1>2. id \in Texts
  <2>1. PICK i \in DOMAIN profiles : id = profiles[i].id
    BY DEF IdsOf
  <2>2. profiles[i] \in Profiles
    BY DEF ListInv, Listed
  <2> QED
    BY <2>1, <2>2 DEF Profiles
<1>3. c \in [name : STRING, driver : STRING, enabled : BOOLEAN, config : Configs]
  BY BodiesAssumption
<1>4. /\ c.name \in STRING /\ c.driver \in STRING /\ c.enabled \in BOOLEAN
      /\ c.config \in Configs
  BY <1>3
<1>5. u \in Profiles
  BY <1>1, <1>2, <1>4 DEF Profiles, Texts
<1>6. update' = [update EXCEPT ![h] = u] /\ UNCHANGED <<profiles, edits>>
  BY DEF ReadAndValidate
<1>7. Pending'
  BY <1>5, <1>6 DEF ListInv, Pending
<1> QED
  BY <1>6, <1>7, OtherSteps

-------------------------------------------------------------------------------
(* The theorems                                                             *)

LEMMA InitListInv == Init => ListInv
BY BoundsAssumption DEF Init, ListInv, Listed, Pending, IdsAreUnique

LEMMA NextListInv ==
  ListInv /\ [Next]_vars => ListInv' /\ KeepsCredentials(profiles, profiles')
<1> SUFFICES ASSUME ListInv, [Next]_vars PROVE ListInv' /\ KeepsCredentials(profiles, profiles')
  OBVIOUS
<1>1. CASE UNCHANGED vars
  <2>1. Pending' /\ UNCHANGED <<profiles, edits>>
    BY <1>1 DEF vars, ListInv, Pending
  <2> QED
    BY <2>1, OtherSteps
<1>2. CASE \E n \in Names, g \in GivenIds, c \in Changes :
             CreateProfile(n, g, c.enabled, c.config)
  BY <1>2, CreateStep
<1>3. CASE \E h \in Handlers :
             (\E u \in Updates : ReadAndValidate(h, u)) \/ ApplyUpdate(h) \/ UpdateFindsNothing(h)
  <2> PICK h \in Handlers :
        (\E u \in Updates : ReadAndValidate(h, u)) \/ ApplyUpdate(h) \/ UpdateFindsNothing(h)
    BY <1>3
  <2>1. CASE \E u \in Updates : ReadAndValidate(h, u)
    BY <2>1, ReadStep
  <2>2. CASE ApplyUpdate(h)
    BY <2>2, ApplyStep
  <2>3. CASE UpdateFindsNothing(h)
    <3>1. Pending' /\ UNCHANGED <<profiles, edits>>
      BY <2>3 DEF UpdateFindsNothing, ListInv, Pending
    <3> QED
      BY <3>1, OtherSteps
  <2> QED
    BY <2>1, <2>2, <2>3
<1>4. CASE \E id \in IdsOf(profiles) : RemoveProfile(id)
  BY <1>4, RemoveStep
<1>5. CASE \E x \in Inlines : ImportInline(x)
  BY <1>5, ImportStep
<1>6. CASE \E r \in Runs : \/ \E refs \in References, x \in Hindrances : StartDelivery(r, refs, x)
                          \/ DeliverNext(r)
  <2>1. UNCHANGED <<profiles, edits, update>>
    BY <1>6 DEF StartDelivery, DeliverNext
  <2>2. Pending'
    BY <2>1 DEF ListInv, Pending
  <2> QED
    BY <2>1, <2>2, OtherSteps
<1> QED
  BY <1>1, <1>2, <1>3, <1>4, <1>5, <1>6 DEF Next

(* The IDs of the profiles stay distinct whatever requests, removals and    *)
(* imports follow one another (uniqueDeliveryProfileIDLocked,               *)
(* mergeInlineProfiles).                                                    *)
THEOREM IdsAreUniqueTheorem == Spec => []IdsAreUnique
<1>1. ListInv => IdsAreUnique
  BY DEF ListInv
<1> QED
  BY <1>1, InitListInv, NextListInv, PTL DEF Spec

(* A stale validation does not cost a profile its token or its chat         *)
(* (UpdateDeliveryProfile, mergeDeliveryConfig).                            *)
THEOREM CompleteStaysCompleteTheorem == Spec => CompleteStaysComplete
<1>1. KeepsCredentials(profiles, profiles') =>
        \A i \in DOMAIN profiles, j \in DOMAIN profiles' :
          profiles[i].id = profiles'[j].id /\ Complete(profiles[i].config)
            => Complete(profiles'[j].config)
  BY DEF KeepsCredentials
<1> QED
  BY <1>1, InitListInv, NextListInv, PTL DEF Spec, CompleteStaysComplete

-------------------------------------------------------------------------------
(* The lookup.  A claim says that a profile answers to a text.              *)

ClaimsOf(p) == {<<a, p>> : a \in AliasesOf(p)}

(* The claims of the first n profiles.                                      *)
Claims(list, n) == UNION {ClaimsOf(list[i]) : i \in 1..n}

(* What a lookup knows of the claims it was told: an alias it has is that   *)
(* of one profile, one it takes for ambiguous was claimed by two, and any   *)
(* other by nobody.                                                         *)
OneClaimant(l, claims) ==
  \A a \in DOMAIN l.aliases : \A p : <<a, p>> \in claims <=> p = l.aliases[a]
TwoClaimants(l, claims) ==
  \A a \in l.ambiguous : \E p, q : <<a, p>> \in claims /\ <<a, q>> \in claims /\ p # q
AllClaims(l, claims) ==
  \A a, p : <<a, p>> \in claims => a \in DOMAIN l.aliases \/ a \in l.ambiguous

Knows(l, claims) ==
  /\ \A a \in DOMAIN l.aliases : a \notin l.ambiguous
  /\ OneClaimant(l, claims) /\ TwoClaimants(l, claims) /\ AllClaims(l, claims)

(* Nobody else who claims a text has the ID of the profile.                 *)
Apart(claims, p) == \A a, q : <<a, q>> \in claims /\ q.id = p.id => q = p

(* The claims with those of a profile to a text and its lower case; a blank *)
(* one is no alias.                                                         *)
TextsOf(text) == {TrimOf(text), LowerOf(TrimOf(text))} \ {""}
Claimed(claims, text, p) == claims \cup {<<a, p>> : a \in TextsOf(text)}

(* One text of a profile.                                                   *)
LEMMA AliasIsKnown ==
  ASSUME NEW l, NEW claims, Knows(l, claims), NEW text, NEW p, Apart(claims, p)
  PROVE  Knows(AddAlias(l, text, p), claims \cup {<<text, p>>})
<1> DEFINE new == AddAlias(l, text, p)
           more == claims \cup {<<text, p>>}
<1>0. \A a, q : <<a, q>> \in more <=> (<<a, q>> \in claims \/ (a = text /\ q = p))
  OBVIOUS
<1> SUFFICES Knows(new, more)
  OBVIOUS
<1> HIDE DEF more
<1>1. CASE text \in l.ambiguous
  <2>1. new = l
    BY <1>1 DEF AddAlias
  <2>2. TwoClaimants(l, more)
    BY <1>0 DEF Knows, TwoClaimants
  <2>3. OneClaimant(l, more) /\ AllClaims(l, more)
    BY <1>0, <1>1 DEF Knows, OneClaimant, AllClaims
  <2> HIDE DEF new
  <2> QED
    BY <2>1, <2>2, <2>3 DEF Knows
<1>2. CASE text \notin l.ambiguous /\ text \in DOMAIN l.aliases /\ l.aliases[text].id # p.id
  <2>1. new = [aliases   |-> [a \in DOMAIN l.aliases \ {text} |-> l.aliases[a]],
               ambiguous |-> l.ambiguous \cup {text}]
    BY <1>2 DEF AddAlias
  <2>2. /\ DOMAIN new.aliases = DOMAIN l.aliases \ {text}
        /\ new.ambiguous = l.ambiguous \cup {text}
        /\ \A a \in DOMAIN l.aliases \ {text} : new.aliases[a] = l.aliases[a]
    BY <2>1
  <2> HIDE DEF new
  <2>3. <<text, l.aliases[text]>> \in more /\ <<text, p>> \in more /\ l.aliases[text] # p
    BY <1>0, <1>2 DEF Knows, OneClaimant
  <2>4. TwoClaimants(new, more)
    <3>1. \A a \in l.ambiguous : \E x, q : <<a, x>> \in more /\ <<a, q>> \in more /\ x # q
      BY <1>0 DEF Knows, TwoClaimants
    <3> QED
      BY <2>2, <2>3, <3>1 DEF TwoClaimants
  <2>5. OneClaimant(new, more) /\ AllClaims(new, more)
    BY <1>0, <2>2 DEF Knows, OneClaimant, AllClaims
  <2> QED
    BY <2>2, <2>4, <2>5 DEF Knows
<1>3. CASE text \notin l.ambiguous /\ ~(text \in DOMAIN l.aliases /\ l.aliases[text].id # p.id)
  <2>1. new = [aliases   |-> [a \in DOMAIN l.aliases \cup {text} |->
                                IF a = text THEN p ELSE l.aliases[a]],
               ambiguous |-> l.ambiguous]
    BY <1>3 DEF AddAlias
  <2>2. /\ DOMAIN new.aliases = DOMAIN l.aliases \cup {text}
        /\ new.ambiguous = l.ambiguous
        /\ \A a \in DOMAIN l.aliases \cup {text} :
             new.aliases[a] = IF a = text THEN p ELSE l.aliases[a]
    BY <2>1
  <2>3. \A q : <<text, q>> \in claims => q = p
    <3>1. CASE text \in DOMAIN l.aliases
      <4>1. <<text, l.aliases[text]>> \in claims /\ l.aliases[text].id = p.id
        BY <1>3, <3>1 DEF Knows, OneClaimant
      <4> QED
        BY <3>1, <4>1 DEF Apart, Knows, OneClaimant
    <3>2. CASE text \notin DOMAIN l.aliases
      BY <1>3, <3>2 DEF Knows, AllClaims
    <3> QED
      BY <3>1, <3>2
  <2> HIDE DEF new
  <2>4. TwoClaimants(new, more)
    BY <1>0, <2>2 DEF Knows, TwoClaimants
  <2>5. OneClaimant(new, more) /\ AllClaims(new, more)
    BY <1>0, <2>2, <2>3 DEF Knows, OneClaimant, AllClaims
  <2> QED
    BY <1>3, <2>2, <2>4, <2>5 DEF Knows
<1> QED
  BY <1>1, <1>2, <1>3

(* Two claims of one profile more leave it apart.                           *)
LEMMA StillApart ==
  ASSUME NEW claims, NEW p, Apart(claims, p), NEW texts
  PROVE  Apart(claims \cup {<<a, p>> : a \in texts}, p)
BY DEF Apart

(* addAlias: the text of a profile and its lower case                       *)
LEMMA TextIsKnown ==
  ASSUME NEW l, NEW claims, Knows(l, claims), NEW text, NEW p, Apart(claims, p)
  PROVE  Knows(AddText(l, text, p), Claimed(claims, text, p)) /\ Apart(Claimed(claims, text, p), p)
<1> DEFINE alias == TrimOf(text)
           lower == LowerOf(alias)
           added == AddAlias(l, alias, p)
           cs1 == claims \cup {<<alias, p>>}
<1>0. Apart(Claimed(claims, text, p), p)
  BY StillApart DEF Claimed
<1>1. CASE alias = ""
  <2>1. TextsOf(text) = {}
    BY <1>1, TextsAssumption DEF TextsOf, LowerOf
  <2>2. Claimed(claims, text, p) = claims /\ AddText(l, text, p) = l
    BY <1>1, <2>1 DEF AddText, Claimed
  <2> QED
    BY <1>0, <2>2
<1>2. CASE alias # ""
  <2>1. Knows(added, cs1)
    BY AliasIsKnown
  <2>2. Apart(cs1, p)
    <3>1. cs1 = claims \cup {<<a, p>> : a \in {alias}}
      OBVIOUS
    <3> QED
      BY <3>1, StillApart
  <2>3. Claimed(claims, text, p) = cs1 \cup {<<lower, p>>}
    <3>1. lower # ""
      BY <1>2, TextsAssumption DEF LowerOf
    <3>2. TextsOf(text) = {alias, lower}
      BY <1>2, <3>1 DEF TextsOf
    <3> HIDE DEF lower, alias
    <3> QED
      BY <3>2 DEF Claimed
  <2>4. AddText(l, text, p) = IF lower = alias THEN added ELSE AddAlias(added, lower, p)
    BY <1>2 DEF AddText
  <2>5. CASE lower = alias
    <3>1. cs1 \cup {<<lower, p>>} = cs1
      BY <2>5
    <3> QED
      BY <1>0, <2>1, <2>3, <2>4, <2>5, <3>1
  <2>6. CASE lower # alias
    <3>1. AddText(l, text, p) = AddAlias(added, lower, p)
      BY <2>4, <2>6
    <3> HIDE DEF lower, added, cs1
    <3>2. Knows(AddAlias(added, lower, p), cs1 \cup {<<lower, p>>})
      BY <2>1, <2>2, AliasIsKnown
    <3> QED
      BY <1>0, <2>3, <3>1, <3>2
  <2> QED
    BY <2>5, <2>6
<1> QED
  BY <1>1, <1>2

(* All texts of a profile.                                                  *)
LEMMA ProfileIsKnown ==
  ASSUME NEW l, NEW claims, Knows(l, claims), NEW p, Apart(claims, p)
  PROVE  Knows(AddProfile(l, p), claims \cup ClaimsOf(p))
<1> DEFINE slug == SlugOf(p.name)
           named == AddText(l, p.name, p)
           cs1 == Claimed(claims, p.name, p)
           cs2 == Claimed(cs1, slug, p)
<1>1. Knows(named, cs1) /\ Apart(cs1, p)
  BY TextIsKnown
<1>2. Knows(AddText(named, slug, p), cs2)
  <2> HIDE DEF named, cs1, slug
  <2> QED
    BY <1>1, TextIsKnown
<1>3. cs2 = claims \cup ClaimsOf(p)
  <2>1. AliasesOf(p) = TextsOf(p.name) \cup TextsOf(slug)
    BY DEF AliasesOf, TextsOf
  <2> HIDE DEF slug
  <2> QED
    BY <2>1 DEF ClaimsOf, Claimed
<1>4. AddProfile(l, p) = AddText(named, slug, p)
  BY DEF AddProfile
<1> HIDE DEF cs2, named, slug
<1> QED
  BY <1>2, <1>3, <1>4

(* The least counterexample takes the place of induction.                   *)
LEMMA LeastElement ==
  ASSUME NEW S \in SUBSET Nat, S # {}
  PROVE  \E m \in S : \A k \in Nat : k < m => k \notin S
<1>1. \E m \in S : \A x \in S : <<x, m>> \notin OpToRel(<, Nat)
  BY WFMin, NatLessThanWellFounded
<1>2. \A m, k \in S : k < m => <<k, m>> \in OpToRel(<, Nat)
  BY DEF OpToRel
<1> QED
  BY <1>1, <1>2

(* MapThenFoldSet's recursion, as FoldLeft uses it for AddProfile.          *)
Folded(list, n, g) ==
  g = [S \in SUBSET (1..n) |->
         IF S = {} THEN Lookup0 ELSE AddProfile(g[S \ {Max(S)}], list[Max(S)])]

LEMMA MaxOfPrefix ==
  ASSUME NEW n \in Nat, NEW S \in SUBSET (1..(n + 1)), n + 1 \in S
  PROVE  Max(S) = n + 1
<1>1. \A y \in S : y \in Int /\ n + 1 >= y
  OBVIOUS
<1>2. \E x \in S : \A y \in S : x >= y
  BY <1>1
<1>3. Max(S) \in S /\ \A y \in S : Max(S) >= y
  <2> DEFINE P(x) == x \in S /\ \A y \in S : x >= y
  <2>1. \E x : P(x)
    BY <1>2
  <2>2. P(CHOOSE x : P(x))
    BY <2>1
  <2>3. Max(S) = CHOOSE x \in S : \A y \in S : x >= y
    BY DEF Max
  <2> QED
    BY <1>2, <2>3
<1>4. Max(S) \in Int /\ n + 1 >= Max(S) /\ Max(S) >= n + 1
  BY <1>1, <1>3
<1> QED
  BY <1>4

LEMMA FoldExists == ASSUME NEW list, NEW n \in Nat PROVE \E g : Folded(list, n, g)
<1> DEFINE Bad == {k \in Nat : ~\E g : Folded(list, k, g)}
<1> SUFFICES ASSUME Bad # {} PROVE FALSE
  OBVIOUS
<1>1. PICK m \in Bad : \A k \in Nat : k < m => k \notin Bad
  BY LeastElement
<1>2. m # 0
  <2> DEFINE g == [S \in SUBSET (1..0) |-> Lookup0]
  <2>1. Folded(list, 0, g)
    BY DEF Folded
  <2> QED
    BY <2>1
<1>3. PICK n1 \in Nat : m = n1 + 1
  BY <1>2
<1>4. PICK g : Folded(list, n1, g)
  BY <1>1, <1>3
<1> DEFINE h == [S \in SUBSET (1..(n1 + 1)) |->
                   IF n1 + 1 \in S THEN AddProfile(g[S \ {n1 + 1}], list[n1 + 1]) ELSE g[S]]
<1>5. ASSUME NEW S \in SUBSET (1..(n1 + 1))
      PROVE  h[S] = IF S = {} THEN Lookup0 ELSE AddProfile(h[S \ {Max(S)}], list[Max(S)])
  <2>1. CASE n1 + 1 \in S
    <3>1. /\ Max(S) = n1 + 1 /\ S # {}
          /\ S \ {n1 + 1} \in SUBSET (1..n1) /\ n1 + 1 \notin S \ {n1 + 1}
      BY <2>1, MaxOfPrefix
    <3>2. h[S \ {n1 + 1}] = g[S \ {n1 + 1}]
      BY <3>1
    <3> QED
      BY <2>1, <3>1, <3>2
  <2>2. CASE n1 + 1 \notin S
    <3>1. S \in SUBSET (1..n1) /\ S \ {Max(S)} \in SUBSET (1..n1) /\ h[S] = g[S]
      BY <2>2
    <3>2. h[S \ {Max(S)}] = g[S \ {Max(S)}]
      BY <3>1
    <3>3. g[S] = IF S = {} THEN Lookup0 ELSE AddProfile(g[S \ {Max(S)}], list[Max(S)])
      BY <1>4, <3>1 DEF Folded
    <3> QED
      BY <3>1, <3>2, <3>3
  <2> QED
    BY <2>1, <2>2
<1>6. Folded(list, n1 + 1, h)
  <2> HIDE DEF h
  <2>1. h = [S \in SUBSET (1..(n1 + 1)) |-> h[S]]
    BY DEF h
  <2> QED
    BY <1>5, <2>1 DEF Folded
<1> QED
  BY <1>3, <1>6

(* The whole list.                                                          *)
LEMMA ListIsKnown ==
  ASSUME NEW list \in Seq(Profiles), UniqueIds(list)
  PROVE  Knows(NewLookup(list), Claims(list, Len(list)))
<1> DEFINE n == Len(list)
<1>1. n \in Nat /\ DOMAIN list = 1..n
  OBVIOUS
<1>2. PICK g : g = CHOOSE f : Folded(list, n, f)
  OBVIOUS
<1>3. Folded(list, n, g)
  BY <1>1, <1>2, FoldExists
<1>4. NewLookup(list) = g[1..n]
  <2>1. NewLookup(list) = (CHOOSE f : Folded(list, n, f))[1..n]
    BY <1>1 DEF NewLookup, FoldLeft, MapThenFoldSet, Folded
  <2> QED
    BY <1>2, <2>1
<1> HIDE DEF n
<1>5. \A S \in SUBSET (1..n) :
        g[S] = IF S = {} THEN Lookup0 ELSE AddProfile(g[S \ {Max(S)}], list[Max(S)])
  BY <1>3 DEF Folded
<1> DEFINE Bad == {k \in 0..n : ~Knows(g[1..k], Claims(list, k))}
<1>6. CASE Bad # {}
  <2>1. PICK k \in Bad : \A j \in Nat : j < k => j \notin Bad
    <3>1. Bad \in SUBSET Nat
      BY <1>1
    <3> HIDE DEF Bad
    <3> QED
      BY <1>6, <3>1, LeastElement
  <2>2. k \in 0..n /\ ~Knows(g[1..k], Claims(list, k))
    OBVIOUS
  <2>3. k # 0
    <3>1. 1..0 = {} /\ {} \in SUBSET (1..n)
      OBVIOUS
    <3>2. g[{}] = Lookup0
      BY <1>5, <3>1
    <3>3. Claims(list, 0) = {}
      BY <3>1 DEF Claims
    <3>4. Lookup0.ambiguous = {} /\ DOMAIN Lookup0.aliases = {}
      BY DEF Lookup0
    <3>5. Knows(Lookup0, {})
      BY <3>4 DEF Knows, OneClaimant, TwoClaimants, AllClaims
    <3> QED
      BY <2>2, <3>1, <3>2, <3>3, <3>5
  <2>4. PICK j \in Nat : k = j + 1 /\ j \in 0..n /\ j + 1 \in 1..n
    <3>1. k - 1 \in Nat /\ k = (k - 1) + 1 /\ k - 1 \in 0..n /\ (k - 1) + 1 \in 1..n
      BY <1>1, <2>2, <2>3
    <3> QED
      BY <3>1
  <2>5. Knows(g[1..j], Claims(list, j))
    BY <2>1, <2>4
  <2>6. 1..(j + 1) \in SUBSET (1..n) /\ 1..(j + 1) # {} /\ (1..(j + 1)) \ {j + 1} = 1..j
    <3>1. j + 1 \in 1..(j + 1)
      BY <2>4
    <3>2. \A i \in 1..(j + 1) : i \in 1..n
      BY <1>1, <2>4
    <3>3. \A i : i \in 1..(j + 1) /\ i # j + 1 <=> i \in 1..j
      BY <2>4
    <3> QED
      BY <3>1, <3>2, <3>3
  <2>7. Max(1..(j + 1)) = j + 1
    <3>1. 1..(j + 1) \in SUBSET (1..(j + 1)) /\ j + 1 \in 1..(j + 1)
      BY <2>4
    <3> QED
      BY <3>1, MaxOfPrefix
  <2>8. g[1..(j + 1)] = AddProfile(g[1..j], list[j + 1])
    BY <1>5, <2>6, <2>7
  <2>9. Apart(Claims(list, j), list[j + 1])
    <3>1. \A i \in 1..j : i \in 1..n /\ i # j + 1
      BY <1>1, <2>4
    <3>2. \A i \in 1..j : list[i].id # list[j + 1].id
      BY <1>1, <2>4, <3>1 DEF UniqueIds, n
    <3>3. \A a, q : <<a, q>> \in Claims(list, j) => \E i \in 1..j : q = list[i]
      BY DEF Claims, ClaimsOf
    <3> QED
      BY <3>2, <3>3 DEF Apart
  <2>10. Claims(list, j + 1) = Claims(list, j) \cup ClaimsOf(list[j + 1])
    <3>1. 1..(j + 1) = (1..j) \cup {j + 1}
      BY <2>4
    <3> QED
      BY <3>1 DEF Claims
  <2>11. Knows(g[1..(j + 1)], Claims(list, j + 1))
    BY <2>5, <2>8, <2>9, <2>10, ProfileIsKnown
  <2> QED
    BY <2>2, <2>4, <2>11
<1>7. CASE Bad = {}
  <2>1. n \in 0..n
    BY <1>1
  <2>2. Knows(g[1..n], Claims(list, n))
    BY <1>7, <2>1
  <2> QED
    BY <1>4, <2>2 DEF n
<1> QED
  BY <1>6, <1>7

LEMMA MeantIsFinite ==
  ASSUME NEW list \in Seq(Profiles), NEW ref
  PROVE  IsFiniteSet(Meant(list, ref))
<1> DEFINE listed == {list[i] : i \in DOMAIN list}
           f == [i \in 1..Len(list) |-> list[i]]
<1>1. DOMAIN list = 1..Len(list) /\ Len(list) \in Nat
  OBVIOUS
<1>2. IsFiniteSet(1..Len(list))
  BY <1>1, FS_Interval
<1>3. f \in Surjection(1..Len(list), listed)
  BY <1>1 DEF Surjection
<1>4. Meant(list, ref) \in SUBSET listed
  BY DEF Meant, PlacesOf
<1> HIDE DEF f, listed
<1> QED
  BY <1>2, <1>3, <1>4, FS_Surjection, FS_Subset

(* Of places in a list there is a last one.                                 *)
LEMMA LastPlace ==
  ASSUME NEW n \in Nat, NEW S \in SUBSET (1..n), S # {}
  PROVE  Max(S) \in S
<1> DEFINE fromEnd == {k \in Nat : n - k \in S}
<1>1. \A y \in S : y \in Int /\ 1 <= y /\ y <= n
  OBVIOUS
<1>2. fromEnd \in SUBSET Nat /\ fromEnd # {}
  <2>1. PICK y \in S : TRUE
    OBVIOUS
  <2>2. n - y \in Nat /\ n - (n - y) = y
    BY <1>1
  <2> QED
    BY <2>1, <2>2
<1>3. PICK m \in fromEnd : \A k \in Nat : k < m => k \notin fromEnd
  <2> HIDE DEF fromEnd
  <2> QED BY <1>2, LeastElement
<1>4. \A y \in S : n - m >= y
  <2> SUFFICES ASSUME NEW y \in S, ~(n - m >= y) PROVE FALSE
    OBVIOUS
  <2>1. n - y \in Nat /\ n - y < m /\ n - (n - y) = y
    BY <1>1
  <2>2. n - y \in fromEnd
    BY <2>1
  <2> QED
    BY <1>3, <2>1, <2>2
<1>5. n - m \in S
  OBVIOUS
<1> DEFINE P(x) == x \in S /\ \A y \in S : x >= y
<1>6. \E x : P(x)
  BY <1>4, <1>5
<1>7. P(CHOOSE x : P(x))
  BY <1>6
<1>8. Max(S) = CHOOSE x \in S : \A y \in S : x >= y
  BY DEF Max
<1> QED
  BY <1>7, <1>8

(* The places of an ID are places of the list.                              *)
LEMMA PlacesAreLast ==
  ASSUME NEW list \in Seq(Profiles), NEW t, PlacesOf(list, t) # {}
  PROVE  Max(PlacesOf(list, t)) \in PlacesOf(list, t)
<1>1. Len(list) \in Nat /\ PlacesOf(list, t) \in SUBSET (1..Len(list))
  BY DEF PlacesOf
<1> QED
  BY <1>1, LastPlace

(* A profile that a reference means, and it alone, is found, and so is one  *)
(* of those it means by their ID.                                           *)
LEMMA MeantIsFound ==
  ASSUME NEW list \in Seq(Profiles), UniqueIds(list), NEW ref, NEW p
  PROVE  TrimOf(ref) # "" /\ (PlacesOf(list, TrimOf(ref)) # {} \/ Meant(list, ref) = {p})
           => Get(list, ref) # {}
<1> DEFINE l == NewLookup(list)
           listed == {list[i] : i \in DOMAIN list}
           t == TrimOf(ref)
<1>1. DOMAIN list = 1..Len(list)
  OBVIOUS
<1>2. \A a, q : <<a, q>> \in Claims(list, Len(list)) <=> (q \in listed /\ a \in AliasesOf(q))
  BY <1>1 DEF Claims, ClaimsOf
<1>3. Knows(l, Claims(list, Len(list)))
  BY ListIsKnown
<1>4. CASE PlacesOf(list, t) # {}
  BY <1>4 DEF Get
<1>5. CASE PlacesOf(list, t) = {} /\ Meant(list, ref) = {p}
  <2>1. \A q : (q \in listed /\ t \in AliasesOf(q)) <=> q = p
    BY <1>5 DEF Meant
  <2> HIDE DEF l, listed, t
  <2>2. t \in DOMAIN l.aliases
    <3> DEFINE claims == Claims(list, Len(list))
    <3>1. \A q : <<t, q>> \in claims <=> q = p
      BY <1>2, <2>1
    <3>2. Knows(l, claims)
      BY <1>3
    <3> HIDE DEF claims
    <3>3. t \in DOMAIN l.aliases \/ t \in l.ambiguous
      BY <3>1, <3>2 DEF Knows, AllClaims
    <3>4. t \notin l.ambiguous
      <4> SUFFICES ASSUME t \in l.ambiguous PROVE FALSE
        OBVIOUS
      <4>1. PICK x, y : <<t, x>> \in claims /\ <<t, y>> \in claims /\ x # y
        BY <3>2 DEF Knows, TwoClaimants
      <4> QED
        BY <3>1, <4>1
    <3> QED
      BY <3>3, <3>4
  <2> QED
    BY <1>5, <2>2 DEF Get, l, t
<1> QED
  BY <1>4, <1>5

(* What the lookup finds is what the reference means, and the only one that *)
(* it means unless others have the ID but for blanks.                       *)
FoundRight(list, ref, p) ==
  LET t == TrimOf(ref)
      meant == Meant(list, ref) IN
  /\ p \in meant
  /\ \A q \in meant : q = p \/ TrimOf(q.id) = t
  /\ PlacesOf(list, t) = {} => meant = {p}
  /\ Tidy(p) => UsedBy(p, ref)
  /\ t # ""

(* What a tidy profile is found by makes the task count as its user.        *)
LEMMA TidyIsUsed ==
  ASSUME NEW p, Tidy(p), NEW ref, TrimOf(ref) # "",
         TrimOf(p.id) = TrimOf(ref) \/ TrimOf(ref) \in AliasesOf(p)
  PROVE  UsedBy(p, ref)
<1> DEFINE t == TrimOf(ref)
           slug == SlugOf(p.name)
<1>1. TrimOf(p.id) = p.id /\ TrimOf(p.name) = p.name
  BY DEF Tidy
<1>2. LowerOf(LowerOf(p.name)) = LowerOf(p.name)
  BY TextsAssumption DEF LowerOf
<1>3. TrimOf(slug) = slug /\ LowerOf(slug) \in {slug, LowerOf(p.name)}
  <2>1. CASE p.name \in DOMAIN Slug
    BY <2>1, TextsAssumption DEF SlugOf
  <2>2. CASE p.name \notin DOMAIN Slug
    BY <1>1, <2>2 DEF SlugOf
  <2> QED
    BY <2>1, <2>2
<1>4. AliasesOf(p) \subseteq {p.name, LowerOf(p.name), slug}
  <2>1. AliasesOf(p) \subseteq {TrimOf(p.name), LowerOf(TrimOf(p.name)),
                             TrimOf(slug), LowerOf(TrimOf(slug))}
    BY DEF AliasesOf
  <2> QED
    BY <1>1, <1>3, <2>1
<1>5. t = p.id \/ t \in {p.name, LowerOf(p.name), slug}
  BY <1>1, <1>4
<1> HIDE DEF t, slug
<1> QED
  BY <1>2, <1>5 DEF UsedBy, t, slug

LEMMA FoundAsMeant ==
  ASSUME NEW list \in Seq(Profiles), UniqueIds(list), NEW ref, NEW p, p \in Get(list, ref)
  PROVE  Get(list, ref) = {p} /\ p \in Profiles /\ FoundRight(list, ref, p)
<1> DEFINE l == NewLookup(list)
           listed == {list[i] : i \in DOMAIN list}
           t == TrimOf(ref)
           places == PlacesOf(list, t)
<1>1. DOMAIN list = 1..Len(list)
  OBVIOUS
<1>2. \A a, q : <<a, q>> \in Claims(list, Len(list)) <=> (q \in listed /\ a \in AliasesOf(q))
  BY <1>1 DEF Claims, ClaimsOf
<1>3. Knows(l, Claims(list, Len(list)))
  BY ListIsKnown
<1>4. listed \subseteq Profiles
  OBVIOUS
<1>0. t # ""
  BY DEF Get
<1>5. CASE places # {}
  <2>1. Get(list, ref) = {list[Max(places)]}
    BY <1>0, <1>5 DEF Get
  <2>2. Max(places) \in places
    BY <1>5, PlacesAreLast
  <2>3. Max(places) \in DOMAIN list /\ TrimOf(list[Max(places)].id) = t
    BY <2>2 DEF PlacesOf
  <2>4. Meant(list, ref) = {list[i] : i \in places}
    BY <1>5 DEF Meant
  <2>5. p = list[Max(places)]
    BY <2>1
  <2>6. \A i \in places : TrimOf(list[i].id) = t
    BY DEF PlacesOf
  <2>7. Get(list, ref) = {p} /\ p \in listed /\ TrimOf(p.id) = t
    BY <2>1, <2>3, <2>5
  <2>8. p \in Meant(list, ref) /\ \A q \in Meant(list, ref) : TrimOf(q.id) = t
    BY <2>2, <2>4, <2>5, <2>6
  <2>9. Tidy(p) => UsedBy(p, ref)
    BY <1>0, <2>7, TidyIsUsed
  <2> HIDE DEF listed
  <2> QED
    BY <1>0, <1>4, <1>5, <2>7, <2>8, <2>9 DEF FoundRight
<1>6. CASE places = {}
  <2> HIDE DEF l
  <2>1. t \in DOMAIN l.aliases /\ Get(list, ref) = {l.aliases[t]} /\ p = l.aliases[t]
    BY <1>0, <1>6 DEF Get, l
  <2>2. \A q : q = p <=> (q \in listed /\ t \in AliasesOf(q))
    BY <1>2, <1>3, <2>1 DEF Knows, OneClaimant, TwoClaimants, AllClaims
  <2>3. Meant(list, ref) = {q \in listed : t \in AliasesOf(q)}
    BY <1>6 DEF Meant
  <2>4. Meant(list, ref) = {p} /\ p \in listed
    BY <2>2, <2>3
  <2>5. Tidy(p) => UsedBy(p, ref)
    BY <1>0, <2>2, TidyIsUsed
  <2> HIDE DEF listed
  <2> QED
    BY <1>0, <1>4, <2>1, <2>4, <2>5 DEF FoundRight
<1> QED
  BY <1>5, <1>6

-------------------------------------------------------------------------------
(* The deliveries                                                           *)

Statuses == {"success", "failed", "skipped"}
Errors == Hindrances \cup {"profile not found", "profile disabled", "unknown driver", "driver"}
Results == [ref : STRING, id : Texts, status : Statuses, error : Errors]

(* The part of SentAsMeant about one reference.                             *)
RightResult(list, ref, res) ==
  LET t == TrimOf(ref)
      meant == Meant(list, ref) IN
  /\ res.status = "success" =>
       \E p \in meant : /\ res.id = p.id
                        /\ \A q \in meant : q = p \/ TrimOf(q.id) = t
                        /\ p.enabled /\ Present(p.config)
                        /\ Tidy(p) => UsedBy(p, ref)
  /\ res.status # "skipped" =>
       (res.error = "profile not found" <=>
          t = "" \/ (PlacesOf(list, t) = {} /\ Cardinality(meant) # 1))

(* The copy a run delivers with never changes and has one profile for an ID.*)
RightDelivery(d) ==
  /\ d \in [pc : {"idle", "sending", "done"}, refs : Seq(STRING), copy : Seq(Profiles),
            results : Seq(Results)]
  /\ UniqueIds(d.copy)
  /\ d.pc = "sending" => Len(d.results) < Len(d.refs)
  /\ \A i \in DOMAIN d.results : RightResult(d.copy, d.refs[i], d.results[i])

DeliveryInv == /\ deliveries = [r \in Runs |-> deliveries[r]]
               /\ \A r \in Runs : RightDelivery(deliveries[r])

LEMMA InitDeliveryInv == Init => DeliveryInv
<1> SUFFICES ASSUME Init PROVE DeliveryInv
  OBVIOUS
<1>1. deliveries = [r \in Runs |-> NotStarted]
  BY DEF Init
<1>2. RightDelivery(NotStarted)
  <2>1. /\ <<>> \in Seq(STRING) /\ <<>> \in Seq(Profiles) /\ <<>> \in Seq(Results)
        /\ DOMAIN <<>> = {}
    OBVIOUS
  <2>2. /\ NotStarted.pc = "idle" /\ NotStarted.copy = <<>> /\ NotStarted.results = <<>>
        /\ NotStarted \in [pc : {"idle", "sending", "done"}, refs : Seq(STRING),
                           copy : Seq(Profiles), results : Seq(Results)]
    BY <2>1 DEF NotStarted
  <2>3. UniqueIds(<<>>)
    BY <2>1 DEF UniqueIds
  <2> QED
    BY <2>1, <2>2, <2>3 DEF RightDelivery
<1> HIDE DEF NotStarted
<1> QED
  BY <1>1, <1>2 DEF DeliveryInv

(* A run delivers with the list of that moment.                             *)
LEMMA StartStep ==
  ASSUME ListInv, DeliveryInv, NEW r \in Runs, NEW refs \in References, NEW x \in Hindrances,
         StartDelivery(r, refs, x)
  PROVE  DeliveryInv'
<1> DEFINE skipped == Skipped(profiles, refs, x)
           d == IF x # "none"
                THEN [pc |-> "done", refs |-> refs, copy |-> profiles, results |-> skipped]
                ELSE [pc |-> "sending", refs |-> refs, copy |-> profiles, results |-> <<>>]
<1>1. deliveries' = [deliveries EXCEPT ![r] = d]
  BY DEF StartDelivery
<1>2. /\ refs \in Seq(STRING) /\ Len(refs) \in Nat /\ 0 < Len(refs)
      /\ DOMAIN refs = 1..Len(refs)
  <2>1. refs \in Seq(STRING) /\ refs # <<>>
    BY ReferencesAssumption
  <2> QED
    BY <2>1
<1>3. profiles \in Seq(Profiles) /\ UniqueIds(profiles)
  BY DEF ListInv, Listed, IdsAreUnique, UniqueIds
<1>4. /\ skipped \in Seq(Results)
      /\ \A i \in DOMAIN skipped : skipped[i].status = "skipped"
  <2> DEFINE id(i) == IF Get(profiles, refs[i]) = {} THEN refs[i]
                      ELSE (CHOOSE p \in Get(profiles, refs[i]) : TRUE).id
  <2>1. ASSUME NEW i \in 1..Len(refs) PROVE id(i) \in Texts
    <3>1. CASE Get(profiles, refs[i]) = {}
      BY <1>2, <3>1 DEF Texts
    <3>2. CASE Get(profiles, refs[i]) # {}
      <4>1. PICK p : p = CHOOSE q \in Get(profiles, refs[i]) : TRUE
        OBVIOUS
      <4>2. p \in Get(profiles, refs[i])
        BY <3>2, <4>1
      <4>3. p \in Profiles
        BY <1>3, <4>2, FoundAsMeant
      <4> QED
        BY <3>2, <4>1, <4>3 DEF Profiles
    <3> QED
      BY <3>1, <3>2
  <2> HIDE DEF id
  <2>2. "skipped" \in Statuses /\ x \in Errors
    BY DEF Statuses, Errors
  <2>3. \A i \in 1..Len(refs) :
          [ref |-> refs[i], id |-> id(i), status |-> "skipped", error |-> x] \in Results
    BY <1>2, <2>1, <2>2 DEF Results
  <2>4. skipped = [i \in 1..Len(refs) |->
                     [ref |-> refs[i], id |-> id(i), status |-> "skipped", error |-> x]]
    BY <1>2 DEF Skipped, Result, id
  <2> HIDE DEF skipped
  <2> QED
    BY <1>2, <2>3, <2>4
<1> HIDE DEF skipped
<1>5. RightDelivery(d)
  <2>1. /\ <<>> \in Seq(Results) /\ Len(<<>>) = 0 /\ DOMAIN <<>> = {}
    OBVIOUS
  <2>2. CASE x # "none"
    <3>1. d = [pc |-> "done", refs |-> refs, copy |-> profiles, results |-> skipped]
      BY <2>2
    <3>2. \A i \in DOMAIN skipped : RightResult(profiles, refs[i], skipped[i])
      BY <1>4 DEF RightResult
    <3> HIDE DEF d
    <3> QED
      BY <1>2, <1>3, <1>4, <3>1, <3>2 DEF RightDelivery
  <2>3. CASE x = "none"
    <3>1. d = [pc |-> "sending", refs |-> refs, copy |-> profiles, results |-> <<>>]
      BY <2>3
    <3> HIDE DEF d
    <3> QED
      BY <1>2, <1>3, <2>1, <3>1 DEF RightDelivery
  <2> QED
    BY <2>2, <2>3
<1> HIDE DEF d
<1> QED
  BY <1>1, <1>5 DEF DeliveryInv

(* One more result.                                                         *)
LEMMA ResultKeeps ==
  ASSUME NEW d, RightDelivery(d), d.pc = "sending", NEW res \in Results,
         RightResult(d.copy, d.refs[Len(d.results) + 1], res)
  PROVE  RightDelivery(WithResult(d, res))
<1> DEFINE new == Append(d.results, res)
           place == IF Len(d.results) + 1 = Len(d.refs) THEN "done" ELSE "sending"
<1>1. /\ d.results \in Seq(Results) /\ d.refs \in Seq(STRING)
      /\ Len(d.results) \in Nat /\ Len(d.refs) \in Nat /\ Len(d.results) < Len(d.refs)
  BY DEF RightDelivery
<1>2. WithResult(d, res) = [d EXCEPT !.results = new, !.pc = place]
  BY DEF WithResult
<1>3. /\ new \in Seq(Results) /\ Len(new) = Len(d.results) + 1
      /\ DOMAIN new = 1..(Len(d.results) + 1) /\ DOMAIN d.results = 1..Len(d.results)
      /\ \A i \in 1..Len(d.results) : new[i] = d.results[i]
      /\ new[Len(d.results) + 1] = res
  BY <1>1
<1>4. place = "sending" => Len(new) < Len(d.refs)
  BY <1>1, <1>3
<1>5. place \in {"sending", "done"}
  OBVIOUS
<1> HIDE DEF new, place
<1>6. \A i \in DOMAIN new : RightResult(d.copy, d.refs[i], new[i])
  <2>1. \A i \in DOMAIN new : i \in DOMAIN d.results \/ i = Len(d.results) + 1
    BY <1>1, <1>3
  <2>2. \A i \in DOMAIN d.results : RightResult(d.copy, d.refs[i], d.results[i])
    BY DEF RightDelivery
  <2> QED
    BY <1>3, <2>1, <2>2
<1>7. /\ WithResult(d, res) \in [pc : {"idle", "sending", "done"}, refs : Seq(STRING),
                                 copy : Seq(Profiles), results : Seq(Results)]
      /\ WithResult(d, res).pc = place /\ WithResult(d, res).refs = d.refs
      /\ WithResult(d, res).copy = d.copy /\ WithResult(d, res).results = new
  BY <1>2, <1>3, <1>5 DEF RightDelivery
<1> QED
  BY <1>4, <1>6, <1>7 DEF RightDelivery

(* The loop of Deliver                                                      *)
LEMMA DeliverStep ==
  ASSUME DeliveryInv, NEW r \in Runs, DeliverNext(r)
  PROVE  DeliveryInv'
<1> DEFINE d == deliveries[r]
           ref == d.refs[Len(d.results) + 1]
           found == Get(d.copy, ref)
           p == CHOOSE p \in found : TRUE
<1>1. RightDelivery(d) /\ d.pc = "sending"
  BY DEF DeliveryInv, DeliverNext
<1>2. ref \in STRING /\ d.copy \in Seq(Profiles) /\ UniqueIds(d.copy)
  <2>1. /\ d.results \in Seq(Results) /\ d.refs \in Seq(STRING)
        /\ Len(d.results) \in Nat /\ Len(d.refs) \in Nat /\ Len(d.results) < Len(d.refs)
    BY <1>1 DEF RightDelivery
  <2>2. Len(d.results) + 1 \in 1..Len(d.refs)
    BY <2>1
  <2> QED
    BY <1>1, <2>1, <2>2 DEF RightDelivery
<1>3. found # {} => p \in Profiles /\ FoundRight(d.copy, ref, p)
  <2> SUFFICES ASSUME found # {} PROVE p \in Profiles /\ FoundRight(d.copy, ref, p)
    OBVIOUS
  <2>1. p \in Get(d.copy, ref)
    OBVIOUS
  <2> HIDE DEF p, ref
  <2> QED
    BY <1>2, <2>1, FoundAsMeant
<1>4. found # {} => ~(TrimOf(ref) = "" \/ ( /\ PlacesOf(d.copy, TrimOf(ref)) = {}
                                           /\ Cardinality(Meant(d.copy, ref)) # 1))
  <2> HIDE DEF p, ref, found, d
  <2>1. Cardinality({p}) = 1
    BY FS_Singleton
  <2> QED
    BY <1>3, <2>1 DEF FoundRight
<1>5. \E res \in Results : /\ RightResult(d.copy, ref, res)
                           /\ deliveries' = [deliveries EXCEPT ![r] = WithResult(d, res)]
  <2> DEFINE Gives(res) == deliveries' = [deliveries EXCEPT ![r] = WithResult(d, res)]
  <2>0. /\ {"success", "failed", "skipped"} \subseteq Statuses
        /\ {"profile not found", "profile disabled", "unknown driver", "driver"} \subseteq Errors
    BY DEF Statuses, Errors
  <2>1. CASE found = {} /\ Gives(Result(ref, ref, "failed", "profile not found"))
    <3> DEFINE res == Result(ref, ref, "failed", "profile not found")
    <3>1. res = [ref |-> ref, id |-> ref, status |-> "failed", error |-> "profile not found"]
      BY DEF Result
    <3> HIDE DEF res, d
    <3>2. /\ res \in Results /\ res.status = "failed" /\ res.error = "profile not found"
          /\ res.ref = ref
      BY <1>2, <2>0, <3>1 DEF Results, Texts
    <3>3. \/ TrimOf(ref) = ""
          \/ PlacesOf(d.copy, TrimOf(ref)) = {} /\ Cardinality(Meant(d.copy, ref)) # 1
      <4> HIDE DEF ref
      <4>1. CASE TrimOf(ref) # "" /\ PlacesOf(d.copy, TrimOf(ref)) # {}
        BY <1>2, <2>1, <4>1, MeantIsFound
      <4>2. CASE TrimOf(ref) # "" /\ Cardinality(Meant(d.copy, ref)) = 1
        <5>1. PICK q : Meant(d.copy, ref) = {q}
          BY <1>2, <4>2, MeantIsFinite, FS_Singleton
        <5> QED
          BY <1>2, <2>1, <4>2, <5>1, MeantIsFound
      <4> QED
        BY <4>1, <4>2
    <3>4. RightResult(d.copy, ref, res)
      BY <3>2, <3>3 DEF RightResult
    <3> QED
      BY <2>1, <3>2, <3>4 DEF res
  <2>2. CASE found # {} /\ ~p.enabled /\ Gives(Result(ref, p.id, "skipped", "profile disabled"))
    <3> DEFINE res == Result(ref, p.id, "skipped", "profile disabled")
    <3>1. res = [ref |-> ref, id |-> p.id, status |-> "skipped", error |-> "profile disabled"]
      BY DEF Result
    <3> HIDE DEF res, d, p, ref, found
    <3>2. p.id \in Texts
      BY <1>3, <2>2 DEF Profiles
    <3>3. res \in Results /\ res.status = "skipped"
      BY <1>2, <2>0, <3>1, <3>2 DEF Results
    <3>4. RightResult(d.copy, ref, res)
      BY <3>3 DEF RightResult
    <3> QED
      BY <2>2, <3>3, <3>4 DEF res
  <2>3. CASE /\ found # {} /\ Gives(Result(ref, p.id, "failed", "unknown driver"))
    <3> DEFINE res == Result(ref, p.id, "failed", "unknown driver")
    <3>1. res = [ref |-> ref, id |-> p.id, status |-> "failed", error |-> "unknown driver"]
      BY DEF Result
    <3> HIDE DEF res, d, p, ref, found
    <3>2. p.id \in Texts
      BY <1>3, <2>3 DEF Profiles
    <3>3. res \in Results /\ res.status = "failed" /\ res.error = "unknown driver" /\ res.ref = ref
      BY <1>2, <2>0, <3>1, <3>2 DEF Results
    <3>4. RightResult(d.copy, ref, res)
      BY <1>4, <2>3, <3>3 DEF RightResult
    <3> QED
      BY <2>3, <3>3, <3>4 DEF res
  <2>4. CASE /\ found # {} /\ p.enabled
             /\ \E status \in SendOutcomes(p) : Gives(Result(ref, p.id, status, "driver"))
    <3>0. PICK status \in SendOutcomes(p) : Gives(Result(ref, p.id, status, "driver"))
      BY <2>4
    <3> DEFINE res == Result(ref, p.id, status, "driver")
    <3>1. res = [ref |-> ref, id |-> p.id, status |-> status, error |-> "driver"]
      BY DEF Result
    <3>2. status \in {"success", "failed"} /\ (status = "success" => Present(p.config))
      BY DEF SendOutcomes
    <3> HIDE DEF res, d, p, ref, found
    <3>3. p.id \in Texts
      BY <1>3, <2>4 DEF Profiles
    <3>4. res \in Results /\ res.status = status /\ res.id = p.id /\ res.ref = ref
          /\ res.error = "driver"
      BY <1>2, <2>0, <3>1, <3>2, <3>3 DEF Results
    <3>5. RightResult(d.copy, ref, res)
      BY <1>3, <1>4, <2>4, <3>2, <3>4 DEF RightResult, FoundRight
    <3> QED
      BY <3>0, <3>4, <3>5 DEF res
  <2> QED
    BY <2>1, <2>2, <2>3, <2>4 DEF DeliverNext
<1>6. PICK res \in Results : /\ RightResult(d.copy, ref, res)
                            /\ deliveries' = [deliveries EXCEPT ![r] = WithResult(d, res)]
  BY <1>5
<1>7. RightDelivery(WithResult(d, res))
  BY <1>1, <1>6, ResultKeeps
<1> QED
  BY <1>6, <1>7 DEF DeliveryInv

LEMMA NextDeliveryInv == ListInv /\ DeliveryInv /\ [Next]_vars => DeliveryInv'
<1> SUFFICES ASSUME ListInv, DeliveryInv, [Next]_vars PROVE DeliveryInv'
  OBVIOUS
<1>1. CASE UNCHANGED deliveries
  BY <1>1 DEF DeliveryInv
<1>2. CASE \E r \in Runs, refs \in References, x \in Hindrances : StartDelivery(r, refs, x)
  BY <1>2, StartStep
<1>3. CASE \E r \in Runs : DeliverNext(r)
  BY <1>3, DeliverStep
<1> QED
  <2>1. UNCHANGED vars => UNCHANGED deliveries
    BY DEF vars
  <2>2. CASE \E n \in Names, g \in GivenIds, c \in Changes :
               CreateProfile(n, g, c.enabled, c.config)
    BY <1>1, <2>2 DEF CreateProfile
  <2>3. CASE \E h \in Handlers :
               (\E u \in Updates : ReadAndValidate(h, u)) \/ ApplyUpdate(h) \/ UpdateFindsNothing(h)
    BY <1>1, <2>3 DEF ReadAndValidate, ApplyUpdate, UpdateFindsNothing
  <2>4. CASE \E id \in IdsOf(profiles) : RemoveProfile(id)
    BY <1>1, <2>4 DEF RemoveProfile
  <2>5. CASE \E x \in Inlines : ImportInline(x)
    BY <1>1, <2>5 DEF ImportInline
  <2> QED
    BY <1>1, <1>2, <1>3, <2>1, <2>2, <2>3, <2>4, <2>5 DEF Next

(* A message goes to the one profile its reference means, blanks around it  *)
(* apart, whatever the names, their order in the list and the requests that *)
(* change the list meanwhile; only profiles whose IDs are the same up to    *)
(* blanks may be meant besides it, and a task is among the users of the     *)
(* profile unless its ID or name has blanks around it (newProfileLookup,    *)
(* Deliver, deliveryProfileRefMatches).                                     *)
THEOREM SentAsMeantTheorem == Spec => []SentAsMeant
<1>1. DeliveryInv => SentAsMeant
  BY DEF DeliveryInv, RightDelivery, RightResult, SentAsMeant
<1> QED
  BY <1>1, InitListInv, NextListInv, InitDeliveryInv, NextDeliveryInv, PTL DEF Spec
================================================================================

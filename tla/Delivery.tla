-------------------------------- MODULE Delivery --------------------------------
(***************************************************************************)
(* Delivery profiles and the messages sent through them                    *)
(* (internal/delivery/service.go, the profile operations of                *)
(* internal/core/engine.go and their handlers in internal/api/routes.go).  *)
(*                                                                         *)
(* Requests change the list of profiles under Engine.mu, but an update is  *)
(* validated against a copy read before.  A run delivers with a copy of    *)
(* the list of its own, one reference of its manifest after the other.     *)
(* The fields of a profile that only the command poller reads are left to  *)
(* Poller.  Names, IDs and values are kept with the blanks around them     *)
(* where the code keeps them, and cut where it calls strings.TrimSpace.    *)
(***************************************************************************)
EXTENDS Integers, FiniteSets, SequencesExt

CONSTANTS
  Names,        \* names a profile may be given
  Lower, Slug, Trim,  \* strings.ToLower, models.Slugify and strings.TrimSpace, on
                \* the texts they change
  Numbered(_, _),  \* the text of an ID and a number: "id-2"
  GivenIds,     \* IDs a request for a new profile may carry; "" for none
  RandomIds,    \* what generateID may yield; it never yields an ID in use
  Inlines,      \* inline profiles of manifests
  References,   \* delivery.profiles of manifests: sequences of texts
  Changes,      \* bodies of update requests
  Handlers,     \* concurrent update requests
  Runs,         \* runs that deliver
  MaxEdits      \* bound of the model: accepted changes of the list

Configs == [token : STRING, chat : STRING]

LowerOf(n) == IF n \in DOMAIN Lower THEN Lower[n] ELSE n
SlugOf(n)  == IF n \in DOMAIN Slug THEN Slug[n] ELSE n
TrimOf(t)  == IF t \in DOMAIN Trim THEN Trim[t] ELSE t

(* strings.EqualFold is taken for equality of the lower case, as it is but  *)
(* for a few letters outside ASCII.                                         *)
ASSUME TextsAssumption ==
  /\ Names \cup GivenIds \cup RandomIds \subseteq STRING /\ "" \notin RandomIds
  /\ "" \notin DOMAIN Lower
  /\ \A n \in DOMAIN Lower : Lower[n] \in STRING \ {""} /\ LowerOf(Lower[n]) = Lower[n]
  /\ \A n \in DOMAIN Slug : /\ Slug[n] \in STRING
                            /\ TrimOf(Slug[n]) = Slug[n] /\ LowerOf(Slug[n]) = Slug[n]
  /\ \A t \in DOMAIN Trim : Trim[t] \in STRING
ASSUME BodiesAssumption ==
  /\ Inlines \subseteq [id : STRING, name : STRING, driver : STRING, config : Configs]
  /\ Changes \subseteq [name : STRING, driver : STRING, enabled : BOOLEAN, config : Configs]
(* Deliver does nothing for a manifest without profiles.                    *)
ASSUME ReferencesAssumption == References \subseteq Seq(STRING) /\ <<>> \notin References
ASSUME BoundsAssumption == MaxEdits \in Nat

OrElse(value, default) == IF value = "" THEN default ELSE value

(* nextDeliveryProfileIDLocked: a profile without an ID is called by its    *)
(* name, or its driver when nothing of the name can be part of an ID.       *)
Base(name, givenId) ==
  TrimOf(OrElse(givenId, OrElse(SlugOf(TrimOf(name)), "telegram")))

(* The IDs a new profile may ask for; numbers tell texts of them apart.     *)
Bases == {Base(n, g) : n \in Names, g \in GivenIds}
ASSUME NumberedAssumption ==
  \A base \in Bases, i, j \in 2..(MaxEdits + 2) :
    /\ Numbered(base, i) \in STRING
    /\ Numbered(base, i) = Numbered(base, j) => i = j

VARIABLES
  profiles,     \* Engine.deliveryProfiles
  update,       \* what a handler is about to apply, or None
  deliveries,   \* the deliveries of the runs
  edits         \* changes so far, for the bound

vars == <<profiles, update, deliveries, edits>>

None == [id |-> ""]
Drivers == {"telegram"}
NotStarted == [pc |-> "idle", refs |-> <<>>, copy |-> <<>>, results |-> <<>>]

Init ==
  /\ profiles = <<>>
  /\ update = [h \in Handlers |-> None]
  /\ deliveries = [r \in Runs |-> NotStarted]
  /\ edits = 0

-------------------------------------------------------------------------------
(* The list of profiles                                                     *)

(* What a request must leave of a profile, and what a driver asks of it.    *)
Complete(config) == TrimOf(config.token) # "" /\ TrimOf(config.chat) # ""
Present(config)  == config.token # "" /\ config.chat # ""

IdsOf(list) == {list[i].id : i \in DOMAIN list}
Index(list, id) == CHOOSE i \in DOMAIN list : list[i].id = id

(* uniqueDeliveryProfileIDLocked that tries one number only. *)
FirstNumber(base) ==
  IF base \notin IdsOf(profiles) THEN base ELSE Numbered(base, 2)

(* uniqueDeliveryProfileIDLocked: of so many numbers one is free. *)
UniqueId(base) ==
  LET Taken(i) == Numbered(base, i) \in IdsOf(profiles)
      numbers == 2..(Len(profiles) + 2) IN
  IF base \notin IdsOf(profiles) THEN base
  ELSE Numbered(base, CHOOSE i \in numbers : ~Taken(i) /\ \A j \in 2..(i - 1) : Taken(j))

(* The IDs AddDeliveryProfile may give; a blank one is replaced at random.  *)
NewIds(base) == IF base = "" THEN RandomIds \ IdsOf(profiles) ELSE {UniqueId(base)}

(* mergeDeliveryConfig that takes the update's blanks for values. *)
MergedWithBlanks(existing, new) == new

(* mergeDeliveryConfig *)
Merged(existing, new) ==
  [f \in DOMAIN existing |-> IF TrimOf(new[f]) = "" THEN existing[f] ELSE new[f]]

(* validateUpdatedDeliveryProfile, with mergedDeliveryConfigForValidation *)
UpdateIsValid(existing, u) ==
  LET Kept(f) == IF TrimOf(u.config[f]) = "" THEN existing.config[f] ELSE u.config[f] IN
  /\ OrElse(TrimOf(u.name), existing.name) # ""
  /\ OrElse(TrimOf(u.driver), existing.driver) = "telegram"
  /\ \A f \in DOMAIN existing.config : TrimOf(Kept(f)) # ""

Edit == edits < MaxEdits /\ edits' = edits + 1

(* handleCreateDelivery: normalizeNewDeliveryProfile and AddDeliveryProfile *)
CreateProfile(name, givenId, enabled, config) ==
  /\ Edit
  /\ TrimOf(name) # "" /\ Complete(config)
  /\ \E id \in NewIds(Base(name, givenId)) :
       profiles' = Append(profiles,
         [id |-> id, name |-> TrimOf(name), driver |-> "telegram", enabled |-> enabled,
          config |-> config])
  /\ UNCHANGED <<update, deliveries>>

(* handleUpdateDelivery up to the end of the validation *)
ReadAndValidate(h, u) ==
  /\ update[h] = None
  /\ u.id \in IdsOf(profiles)
  /\ UpdateIsValid(profiles[Index(profiles, u.id)], u)
  /\ update' = [update EXCEPT ![h] = u]
  /\ UNCHANGED <<profiles, deliveries, edits>>

(* UpdateDeliveryProfile on the list as it is now.  A name of blanks passes *)
(* for the old one in the validation, and replaces it here.                 *)
ApplyUpdate(h) ==
  LET u == update[h]
      i == Index(profiles, u.id)
      p == profiles[i] IN
  /\ u # None /\ u.id \in IdsOf(profiles)
  /\ Edit
  /\ profiles' = [profiles EXCEPT ![i] =
       [u EXCEPT !.name   = OrElse(@, p.name),
                 !.driver = OrElse(@, p.driver),
                 !.config = Merged(p.config, @)]]
  /\ update' = [update EXCEPT ![h] = None]
  /\ UNCHANGED <<deliveries>>

(* UpdateDeliveryProfile: the profile was removed meanwhile. *)
UpdateFindsNothing(h) ==
  /\ update[h] # None /\ update[h].id \notin IdsOf(profiles)
  /\ update' = [update EXCEPT ![h] = None]
  /\ UNCHANGED <<profiles, deliveries, edits>>

(* RemoveDeliveryProfile *)
RemoveProfile(id) ==
  /\ id \in IdsOf(profiles)
  /\ Edit
  /\ profiles' = RemoveAt(profiles, Index(profiles, id))
  /\ UNCHANGED <<update, deliveries>>

(* mergeInlineProfiles, for a manifest with one inline profile: the import  *)
(* of a task asks for an ID and a driver, and for no configuration.         *)
ImportInline(inline) ==
  /\ inline.id \notin IdsOf(profiles)
  /\ Edit
  /\ profiles' = Append(profiles,
       [id |-> inline.id, name |-> OrElse(inline.name, inline.id), driver |-> inline.driver,
        enabled |-> TRUE, config |-> inline.config])
  /\ UNCHANGED <<update, deliveries>>

-------------------------------------------------------------------------------
(* The lookup of a reference                                                *)

Lookup0 == [aliases |-> <<>>, ambiguous |-> {}]

(* addNormalizedAlias that forgets which aliases were ambiguous: an alias   *)
(* two profiles share belongs to the third.                                 *)
AddAliasForgetful(l, alias, p) ==
  IF alias \in DOMAIN l.aliases /\ l.aliases[alias].id # p.id
  THEN [l EXCEPT !.aliases = [a \in DOMAIN @ \ {alias} |-> @[a]]]
  ELSE [l EXCEPT !.aliases = (alias :> p) @@ @]

(* addNormalizedAlias *)
AddAlias(l, alias, p) ==
  IF alias \in l.ambiguous THEN l
  ELSE IF alias \in DOMAIN l.aliases /\ l.aliases[alias].id # p.id
  THEN [aliases   |-> [a \in DOMAIN l.aliases \ {alias} |-> l.aliases[a]],
        ambiguous |-> l.ambiguous \cup {alias}]
  ELSE [aliases   |-> [a \in DOMAIN l.aliases \cup {alias} |->
                         IF a = alias THEN p ELSE l.aliases[a]],
        ambiguous |-> l.ambiguous]

(* addAlias: the text, and its lower case unless that is the same.          *)
AddText(l, text, p) ==
  LET alias == TrimOf(text)
      lower == LowerOf(alias)
      added == AddAlias(l, alias, p) IN
  IF alias = "" THEN l
  ELSE IF lower = alias THEN added
  ELSE AddAlias(added, lower, p)

(* newProfileLookup: a profile answers to its name and to its slug.         *)
AddProfile(l, p) == AddText(AddText(l, p.name, p), SlugOf(p.name), p)

NewLookup(list) == FoldLeft(AddProfile, Lookup0, list)

(* byID: the places of the profiles with that ID but for blanks around it   *)
PlacesOf(list, id) == {i \in DOMAIN list : TrimOf(list[i].id) = id}

(* profileLookup.get, as the set of what it finds; of profiles whose IDs    *)
(* differ in blanks only, the last of the list is the one in byID.          *)
Get(list, ref) ==
  LET l == NewLookup(list)
      t == TrimOf(ref) IN
  IF t = "" THEN {}
  ELSE IF PlacesOf(list, t) # {} THEN {list[Max(PlacesOf(list, t))]}
  ELSE IF t \in DOMAIN l.aliases THEN {l.aliases[t]}
  ELSE {}

-------------------------------------------------------------------------------
(* The delivery of a run                                                    *)

Result(ref, id, status, error) == [ref |-> ref, id |-> id, status |-> status, error |-> error]

(* skippedDeliveryResults *)
Skipped(list, refs, reason) ==
  [i \in DOMAIN refs |->
     Result(refs[i], IF Get(list, refs[i]) = {} THEN refs[i]
                     ELSE (CHOOSE p \in Get(list, refs[i]) : TRUE).id, "skipped", reason)]

(* The engine calls Deliver with a copy of the profiles.  Unless the status *)
(* of the run is one of send_on and the template yields a message, every    *)
(* reference is skipped at once.                                            *)
StartDelivery(r, refs, hindrance) ==
  /\ deliveries[r].pc = "idle"
  /\ deliveries' = [deliveries EXCEPT ![r] =
       IF hindrance # "none"
       THEN [pc |-> "done", refs |-> refs, copy |-> profiles,
             results |-> Skipped(profiles, refs, hindrance)]
       ELSE [pc |-> "sending", refs |-> refs, copy |-> profiles, results |-> <<>>]]
  /\ UNCHANGED <<profiles, update, edits>>

WithResult(d, res) ==
  [d EXCEPT !.results = Append(@, res),
            !.pc = IF Len(d.results) + 1 = Len(d.refs) THEN "done" ELSE "sending"]

(* TelegramDriver.Send: it refuses a profile without a token or a chat, and *)
(* whether the service takes the message is up to the service.              *)
SendOutcomes(p) == IF Present(p.config) THEN {"success", "failed"} ELSE {"failed"}

(* One turn of the loop of Deliver *)
DeliverNext(r) ==
  LET d == deliveries[r]
      ref == d.refs[Len(d.results) + 1]
      found == Get(d.copy, ref)
      p == CHOOSE p \in found : TRUE
      Gives(res) == deliveries' = [deliveries EXCEPT ![r] = WithResult(d, res)] IN
  /\ d.pc = "sending"
  /\ \/ /\ found = {}
        /\ Gives(Result(ref, ref, "failed", "profile not found"))
     \/ /\ found # {} /\ ~p.enabled
        /\ Gives(Result(ref, p.id, "skipped", "profile disabled"))
     \/ /\ found # {} /\ p.enabled /\ p.driver \notin Drivers
        /\ Gives(Result(ref, p.id, "failed", "unknown driver"))
     \/ /\ found # {} /\ p.enabled /\ p.driver \in Drivers
        /\ \E status \in SendOutcomes(p) : Gives(Result(ref, p.id, status, "driver"))
  /\ UNCHANGED <<profiles, update, edits>>

(* A request that updates a profile: its path has the ID, its body the rest. *)
Updates ==
  {[id |-> id, name |-> c.name, driver |-> c.driver, enabled |-> c.enabled,
    config |-> c.config] : id \in IdsOf(profiles), c \in Changes}

(* Why nothing is sent: the status is not in send_on, or the template fails *)
(* or yields no text.                                                       *)
Hindrances == {"none", "not sent"}

Next ==
  \/ \E n \in Names, g \in GivenIds, c \in Changes : CreateProfile(n, g, c.enabled, c.config)
  \/ \E h \in Handlers :
       \/ \E u \in Updates : ReadAndValidate(h, u)
       \/ ApplyUpdate(h)
       \/ UpdateFindsNothing(h)
  \/ \E id \in IdsOf(profiles) : RemoveProfile(id)
  \/ \E i \in Inlines : ImportInline(i)
  \/ \E r \in Runs :
       \/ \E refs \in References, x \in Hindrances : StartDelivery(r, refs, x)
       \/ DeliverNext(r)

Spec == Init /\ [][Next]_vars

-------------------------------------------------------------------------------
(* Properties                                                               *)

(* The texts a profile answers to besides its ID. *)
AliasesOf(p) ==
  (UNION {{TrimOf(text), LowerOf(TrimOf(text))} : text \in {p.name, SlugOf(p.name)}}) \ {""}

(* What a reference means, whatever the order of the profiles: those of     *)
(* that ID, or else all that have it for an alias.                          *)
Meant(list, ref) ==
  LET t == TrimOf(ref) IN
  IF PlacesOf(list, t) # {} THEN {list[i] : i \in PlacesOf(list, t)}
  ELSE {p \in {list[i] : i \in DOMAIN list} : t \in AliasesOf(p)}

(* deliveryProfileRefMatches: the task counts as a user of the profile.     *)
UsedBy(p, ref) ==
  LET t == TrimOf(ref) IN
  /\ t # ""
  /\ t \in {p.id, p.name, SlugOf(p.name)} \/ LowerOf(t) = LowerOf(p.name)

(* The ID and the name have no blanks around them.                          *)
Tidy(p) == TrimOf(p.id) = p.id /\ TrimOf(p.name) = p.name

(* A message goes to a profile only when the reference means that one and   *)
(* no other but profiles whose IDs are the same up to the blanks around     *)
(* them, it was enabled and had a token and a chat, and the web UI lists    *)
(* the task among its users, unless its ID or its name has blanks around    *)
(* it, which the lookup cuts and the web UI compares.  A reference is       *)
(* answered with "not found" when it is blank or means none or several by   *)
(* their names, and only then (newProfileLookup, Deliver,                   *)
(* deliveryProfileUsage).                                                   *)
SentAsMeant ==
  \A r \in Runs : LET d == deliveries[r] IN
    \A i \in DOMAIN d.results :
      LET res == d.results[i]
          t == TrimOf(d.refs[i])
          meant == Meant(d.copy, d.refs[i]) IN
      /\ res.status = "success" =>
           \E p \in meant : /\ res.id = p.id
                            /\ \A q \in meant : q = p \/ TrimOf(q.id) = t
                            /\ p.enabled /\ Present(p.config)
                            /\ Tidy(p) => UsedBy(p, d.refs[i])
      /\ res.status # "skipped" =>
           (res.error = "profile not found" <=>
              t = "" \/ (PlacesOf(d.copy, t) = {} /\ Cardinality(meant) # 1))

(* No two profiles share an ID, whatever requests and imports add and       *)
(* remove them: update, removal and delivery act on the first one they find *)
(* (uniqueDeliveryProfileIDLocked, mergeInlineProfiles).                    *)
IdsAreUnique == \A i, j \in DOMAIN profiles : profiles[i].id = profiles[j].id => i = j

(* No request makes a complete profile incomplete, although it is validated *)
(* against a copy that may be out of date: neither an update nor an import  *)
(* takes the token or the chat of a profile away (mergeDeliveryConfig,      *)
(* mergeInlineProfiles).                                                    *)
CompleteStaysComplete ==
  [][\A i \in DOMAIN profiles, j \in DOMAIN profiles' :
       profiles[i].id = profiles'[j].id /\ Complete(profiles[i].config)
         => Complete(profiles'[j].config)]_vars
================================================================================

------------------------ MODULE MissionRegistryProofs ------------------------
(***************************************************************************)
(* Theorems about MissionRegistry for every set of missions, teams and     *)
(* workers and every number of commands.  However saves overlap, tables    *)
(* hold rows of the right form, the missions form a tree, and a row leaves *)
(* the store only when a command saves that may remove it.  Until a save   *)
(* overlaps another, a callsign and a member have one status snapshot at   *)
(* most, and the relations that are kept twice agree.                      *)
(*                                                                         *)
(* A cycle is a set of missions whose parents are all in it.  A save lays  *)
(* the missions of one tree over those of another and removes none: a      *)
(* cycle in the outcome would lie within the one tree or within the other. *)
(***************************************************************************)
EXTENDS MissionRegistry, TLAPS

MissionRows == [parent : Missions \cup {None}, deleted : BOOLEAN]

MissionsOK(f) ==
  /\ f = [m \in DOMAIN f |-> f[m]]
  /\ DOMAIN f \subseteq Missions
  /\ \A m \in DOMAIN f : f[m] \in MissionRows
  /\ Tree(f)

LEMMA WrittenDomain ==
  ASSUME NEW f, NEW g
  PROVE  /\ DOMAIN Written(f, g) = DOMAIN f \cup DOMAIN g
         /\ \A k \in DOMAIN g : Written(f, g)[k] = g[k]
         /\ \A k \in DOMAIN f \ DOMAIN g : Written(f, g)[k] = f[k]
BY DEF Written

\* Two trees laid one over the other are a tree.
LEMMA TreesMerge ==
  ASSUME NEW f, NEW g, MissionsOK(f), MissionsOK(g)
  PROVE  MissionsOK(Written(f, g))
<1> DEFINE h == Written(f, g)
<1>1. /\ DOMAIN h = DOMAIN f \cup DOMAIN g
      /\ \A k \in DOMAIN g : h[k] = g[k]
      /\ \A k \in DOMAIN f \ DOMAIN g : h[k] = f[k]
  BY WrittenDomain
<1>2. h = [m \in DOMAIN h |-> h[m]]
  BY DEF Written
<1>3. DOMAIN h \subseteq Missions /\ \A m \in DOMAIN h : h[m] \in MissionRows
  BY <1>1 DEF MissionsOK
<1>4. \A m \in DOMAIN h : h[m].parent \in DOMAIN h \cup {None}
  BY <1>1 DEF MissionsOK, Tree
<1>5. ASSUME NEW C \in SUBSET DOMAIN h, C # {}, \A m \in C : h[m].parent \in C
      PROVE  FALSE
  <2>1. CASE C \cap DOMAIN g = {}
    <3>1. C \in SUBSET DOMAIN f /\ \A m \in C : f[m].parent \in C
      BY <1>1, <1>5, <2>1
    <3>2. QED
      BY <1>5, <3>1 DEF MissionsOK, Tree
  <2>2. CASE C \cap DOMAIN g # {}
    <3>1. None \notin C
      BY <1>3, <1>5, RegistryAssumption
    <3>2. \A m \in C \cap DOMAIN g : g[m].parent \in C \cap DOMAIN g
      BY <1>1, <1>5, <3>1 DEF MissionsOK, Tree
    <3>3. C \cap DOMAIN g \in SUBSET DOMAIN g
      OBVIOUS
    <3>4. QED
      BY <2>2, <3>2, <3>3 DEF MissionsOK, Tree
  <2>3. QED
    BY <2>1, <2>2
<1>6. Tree(h)
  BY <1>4, <1>5 DEF Tree
<1>7. QED
  BY <1>2, <1>3, <1>6 DEF MissionsOK

\* A closed set holds the chain of each of its members.
LEMMA ChainIsLeast ==
  ASSUME NEW f, NEW p, NEW S, p \in S, S \subseteq DOMAIN f \cup {p},
         \A x \in S \cap DOMAIN f : f[x].parent \in S \cup {None}
  PROVE  Chain(f, p) \subseteq S
BY DEF Chain

\* What is above a mission is closed.
LEMMA ChainIsClosed ==
  ASSUME NEW f, NEW p, MissionsOK(f), p \in DOMAIN f
  PROVE  /\ p \in Chain(f, p) /\ Chain(f, p) \subseteq DOMAIN f
         /\ \A x \in Chain(f, p) : f[x].parent \in Chain(f, p) \cup {None}
<1>1. p \in Chain(f, p) /\ Chain(f, p) \subseteq DOMAIN f
  BY DEF Chain
<1>2. ASSUME NEW x \in Chain(f, p), f[x].parent # None
      PROVE  f[x].parent \in Chain(f, p)
  <2>1. x \in DOMAIN f /\ f[x].parent \in DOMAIN f
    BY <1>1, <1>2 DEF MissionsOK, Tree
  <2>2. ASSUME NEW S \in SUBSET (DOMAIN f \cup {p}), p \in S,
               \A y \in S \cap DOMAIN f : f[y].parent \in S \cup {None}
        PROVE  f[x].parent \in S
    <3>1. x \in S
      BY <2>2 DEF Chain
    <3>2. QED
      BY <1>2, <2>1, <2>2, <3>1
  <2>3. QED
    BY <2>1, <2>2 DEF Chain
<1>3. ASSUME NEW x \in Chain(f, p)
      PROVE  f[x].parent \in Chain(f, p) \cup {None}
  <2>1. CASE f[x].parent = None
    BY <2>1
  <2>2. CASE f[x].parent # None
    BY <2>2, <1>2
  <2>3. QED
    BY <2>1, <2>2
<1>4. QED
  BY <1>1, <1>3

\* A mission that gets a parent whose chain it is not in stays in a tree.
LEMMA TreeGrows ==
  ASSUME NEW f, MissionsOK(f), NEW m \in Missions, NEW row \in MissionRows,
         ParentAllowed(f, m, row.parent)
  PROVE  MissionsOK(Put(f, m, row))
<1> DEFINE h == Put(f, m, row)
           p == row.parent
<1>1. /\ DOMAIN h = DOMAIN f \cup {m} /\ h[m] = row
      /\ \A k \in DOMAIN f \ {m} : h[k] = f[k]
  BY DEF Put, Written
<1>0. h = [k \in DOMAIN h |-> h[k]]
  BY DEF Put, Written
<1>2. DOMAIN h \subseteq Missions /\ \A k \in DOMAIN h : h[k] \in MissionRows
  <2>1. DOMAIN h \subseteq Missions
    BY <1>1 DEF MissionsOK
  <2>2. ASSUME NEW k \in DOMAIN h PROVE h[k] \in MissionRows
    <3>1. CASE k = m
      BY <1>1, <3>1
    <3>2. CASE k \in DOMAIN f \ {m}
      BY <1>1, <3>2 DEF MissionsOK
    <3>3. QED
      BY <1>1, <3>1, <3>2
  <2>3. QED
    BY <2>1, <2>2
<1>3. p # None =>
        /\ p \in DOMAIN f /\ p \in Chain(f, p) /\ m \notin Chain(f, p)
        /\ Chain(f, p) \subseteq DOMAIN f
        /\ \A x \in Chain(f, p) : f[x].parent \in Chain(f, p) \cup {None}
  <2>1. ASSUME p # None PROVE p \in DOMAIN f /\ m \notin Chain(f, p)
    <3>1. m \notin Chain(f, p) /\ Chain(f, p) \subseteq DOMAIN f
      BY <2>1 DEF ParentAllowed
    <3>2. p \in Chain(f, p)
      BY DEF Chain
    <3>3. QED
      BY <3>1, <3>2
  <2>2. QED
    BY <2>1, ChainIsClosed
<1>4. \A k \in DOMAIN h : h[k].parent \in DOMAIN h \cup {None}
  BY <1>1, <1>3 DEF MissionsOK, Tree
<1>5. ASSUME NEW C \in SUBSET DOMAIN h, C # {}, \A x \in C : h[x].parent \in C
      PROVE  FALSE
  <2>1. None \notin C
    BY <1>2, <1>5, RegistryAssumption
  <2>2. CASE m \notin C
    <3>1. C \in SUBSET DOMAIN f /\ \A x \in C : f[x].parent \in C
      BY <1>1, <1>5, <2>2
    <3>2. QED
      BY <1>5, <3>1 DEF MissionsOK, Tree
  <2>3. CASE m \in C
    <3> DEFINE D == C \cap Chain(f, p)
    <3>1. p \in C /\ p # None
      BY <1>1, <1>5, <2>1, <2>3
    <3>2. D # {} /\ D \in SUBSET DOMAIN f /\ m \notin D
      BY <1>3, <3>1
    <3>3. \A x \in D : f[x].parent \in D
      BY <1>1, <1>3, <1>5, <2>1, <3>1, <3>2
    <3>4. QED
      BY <3>2, <3>3 DEF MissionsOK, Tree
  <2>4. QED
    BY <2>2, <2>3
<1>6. Tree(h)
  BY <1>4, <1>5 DEF Tree
<1>7. QED
  BY <1>0, <1>2, <1>6 DEF MissionsOK

\* Missions with the same parents are the same tree.
LEMMA TreeStays ==
  ASSUME NEW f, MissionsOK(f), NEW m \in DOMAIN f
  PROVE  MissionsOK([f EXCEPT ![m].deleted = TRUE])
<1> DEFINE h == [f EXCEPT ![m].deleted = TRUE]
<1>1. DOMAIN h = DOMAIN f /\ h = [k \in DOMAIN h |-> h[k]]
  BY DEF MissionsOK
<1>2. \A k \in DOMAIN f : h[k] \in MissionRows /\ h[k].parent = f[k].parent
  BY DEF MissionsOK, MissionRows
<1>3. Tree(h)
  BY <1>1, <1>2 DEF MissionsOK, Tree
<1>4. QED
  BY <1>1, <1>2, <1>3 DEF MissionsOK

LEMMA EmptyIsATree == MissionsOK(<< >>)
<1>1. DOMAIN << >> = {}
  OBVIOUS
<1>2. << >> = [m \in DOMAIN << >> |-> << >>[m]]
  OBVIOUS
<1>3. QED
  BY <1>1, <1>2 DEF MissionsOK, Tree

--------------------------------------------------------------------------
(* What the requests say.                                                  *)

LEMMA ParentRequest ==
  ASSUME NEW c \in AllRequests,
         c.op \in {"mission.upsert", "mission.patch", "parent.set"}
  PROVE  c.mission \in Missions /\ c.parent \in Missions \cup {None, Keep}
BY DEF AllRequests

LEMMA TeamUpsertRequest ==
  ASSUME NEW c \in AllRequests, c.op = "team.upsert"
  PROVE  c.team \in Teams /\ c.missions \in (SUBSET Missions) \cup {Keep}
BY DEF AllRequests

LEMMA TeamMissionRequest ==
  ASSUME NEW c \in AllRequests, c.op \in {"team.link", "team.unlink"}
  PROVE  c.team \in Teams /\ c.mission \in Missions
BY DEF AllRequests

--------------------------------------------------------------------------
(* The inductive invariant.                                                *)

Whole(k) == k = [t \in Tables |-> k[t]]

LinksOK(f) == DOMAIN f \subseteq Missions \X Teams
TeamsOK(f) == \A t \in DOMAIN f : f[t].first \in Missions \cup {None}

Sound(k) == Whole(k) /\ MissionsOK(k.missions) /\ LinksOK(k.teamLinks) /\ TeamsOK(k.teams)

\* Nothing is gone that the command may not remove.
KeptBy(op, old, new) ==
  \A t \in Tables : op \in Removers[t] \/ DOMAIN old[t] \subseteq DOMAIN new[t]

RegistryInv ==
  /\ traffic \in DOMAIN Traffics
  /\ phase = [w \in Workers |-> phase[w]]
  /\ command = [w \in Workers |-> command[w]]
  /\ core = [w \in Workers |-> core[w]] /\ before = [w \in Workers |-> before[w]]
  /\ Sound(store)
  /\ \A w \in Workers :
       /\ phase[w] # "idle" => command[w] \in AllRequests
       /\ Sound(core[w]) /\ Sound(before[w])
       /\ phase[w] = "loaded" => core[w] = before[w]
       /\ phase[w] = "applied" => KeptBy(command[w].op, before[w], core[w])

\* What a command may make of the core of its worker.
Keeps(w, tables) == Sound(tables) /\ KeptBy(command[w].op, core[w], tables)

\* Carrying out a command ends so.
Outcome(w) ==
  \E accepted, tables : /\ phase[w] = "loaded" /\ Applied(w, accepted, tables)
                        /\ Keeps(w, tables)

LEMMA InvCore ==
  ASSUME RegistryInv, NEW w \in Workers
  PROVE  /\ Sound(core[w]) /\ Whole(core[w]) /\ MissionsOK(core[w].missions)
         /\ LinksOK(core[w].teamLinks) /\ TeamsOK(core[w].teams)
         /\ phase[w] = "loaded" => command[w] \in AllRequests
BY DEF RegistryInv, Sound

LEMMA RefusedKeeps ==
  ASSUME RegistryInv, NEW w \in Workers, phase[w] = "loaded", Reject(w, core[w])
  PROVE  Outcome(w)
BY InvCore DEF Outcome, Reject, Keeps, KeptBy

LEMMA GrowingDomains ==
  ASSUME NEW f
  PROVE  /\ \A key, row : DOMAIN f \subseteq DOMAIN Put(f, key, row)
         /\ \A keys : DOMAIN f \subseteq DOMAIN With(f, keys)
         /\ \A keys : DOMAIN With(f, keys) = DOMAIN f \cup keys
BY DEF Put, With, Written

LEMMA ShrinkingDomains ==
  ASSUME NEW f
  PROVE  /\ \A S : DOMAIN Restrict(f, S) = S
         /\ \A S : \A x \in S : Restrict(f, S)[x] = f[x]
BY DEF Restrict

\* Tables of which missions, teams and their links are the same.
LEMMA StillSound ==
  ASSUME NEW k, Sound(k), NEW tables, Whole(tables), tables.missions = k.missions,
         tables.teams = k.teams, tables.teamLinks = k.teamLinks
  PROVE  Sound(tables)
BY DEF Sound

LEMMA OutcomeOf ==
  ASSUME NEW w \in Workers, NEW accepted, NEW tables, phase[w] = "loaded",
         Applied(w, accepted, tables), Sound(tables),
         KeptBy(command[w].op, core[w], tables)
  PROVE  Outcome(w)
BY DEF Outcome, Keeps

--------------------------------------------------------------------------
(* Commands that leave missions, teams and their links alone.              *)

LEMMA PlaceCreateKeeps ==
  ASSUME RegistryInv, NEW w \in Workers, PlaceCreate(w)
  PROVE  Outcome(w)
<1> DEFINE tables == [core[w] EXCEPT !.places = With(@, {number[w]})]
<1>1. phase[w] = "loaded" /\ Applied(w, TRUE, tables)
  BY DEF PlaceCreate, Loaded, Accept
<1>2. Whole(core[w]) /\ Sound(core[w])
  BY InvCore
<1>3. Sound(tables)
  BY <1>2, StillSound DEF Whole, Tables
<1>4. KeptBy(command[w].op, core[w], tables)
  BY <1>2, GrowingDomains DEF Whole, Tables, KeptBy
<1>5. QED
  BY <1>1, <1>3, <1>4, OutcomeOf

LEMMA PlaceDeleteKeeps ==
  ASSUME RegistryInv, NEW w \in Workers, PlaceDelete(w)
  PROVE  Outcome(w)
<1> DEFINE tables == [core[w] EXCEPT !.places = Without(@, {command[w].place})]
<1>1. /\ phase[w] = "loaded" /\ command[w].op = "place.delete"
      /\ Applied(w, TRUE, tables) \/ Reject(w, core[w])
  BY DEF PlaceDelete, Loaded, Accept
<1>2. Whole(core[w]) /\ Sound(core[w])
  BY InvCore
<1>3. Sound(tables)
  BY <1>2, StillSound DEF Whole, Tables
<1>4. KeptBy(command[w].op, core[w], tables)
  BY <1>1, <1>2 DEF Whole, Tables, KeptBy, Removers
<1>5. QED
  BY <1>1, <1>3, <1>4, OutcomeOf, RefusedKeeps

LEMMA PlaceLinkKeeps ==
  ASSUME RegistryInv, NEW w \in Workers, PlaceLink(w)
  PROVE  Outcome(w)
<1> DEFINE c == command[w]
           tables == [core[w] EXCEPT !.placeLinks = With(@, {<<c.mission, c.place>>})]
<1>1. /\ phase[w] = "loaded"
      /\ Applied(w, TRUE, tables) \/ Reject(w, core[w])
  BY DEF PlaceLink, Loaded, Accept
<1>2. Whole(core[w]) /\ Sound(core[w])
  BY InvCore
<1>3. Sound(tables)
  BY <1>2, StillSound DEF Whole, Tables
<1>4. KeptBy(command[w].op, core[w], tables)
  BY <1>2, GrowingDomains DEF Whole, Tables, KeptBy
<1>5. QED
  BY <1>1, <1>3, <1>4, OutcomeOf, RefusedKeeps

LEMMA PlaceUnlinkKeeps ==
  ASSUME RegistryInv, NEW w \in Workers, PlaceUnlink(w)
  PROVE  Outcome(w)
<1> DEFINE c == command[w]
           tables == [core[w] EXCEPT !.placeLinks = Without(@, {<<c.mission, c.place>>})]
<1>1. /\ phase[w] = "loaded" /\ command[w].op = "place.unlink"
      /\ Applied(w, TRUE, tables) \/ Reject(w, core[w])
  BY DEF PlaceUnlink, Loaded, Accept
<1>2. Whole(core[w]) /\ Sound(core[w])
  BY InvCore
<1>3. Sound(tables)
  BY <1>2, StillSound DEF Whole, Tables
<1>4. KeptBy(command[w].op, core[w], tables)
  BY <1>1, <1>2 DEF Whole, Tables, KeptBy, Removers
<1>5. QED
  BY <1>1, <1>3, <1>4, OutcomeOf, RefusedKeeps

LEMMA ChangeUpsertKeeps ==
  ASSUME RegistryInv, NEW w \in Workers, ChangeUpsert(w)
  PROVE  Outcome(w)
<1> DEFINE c == command[w]
           tables == [core[w] EXCEPT !.changes = Put(@, number[w], c.mission)]
<1>1. /\ phase[w] = "loaded"
      /\ Applied(w, TRUE, tables) \/ Reject(w, core[w])
  BY DEF ChangeUpsert, Loaded, Accept
<1>2. Whole(core[w]) /\ Sound(core[w])
  BY InvCore
<1>3. Sound(tables)
  BY <1>2, StillSound DEF Whole, Tables
<1>4. KeptBy(command[w].op, core[w], tables)
  BY <1>2, GrowingDomains DEF Whole, Tables, KeptBy
<1>5. QED
  BY <1>1, <1>3, <1>4, OutcomeOf, RefusedKeeps

LEMMA MemberUpsertKeeps ==
  ASSUME RegistryInv, NEW w \in Workers, MemberUpsert(w)
  PROVE  Outcome(w)
<1> DEFINE c == command[w]
           k == core[w]
           held == IF c.member \in DOMAIN k.members THEN k.members[c.member].team ELSE None
           team == IF c.team = Keep THEN held ELSE c.team
           row  == [team |-> team, identity |-> c.identity,
                    clients |-> ClientsOf(k, c.member)]
           tables == [k EXCEPT !.members = Put(@, c.member, row)]
<1>1. /\ phase[w] = "loaded"
      /\ Applied(w, TRUE, tables) \/ Reject(w, core[w])
  BY DEF MemberUpsert, Loaded, Accept
<1>2. Whole(core[w]) /\ Sound(core[w])
  BY InvCore
<1>3. Sound(tables)
  BY <1>2, StillSound DEF Whole, Tables
<1>4. KeptBy(command[w].op, core[w], tables)
  BY <1>2, GrowingDomains DEF Whole, Tables, KeptBy
<1>5. QED
  BY <1>1, <1>3, <1>4, OutcomeOf, RefusedKeeps

LEMMA MemberDeleteKeeps ==
  ASSUME RegistryInv, NEW w \in Workers, MemberDelete(w)
  PROVE  Outcome(w)
<1> DEFINE u == command[w].member
           k == core[w]
           tables == [k EXCEPT
             !.members      = Without(@, {u}),
             !.assets       = [a \in DOMAIN @ |-> IF @[a] = u THEN None ELSE @[a]],
             !.clientLinks  = Restrict(@, {l \in DOMAIN @ : l[1] # u}),
             !.memberSkills = Restrict(@, {s \in DOMAIN @ : s[1] # k.members[u].identity})]
<1>1. /\ phase[w] = "loaded" /\ command[w].op = "member.delete"
      /\ Applied(w, TRUE, tables) \/ Reject(w, core[w])
  BY DEF MemberDelete, Loaded, Accept
<1>2. Whole(core[w]) /\ Sound(core[w])
  BY InvCore
<1>3. Sound(tables)
  BY <1>2, StillSound DEF Whole, Tables
<1>4. KeptBy(command[w].op, core[w], tables)
  BY <1>1, <1>2 DEF Whole, Tables, KeptBy, Removers
<1>5. QED
  BY <1>1, <1>3, <1>4, OutcomeOf, RefusedKeeps

LEMMA AssetUpsertKeeps ==
  ASSUME RegistryInv, NEW w \in Workers, AssetUpsert(w)
  PROVE  Outcome(w)
<1> DEFINE c == command[w]
           k == core[w]
           held == IF c.asset \in DOMAIN k.assets THEN k.assets[c.asset] ELSE None
           owner == IF c.owner = Keep THEN held ELSE c.owner
           tables == [k EXCEPT !.assets = Put(@, c.asset, owner)]
<1>1. /\ phase[w] = "loaded"
      /\ Applied(w, TRUE, tables) \/ Reject(w, core[w])
  BY DEF AssetUpsert, Loaded, Accept
<1>2. Whole(core[w]) /\ Sound(core[w])
  BY InvCore
<1>3. Sound(tables)
  BY <1>2, StillSound DEF Whole, Tables
<1>4. KeptBy(command[w].op, core[w], tables)
  BY <1>2, GrowingDomains DEF Whole, Tables, KeptBy
<1>5. QED
  BY <1>1, <1>3, <1>4, OutcomeOf, RefusedKeeps

LEMMA SkillUpsertKeeps ==
  ASSUME RegistryInv, NEW w \in Workers, SkillUpsert(w)
  PROVE  Outcome(w)
<1> DEFINE tables == [core[w] EXCEPT !.skills = With(@, {command[w].skill})]
<1>1. /\ phase[w] = "loaded"
      /\ Applied(w, TRUE, tables)
  BY DEF SkillUpsert, Loaded, Accept
<1>2. Whole(core[w]) /\ Sound(core[w])
  BY InvCore
<1>3. Sound(tables)
  BY <1>2, StillSound DEF Whole, Tables
<1>4. KeptBy(command[w].op, core[w], tables)
  BY <1>2, GrowingDomains DEF Whole, Tables, KeptBy
<1>5. QED
  BY <1>1, <1>3, <1>4, OutcomeOf

LEMMA MemberSkillKeeps ==
  ASSUME RegistryInv, NEW w \in Workers, MemberSkill(w)
  PROVE  Outcome(w)
<1> DEFINE c == command[w]
           tables == [core[w] EXCEPT !.memberSkills = With(@, {<<c.identity, c.skill>>})]
<1>1. /\ phase[w] = "loaded"
      /\ Applied(w, TRUE, tables) \/ Reject(w, core[w])
  BY DEF MemberSkill, Loaded, Accept
<1>2. Whole(core[w]) /\ Sound(core[w])
  BY InvCore
<1>3. Sound(tables)
  BY <1>2, StillSound DEF Whole, Tables
<1>4. KeptBy(command[w].op, core[w], tables)
  BY <1>2, GrowingDomains DEF Whole, Tables, KeptBy
<1>5. QED
  BY <1>1, <1>3, <1>4, OutcomeOf, RefusedKeeps

LEMMA TouchKeeps ==
  ASSUME RegistryInv, NEW w \in Workers, Touch(w)
  PROVE  Outcome(w)
<1>1. phase[w] = "loaded" /\ (Applied(w, TRUE, core[w]) \/ Reject(w, core[w]))
  BY DEF Touch, Loaded, Accept
<1>2. Sound(core[w]) /\ KeptBy(command[w].op, core[w], core[w])
  BY InvCore DEF KeptBy
<1>3. QED
  BY <1>1, <1>2, OutcomeOf, RefusedKeeps

LEMMA ClientLinkKeeps ==
  ASSUME RegistryInv, NEW w \in Workers, ClientLink(w)
  PROVE  Outcome(w)
<1> DEFINE c == command[w]
           linked == [core[w] EXCEPT !.clientLinks = With(@, {<<c.member, c.client>>})]
           tables == Refreshed(linked, c.member)
<1>1. /\ phase[w] = "loaded"
      /\ Applied(w, TRUE, tables) \/ Reject(w, core[w])
  BY DEF ClientLink, Loaded, Accept
<1>2. Whole(core[w]) /\ Sound(core[w])
  BY InvCore
<1>3. Sound(tables)
  BY <1>2, StillSound DEF Whole, Tables, Refreshed
<1>4. KeptBy(command[w].op, core[w], tables)
  BY <1>2, GrowingDomains DEF Whole, Tables, KeptBy, Refreshed
<1>5. QED
  BY <1>1, <1>3, <1>4, OutcomeOf, RefusedKeeps

LEMMA ClientUnlinkKeeps ==
  ASSUME RegistryInv, NEW w \in Workers, ClientUnlink(w)
  PROVE  Outcome(w)
<1> DEFINE c == command[w]
           unlinked == [core[w] EXCEPT !.clientLinks = Without(@, {<<c.member, c.client>>})]
           tables == Refreshed(unlinked, c.member)
<1>1. /\ phase[w] = "loaded" /\ command[w].op = "client.unlink"
      /\ Applied(w, TRUE, tables) \/ Applied(w, FALSE, unlinked)
  BY DEF ClientUnlink, Loaded, Accept, Reject
<1>2. Whole(core[w]) /\ Sound(core[w])
  BY InvCore
<1>3. Sound(tables) /\ Sound(unlinked)
  BY <1>2, StillSound DEF Whole, Tables, Refreshed
<1>4. KeptBy(command[w].op, core[w], tables) /\ KeptBy(command[w].op, core[w], unlinked)
  BY <1>1, <1>2 DEF Whole, Tables, KeptBy, Removers, Refreshed
<1>5. QED
  BY <1>1, <1>3, <1>4, OutcomeOf

LEMMA AssetDeleteKeeps ==
  ASSUME RegistryInv, NEW w \in Workers, AssetDelete(w)
  PROVE  Outcome(w)
<1> DEFINE a == command[w].asset
           k == core[w]
           tables == [core[w] EXCEPT
             !.assets      = Without(@, {a}),
             !.assetLinks  = Restrict(@, {l \in DOMAIN @ : l[2] # a}),
             !.assignments = [x \in DOMAIN @ |->
                               [@[x] EXCEPT !.assets = k.assignments[x].assets \ {a}]]]
<1>1. /\ phase[w] = "loaded" /\ command[w].op = "asset.delete"
      /\ Applied(w, TRUE, tables) \/ Reject(w, core[w])
  BY DEF AssetDelete, Loaded, Accept
<1>2. Whole(core[w]) /\ Sound(core[w])
  BY InvCore
<1>3. Sound(tables)
  BY <1>2, StillSound DEF Whole, Tables
<1>4. KeptBy(command[w].op, core[w], tables)
  BY <1>1, <1>2 DEF Whole, Tables, KeptBy, Removers
<1>5. QED
  BY <1>1, <1>3, <1>4, OutcomeOf, RefusedKeeps

\* The links of an assignment are replaced.
LEMMA EquippedKeeps ==
  ASSUME NEW k, Sound(k), NEW x, NEW assets,
         NEW op \in {"assignment.upsert", "assets.set", "asset.link", "asset.unlink"}
  PROVE  Sound(Equipped(k, x, assets)) /\ KeptBy(op, k, Equipped(k, x, assets))
<1>1. Whole(k)
  BY DEF Sound
<1>2. Sound(Equipped(k, x, assets))
  BY <1>1, StillSound DEF Whole, Tables, Equipped
<1>3. KeptBy(op, k, Equipped(k, x, assets))
  BY <1>1 DEF Whole, Tables, KeptBy, Removers, Equipped
<1>4. QED
  BY <1>2, <1>3

LEMMA AssignmentUpsertKeeps ==
  ASSUME RegistryInv, NEW w \in Workers, AssignmentUpsert(w)
  PROVE  Outcome(w)
<1> DEFINE c == command[w]
           k == core[w]
           held == IF c.assignment \in DOMAIN k.assignments
                   THEN k.assignments[c.assignment].assets ELSE {}
           assets == IF c.assets = Keep THEN held ELSE c.assets
           row == [mission |-> c.mission, identity |-> c.identity, assets |-> assets]
           put == [k EXCEPT !.assignments = Put(@, c.assignment, row)]
           tables == Equipped(put, c.assignment, assets)
<1>1. /\ phase[w] = "loaded" /\ command[w].op = "assignment.upsert"
      /\ Applied(w, TRUE, tables) \/ Reject(w, core[w])
  BY DEF AssignmentUpsert, Loaded, Accept
<1>2. Whole(core[w]) /\ Sound(core[w])
  BY InvCore
<1>3. Sound(put)
  BY <1>2, StillSound DEF Whole, Tables
<1>4. KeptBy(command[w].op, core[w], put)
  BY <1>2, GrowingDomains DEF Whole, Tables, KeptBy
<1>5. Sound(tables) /\ KeptBy(command[w].op, put, tables)
  BY <1>1, <1>3, EquippedKeeps
<1>6. KeptBy(command[w].op, core[w], tables)
  BY <1>4, <1>5 DEF KeptBy
<1>7. QED
  BY <1>1, <1>5, <1>6, OutcomeOf, RefusedKeeps

LEMMA AssignmentAssetsKeeps ==
  ASSUME RegistryInv, NEW w \in Workers, AssignmentAssets(w)
  PROVE  Outcome(w)
<1>1. /\ phase[w] = "loaded"
      /\ command[w].op \in {"assets.set", "asset.link", "asset.unlink"}
  BY DEF AssignmentAssets, Loaded
<1>2. \/ \E assets : Applied(w, TRUE, Equipped(core[w], command[w].assignment, assets))
      \/ Reject(w, core[w])
  BY DEF AssignmentAssets, Accept
<1>3. Sound(core[w])
  BY InvCore
<1>4. QED
  BY <1>1, <1>2, <1>3, EquippedKeeps, OutcomeOf, RefusedKeeps

LEMMA EamDeleteKeeps ==
  ASSUME RegistryInv, NEW w \in Workers, EamDelete(w)
  PROVE  Outcome(w)
<1>1. phase[w] = "loaded"
  BY DEF EamDelete, Loaded
<1>2. \/ \E e : Applied(w, TRUE, [core[w] EXCEPT !.eams[e].active = FALSE])
      \/ Reject(w, core[w])
  BY DEF EamDelete, Accept
<1>3. ASSUME NEW e
      PROVE  LET tables == [core[w] EXCEPT !.eams[e].active = FALSE]
             IN  Sound(tables) /\ KeptBy(command[w].op, core[w], tables)
  <2> DEFINE tables == [core[w] EXCEPT !.eams[e].active = FALSE]
  <2>1. Whole(core[w]) /\ Sound(core[w])
    BY InvCore
  <2>2. Sound(tables)
    BY <2>1, StillSound DEF Whole, Tables
  <2>3. KeptBy(command[w].op, core[w], tables)
    BY <2>1 DEF Whole, Tables, KeptBy
  <2>4. QED
    BY <2>2, <2>3
<1>4. QED
  BY <1>1, <1>2, <1>3, OutcomeOf, RefusedKeeps

--------------------------------------------------------------------------
(* Commands about missions, teams and their links.                         *)

LEMMA MissionUpsertKeeps ==
  ASSUME RegistryInv, NEW w \in Workers, MissionUpsert(w)
  PROVE  Outcome(w)
<1> DEFINE c == command[w]
           held == core[w].missions
           mission == IF c.mission \in DOMAIN held THEN held[c.mission] ELSE Fresh
           parent == IF c.parent = Keep THEN mission.parent ELSE c.parent
           row == [mission EXCEPT !.parent = parent]
           tables == [core[w] EXCEPT !.missions = Put(@, c.mission, row)]
<1>1. /\ phase[w] = "loaded"
      /\ c.op \in {"mission.upsert", "mission.patch", "parent.set"}
      /\ \/ ParentAllowed(held, c.mission, parent) /\ Applied(w, TRUE, tables)
         \/ Reject(w, core[w])
  BY DEF MissionUpsert, Loaded, Accept
<1>2. Whole(core[w]) /\ Sound(core[w]) /\ MissionsOK(held)
  BY InvCore
<1>3. c.mission \in Missions /\ c.parent \in Missions \cup {None, Keep}
  BY <1>1, InvCore, ParentRequest
<1>4. mission \in MissionRows
  BY <1>2 DEF MissionsOK, MissionRows, Fresh
<1>5. row \in MissionRows /\ row.parent = parent
  BY <1>3, <1>4 DEF MissionRows
<1>6. ASSUME ParentAllowed(held, c.mission, parent)
      PROVE  Sound(tables)
  <2>1. MissionsOK(Put(held, c.mission, row))
    BY <1>2, <1>3, <1>5, <1>6, TreeGrows
  <2>2. Whole(tables) /\ tables.missions = Put(held, c.mission, row)
        /\ tables.teams = core[w].teams /\ tables.teamLinks = core[w].teamLinks
    BY <1>2 DEF Whole, Tables
  <2>3. QED
    BY <1>2, <2>1, <2>2 DEF Sound
<1>7. KeptBy(command[w].op, core[w], tables)
  BY <1>2, GrowingDomains DEF Whole, Tables, KeptBy
<1>8. QED
  BY <1>1, <1>6, <1>7, OutcomeOf, RefusedKeeps

LEMMA MissionDeleteKeeps ==
  ASSUME RegistryInv, NEW w \in Workers, MissionDelete(w)
  PROVE  Outcome(w)
<1> DEFINE m == command[w].mission
           held == core[w].missions
           tables == [core[w] EXCEPT !.missions[m].deleted = TRUE]
<1>1. /\ phase[w] = "loaded"
      /\ (m \in DOMAIN held /\ Applied(w, TRUE, tables)) \/ Reject(w, core[w])
  BY DEF MissionDelete, Loaded, Accept
<1>2. Whole(core[w]) /\ Sound(core[w]) /\ MissionsOK(held)
  BY InvCore
<1>3. ASSUME m \in DOMAIN held
      PROVE  Sound(tables) /\ KeptBy(command[w].op, core[w], tables)
  <2>1. MissionsOK([held EXCEPT ![m].deleted = TRUE])
    BY <1>2, <1>3, TreeStays
  <2>2. /\ Whole(tables) /\ tables.missions = [held EXCEPT ![m].deleted = TRUE]
        /\ tables.teams = core[w].teams /\ tables.teamLinks = core[w].teamLinks
    BY <1>2 DEF Whole, Tables
  <2>3. KeptBy(command[w].op, core[w], tables)
    BY <1>2 DEF Whole, Tables, KeptBy
  <2>4. QED
    BY <1>2, <2>1, <2>2, <2>3 DEF Sound
<1>4. QED
  BY <1>1, <1>3, OutcomeOf, RefusedKeeps

LEMMA LogUpsertKeeps ==
  ASSUME RegistryInv, NEW w \in Workers, LogUpsert(w)
  PROVE  Outcome(w)
<1> DEFINE c == command[w]
           mission == IF c.mission = None THEN Default ELSE c.mission
           key == IF c.entry = None THEN number[w] ELSE c.entry
           made == [core[w] EXCEPT !.missions = Put(@, Default, Fresh)]
           housed == IF c.mission = None /\ Default \notin DOMAIN core[w].missions
                     THEN made ELSE core[w]
           tables == [housed EXCEPT !.logs    = Put(@, key, mission),
                                    !.changes = Put(@, number[w], mission)]
<1>1. /\ phase[w] = "loaded"
      /\ Applied(w, TRUE, tables) \/ Applied(w, FALSE, housed)
  BY DEF LogUpsert, Loaded, Accept, Reject
<1>2. Whole(core[w]) /\ Sound(core[w]) /\ MissionsOK(core[w].missions)
  BY InvCore
<1>3. Sound(made)
  <2>1. Fresh \in MissionRows /\ Fresh.parent = None
    BY DEF MissionRows, Fresh
  <2>2. ParentAllowed(core[w].missions, Default, Fresh.parent)
    BY <2>1 DEF ParentAllowed
  <2>3. MissionsOK(Put(core[w].missions, Default, Fresh))
    BY <1>2, <2>1, <2>2, TreeGrows, RegistryAssumption
  <2>4. /\ Whole(made) /\ made.missions = Put(core[w].missions, Default, Fresh)
        /\ made.teams = core[w].teams /\ made.teamLinks = core[w].teamLinks
    BY <1>2 DEF Whole, Tables
  <2>5. QED
    BY <1>2, <2>3, <2>4 DEF Sound
<1>4. KeptBy(command[w].op, core[w], made)
  BY <1>2, GrowingDomains DEF Whole, Tables, KeptBy
<1>5. Sound(housed) /\ Whole(housed) /\ KeptBy(command[w].op, core[w], housed)
  BY <1>2, <1>3, <1>4 DEF KeptBy, Sound
<1>6. Sound(tables)
  <2> HIDE DEF housed
  <2>1. QED
    BY <1>5, StillSound DEF Whole, Tables
<1>7. KeptBy(command[w].op, housed, tables)
  <2> HIDE DEF housed
  <2>1. QED
    BY <1>5, GrowingDomains DEF Whole, Tables, KeptBy
<1>8. KeptBy(command[w].op, core[w], tables)
  BY <1>5, <1>7 DEF KeptBy
<1>9. QED
  BY <1>1, <1>5, <1>6, <1>8, OutcomeOf

\* The links of a team are replaced by links to missions.
LEMMA RelinkedKeeps ==
  ASSUME NEW k, Sound(k), NEW t \in Teams, NEW missions \in SUBSET Missions,
         NEW op, op \in Removers["teamLinks"] \/ MissionsOf(k, t) \subseteq missions
  PROVE  Sound(Relinked(k, t, missions)) /\ KeptBy(op, k, Relinked(k, t, missions))
<1> DEFINE f == k.teamLinks
           others == {l \in DOMAIN f : l[2] # t}
           new == With(Restrict(f, others), missions \X {t})
           tables == Relinked(k, t, missions)
<1>1. Whole(k) /\ DOMAIN f \subseteq Missions \X Teams
  BY DEF Sound, LinksOK
<1>2. /\ Whole(tables) /\ tables.teamLinks = new
      /\ \A x \in Tables \ {"teamLinks"} : tables[x] = k[x]
  BY <1>1 DEF Whole, Tables, Relinked
<1>3. DOMAIN new = others \cup (missions \X {t})
  BY DEF With, Written, Restrict
<1>4. LinksOK(tables.teamLinks)
  <2>1. missions \X {t} \subseteq Missions \X Teams
    OBVIOUS
  <2>2. others \subseteq Missions \X Teams
    BY <1>1
  <2> HIDE DEF f, others, new, tables
  <2>3. QED
    BY <1>2, <1>3, <2>1, <2>2 DEF LinksOK
<1>5. Sound(tables)
  <2>1. tables.missions = k.missions /\ tables.teams = k.teams
    BY <1>2 DEF Tables
  <2>2. QED
    BY <1>2, <1>4, <2>1 DEF Sound
<1>6. ASSUME MissionsOf(k, t) \subseteq missions
      PROVE  DOMAIN f \subseteq DOMAIN new
  <2>1. ASSUME NEW l \in DOMAIN f, l[2] = t
        PROVE  l \in missions \X {t}
    <3>1. l = <<l[1], t>> /\ l[1] \in Missions
      BY <1>1, <2>1
    <3>2. l[1] \in missions
      BY <1>6, <2>1, <3>1 DEF MissionsOf
    <3>3. QED
      BY <3>1, <3>2
  <2>2. QED
    BY <1>3, <2>1
<1>7. ASSUME NEW x \in Tables
      PROVE  op \in Removers[x] \/ DOMAIN k[x] \subseteq DOMAIN tables[x]
  <2>1. CASE x = "teamLinks"
    BY <1>2, <1>6, <2>1
  <2>2. CASE x # "teamLinks"
    BY <1>2, <2>2
  <2>3. QED
    BY <2>1, <2>2
<1>8. QED
  BY <1>5, <1>7 DEF KeptBy

\* A team is written whose first mission is one.
LEMMA TeamWrittenKeeps ==
  ASSUME NEW k, Sound(k), NEW t, NEW row, row.first \in Missions \cup {None}, NEW op
  PROVE  LET tables == [k EXCEPT !.teams = Put(@, t, row)]
         IN  Sound(tables) /\ KeptBy(op, k, tables)
<1> DEFINE tables == [k EXCEPT !.teams = Put(@, t, row)]
<1>1. Whole(k) /\ TeamsOK(k.teams)
  BY DEF Sound
<1>2. /\ Whole(tables) /\ tables.teams = Put(k.teams, t, row)
      /\ \A x \in Tables \ {"teams"} : tables[x] = k[x]
  BY <1>1 DEF Whole, Tables
<1>3. TeamsOK(tables.teams)
  BY <1>1, <1>2 DEF TeamsOK, Put, Written
<1>4. Sound(tables)
  <2>1. tables.missions = k.missions /\ tables.teamLinks = k.teamLinks
    BY <1>2 DEF Tables
  <2>2. QED
    BY <1>2, <1>3, <2>1 DEF Sound
<1>5. DOMAIN k.teams \subseteq DOMAIN tables.teams
  BY <1>2 DEF Put, Written
<1>6. ASSUME NEW x \in Tables
      PROVE  DOMAIN k[x] \subseteq DOMAIN tables[x]
  <2>1. CASE x = "teams"
    BY <1>5, <2>1
  <2>2. CASE x # "teams"
    BY <1>2, <2>2
  <2>3. QED
    BY <2>1, <2>2
<1>7. QED
  BY <1>4, <1>6 DEF KeptBy

LEMMA TeamUpsertKeeps ==
  ASSUME RegistryInv, NEW w \in Workers, TeamUpsert(w)
  PROVE  Outcome(w)
<1> DEFINE c == command[w]
           k == core[w]
           team == IF c.team \in DOMAIN k.teams THEN k.teams[c.team] ELSE NewTeam
           relinked == IF c.missions = Keep THEN k ELSE Relinked(k, c.team, c.missions)
           same == [k EXCEPT !.teams = Put(@, c.team, team)]
           row(f) == [missions |-> c.missions, first |-> f]
           tables(f) == [relinked EXCEPT !.teams = Put(@, c.team, row(f))]
<1>1. phase[w] = "loaded" /\ c.op = "team.upsert"
  BY DEF TeamUpsert, Loaded
<1>2. c.team \in Teams /\ c.missions \in (SUBSET Missions) \cup {Keep}
  BY <1>1, InvCore, TeamUpsertRequest
<1>3. Sound(k)
  BY InvCore
<1>4. \/ Applied(w, FALSE, k)
      \/ Applied(w, FALSE, relinked)
      \/ Applied(w, TRUE, same)
      \/ c.missions # Keep /\ \E f \in Firsts(c.missions) : Applied(w, TRUE, tables(f))
  BY DEF TeamUpsert, Accept, Reject
<1>5. Sound(relinked) /\ KeptBy(c.op, k, relinked)
  <2>1. CASE c.missions = Keep
    BY <1>3, <2>1 DEF KeptBy
  <2>2. CASE c.missions # Keep
    <3>1. c.op \in Removers["teamLinks"]
      BY <1>1 DEF Removers, Tables
    <3>2. QED
      BY <1>2, <1>3, <2>2, <3>1, RelinkedKeeps
  <2>3. QED
    BY <2>1, <2>2
<1>6. Sound(same) /\ KeptBy(c.op, k, same)
  <2>1. team.first \in Missions \cup {None}
    BY <1>3 DEF Sound, TeamsOK, NewTeam
  <2>2. QED
    BY <1>3, <2>1, TeamWrittenKeeps
<1>7. ASSUME c.missions # Keep, NEW f \in Firsts(c.missions)
      PROVE  Sound(tables(f)) /\ KeptBy(c.op, k, tables(f))
  <2> HIDE DEF relinked
  <2>1. row(f).first \in Missions \cup {None}
    BY <1>2, <1>7 DEF Firsts
  <2>2. Sound(tables(f)) /\ KeptBy(c.op, relinked, tables(f))
    BY <1>5, <2>1, TeamWrittenKeeps
  <2>3. QED
    BY <1>5, <2>2 DEF KeptBy
<1>8. KeptBy(c.op, k, k)
  BY DEF KeptBy
<1>9. QED
  BY <1>1, <1>3, <1>4, <1>5, <1>6, <1>7, <1>8, OutcomeOf

LEMMA TeamDeleteKeeps ==
  ASSUME RegistryInv, NEW w \in Workers, TeamDelete(w)
  PROVE  Outcome(w)
<1> DEFINE t == command[w].team
           k == core[w]
           teams == Without(k.teams, {t})
           links == Restrict(k.teamLinks, {l \in DOMAIN k.teamLinks : l[2] # t})
           tables == [k EXCEPT
             !.teams     = Without(@, {t}),
             !.members   = [u \in DOMAIN @ |-> IF @[u].team = t
                                               THEN [@[u] EXCEPT !.team = None] ELSE @[u]],
             !.teamLinks = Restrict(@, {l \in DOMAIN @ : l[2] # t})]
<1>1. /\ phase[w] = "loaded" /\ command[w].op = "team.delete"
      /\ Applied(w, TRUE, tables) \/ Reject(w, core[w])
  BY DEF TeamDelete, Loaded, Accept
<1>2. /\ Whole(core[w]) /\ MissionsOK(core[w].missions)
      /\ LinksOK(core[w].teamLinks) /\ TeamsOK(core[w].teams)
  BY InvCore
<1>3. /\ Whole(tables) /\ tables.missions = k.missions
      /\ tables.teams = teams /\ tables.teamLinks = links
  BY <1>2 DEF Whole, Tables
<1>4. LinksOK(links)
  BY <1>2 DEF LinksOK, Restrict
<1>5. TeamsOK(teams)
  BY <1>2 DEF TeamsOK, Without, Restrict
<1>6. Sound(tables)
  BY <1>2, <1>3, <1>4, <1>5 DEF Sound
<1>7. KeptBy(command[w].op, core[w], tables)
  BY <1>1, <1>2 DEF Whole, Tables, KeptBy, Removers
<1>8. QED
  BY <1>1, <1>6, <1>7, OutcomeOf, RefusedKeeps

LEMMA TeamMissionKeeps ==
  ASSUME RegistryInv, NEW w \in Workers, TeamMission(w)
  PROVE  Outcome(w)
<1> DEFINE c == command[w]
           k == core[w]
           linked == MissionsOf(k, c.team)
           first == IF c.team \in DOMAIN k.teams THEN k.teams[c.team].first ELSE None
           held == linked \cup ({first} \ {None})
           missions == IF c.op = "team.link" THEN held \cup {c.mission}
                                             ELSE held \ {c.mission}
           ahead == IF linked \cap missions # {} THEN linked \cap missions
                    ELSE IF held \cap missions # {} THEN held \cap missions ELSE missions
           relinked == Relinked(k, c.team, missions)
           row(f) == [missions |-> missions, first |-> f]
           tables(f) == [relinked EXCEPT !.teams[c.team] = row(f)]
<1>1. /\ phase[w] = "loaded" /\ c.op \in {"team.link", "team.unlink"}
      /\ \/ Reject(w, k)
         \/ Applied(w, FALSE, relinked)
         \/ \E f \in Firsts(ahead) : Applied(w, TRUE, tables(f))
  BY DEF TeamMission, Loaded, Accept, Reject
<1>2. c.team \in Teams /\ c.mission \in Missions
  BY <1>1, InvCore, TeamMissionRequest
<1>3. Sound(k) /\ TeamsOK(k.teams)
  BY InvCore
<1>4. held \subseteq Missions
  BY <1>3 DEF MissionsOf, TeamsOK
<1>5. missions \subseteq Missions
  BY <1>2, <1>4
<1>6. c.op \in Removers["teamLinks"] \/ linked \subseteq missions
  <2>1. CASE c.op = "team.link"
    BY <2>1
  <2>2. CASE c.op = "team.unlink"
    BY <2>2 DEF Removers, Tables
  <2>3. QED
    BY <1>1, <2>1, <2>2
<1>7. Sound(relinked) /\ KeptBy(c.op, k, relinked)
  <2> HIDE DEF missions
  <2>1. QED
    BY <1>2, <1>3, <1>5, <1>6, RelinkedKeeps
<1>8. ASSUME NEW f \in Firsts(ahead)
      PROVE  Sound(tables(f)) /\ KeptBy(c.op, k, tables(f))
  <2>1. ahead \subseteq Missions
    BY <1>5
  <2>2. f \in Missions \cup {None}
    <3> HIDE DEF ahead
    <3>1. QED
      BY <1>8, <2>1 DEF Firsts
  <2> HIDE DEF relinked, missions
  <2>3. Whole(relinked) /\ TeamsOK(relinked.teams)
    BY <1>7 DEF Sound
  <2>4. /\ Whole(tables(f)) /\ tables(f).missions = relinked.missions
        /\ tables(f).teamLinks = relinked.teamLinks
        /\ tables(f).teams = [relinked.teams EXCEPT ![c.team] = row(f)]
    BY <2>3 DEF Whole, Tables
  <2>5. TeamsOK(tables(f).teams)
    BY <2>2, <2>3, <2>4 DEF TeamsOK
  <2>6. Sound(tables(f))
    BY <1>7, <2>4, <2>5 DEF Sound
  <2>7. KeptBy(c.op, relinked, tables(f))
    BY <2>3 DEF Whole, Tables, KeptBy
  <2>8. QED
    BY <1>7, <2>6, <2>7 DEF KeptBy
<1>9. QED
  BY <1>1, <1>7, <1>8, OutcomeOf, RefusedKeeps

\* A team and a member are added, or neither.
LEMMA ProvisionedKeeps ==
  ASSUME NEW k, Sound(k), NEW c, NEW op
  PROVE  LET tables == Provisioned(k, c).tables
         IN  Sound(tables) /\ KeptBy(op, k, tables)
<1> DEFINE made == [k EXCEPT !.teams = Put(@, c.team, NewTeam)]
           team == IF c.team \in Canonical \ DOMAIN k.teams THEN made ELSE k
           row == [team |-> c.team, identity |-> c.source, clients |-> {}]
           full == [team EXCEPT !.members = Put(@, c.member, row)]
<1>1. Sound(made) /\ KeptBy(op, k, made)
  <2>1. NewTeam.first \in Missions \cup {None}
    BY DEF NewTeam
  <2>2. QED
    BY <2>1, TeamWrittenKeeps
<1>2. Sound(team) /\ KeptBy(op, k, team)
  BY <1>1 DEF KeptBy
<1>3. Sound(full) /\ KeptBy(op, k, full)
  <2> HIDE DEF team
  <2>1. Whole(team)
    BY <1>2 DEF Sound
  <2>2. Sound(full)
    BY <1>2, <2>1, StillSound DEF Whole, Tables
  <2>3. KeptBy(op, team, full)
    BY <2>1, GrowingDomains DEF Whole, Tables, KeptBy
  <2>4. QED
    BY <1>2, <2>2, <2>3 DEF KeptBy
<1>4. Provisioned(k, c).tables \in {k, team, full}
  BY DEF Provisioned
<1>5. Sound(k) /\ KeptBy(op, k, k)
  BY DEF KeptBy
<1>6. QED
  BY <1>2, <1>3, <1>4, <1>5

LEMMA EamUpsertKeeps ==
  ASSUME RegistryInv, NEW w \in Workers, EamUpsert(w)
  PROVE  Outcome(w)
<1> DEFINE k == Provisioned(core[w], command[w]).tables
           tables(key, row) == [k EXCEPT !.eams = Put(@, key, row)]
<1>1. phase[w] = "loaded"
  BY DEF EamUpsert, Loaded
<1>2. Applied(w, FALSE, k) \/ \E key, row : Applied(w, TRUE, tables(key, row))
  BY DEF EamUpsert, Accept, Reject
<1>3. Sound(k) /\ KeptBy(command[w].op, core[w], k)
  BY InvCore, ProvisionedKeeps
<1>4. ASSUME NEW key, NEW row
      PROVE  Sound(tables(key, row)) /\ KeptBy(command[w].op, core[w], tables(key, row))
  <2> HIDE DEF k
  <2>1. Whole(k)
    BY <1>3 DEF Sound
  <2>2. Sound(tables(key, row))
    BY <1>3, <2>1, StillSound DEF Whole, Tables
  <2>3. KeptBy(command[w].op, k, tables(key, row))
    BY <2>1, GrowingDomains DEF Whole, Tables, KeptBy
  <2>4. QED
    BY <1>3, <2>2, <2>3 DEF KeptBy
<1>5. QED
  BY <1>1, <1>2, <1>3, <1>4, OutcomeOf

\* Whatever the command, carrying it out keeps what it may not remove.
LEMMA ApplyKeeps ==
  ASSUME RegistryInv, NEW w \in Workers, Apply(w)
  PROVE  Outcome(w)
BY MissionUpsertKeeps, MissionDeleteKeeps, TouchKeeps, PlaceCreateKeeps, PlaceDeleteKeeps,
   PlaceLinkKeeps, PlaceUnlinkKeeps, ChangeUpsertKeeps, LogUpsertKeeps, TeamUpsertKeeps,
   TeamDeleteKeeps, TeamMissionKeeps, MemberUpsertKeeps, MemberDeleteKeeps, ClientLinkKeeps,
   ClientUnlinkKeeps, AssetUpsertKeeps, AssetDeleteKeeps, SkillUpsertKeeps, MemberSkillKeeps,
   AssignmentUpsertKeeps, AssignmentAssetsKeeps, EamUpsertKeeps, EamDeleteKeeps
   DEF Apply

--------------------------------------------------------------------------
(* The invariant is inductive.                                             *)

LEMMA EmptyIsSound == Sound(Empty)
<1>1. /\ Whole(Empty) /\ Empty.missions = << >> /\ Empty.teams = << >>
      /\ Empty.teamLinks = << >>
  BY DEF Whole, Empty, Tables
<1>2. DOMAIN << >> = {}
  OBVIOUS
<1>3. QED
  BY <1>1, <1>2, EmptyIsATree DEF Sound, LinksOK, TeamsOK

\* The outcome of a save is sound, and what is missing in it was to go.
LEMMA SaveKeeps ==
  ASSUME NEW stored, Sound(stored), NEW old, NEW new, Sound(new), NEW op,
         KeptBy(op, old, new)
  PROVE  LET saved == [t \in Tables |-> Delta(stored[t], old[t], new[t])]
         IN  Sound(saved) /\ KeptBy(op, stored, saved)
<1> DEFINE kept(t) == Without(stored[t], DOMAIN old[t] \ DOMAIN new[t])
           saved == [t \in Tables |-> Delta(stored[t], old[t], new[t])]
<1>1. \A t \in Tables :
        /\ DOMAIN saved[t] = (DOMAIN stored[t] \ (DOMAIN old[t] \ DOMAIN new[t]))
                             \cup DOMAIN new[t]
        /\ \A x \in DOMAIN new[t] : saved[t][x] = new[t][x]
        /\ \A x \in DOMAIN saved[t] \ DOMAIN new[t] :
             x \in DOMAIN stored[t] /\ saved[t][x] = stored[t][x]
  BY DEF Delta, Written, Without, Restrict
<1>2. KeptBy(op, stored, saved)
  BY <1>1 DEF KeptBy
<1>3. MissionsOK(saved.missions)
  <2>1. op \notin Removers["missions"] /\ "missions" \in Tables
    BY DEF Removers, Tables
  <2>2. DOMAIN old["missions"] \ DOMAIN new["missions"] = {}
    BY <2>1 DEF KeptBy
  <2>3. stored.missions = [m \in DOMAIN stored.missions |-> stored.missions[m]]
    BY DEF Sound, MissionsOK
  <2>4. kept("missions") = stored.missions
    BY <2>2, <2>3 DEF Without, Restrict
  <2>5. saved.missions = Written(stored.missions, new.missions)
    BY <2>1, <2>4 DEF Delta
  <2>6. QED
    BY <2>5, TreesMerge DEF Sound
<1>4. LinksOK(saved.teamLinks)
  <2>1. "teamLinks" \in Tables
    BY DEF Tables
  <2>2. DOMAIN saved.teamLinks \subseteq DOMAIN stored.teamLinks \cup DOMAIN new.teamLinks
    BY <1>1, <2>1
  <2>3. QED
    BY <2>2 DEF Sound, LinksOK
<1>5. TeamsOK(saved.teams)
  <2>1. "teams" \in Tables
    BY DEF Tables
  <2>2. ASSUME NEW t \in DOMAIN saved.teams
        PROVE  saved.teams[t].first \in Missions \cup {None}
    <3>1. CASE t \in DOMAIN new.teams
      BY <1>1, <2>1, <3>1 DEF Sound, TeamsOK
    <3>2. CASE t \notin DOMAIN new.teams
      BY <1>1, <2>1, <2>2, <3>2 DEF Sound, TeamsOK
    <3>3. QED
      BY <3>1, <3>2
  <2>3. QED
    BY <2>2 DEF TeamsOK
<1>6. QED
  BY <1>2, <1>3, <1>4, <1>5 DEF Sound, Whole

LEMMA StartsSound == Init => RegistryInv
<1> SUFFICES ASSUME Init PROVE RegistryInv
  OBVIOUS
<1>1. TablesOK(store) /\ Tree(store.missions)
  BY RegistryAssumption DEF Init
<1>2. MissionsOK(store.missions)
  <2>1. /\ store.missions = [m \in DOMAIN store.missions |-> store.missions[m]]
        /\ DOMAIN store.missions \subseteq Missions
        /\ Range(store.missions) \subseteq MissionRows
    BY <1>1 DEF TablesOK, IsTable, MissionRows
  <2>2. QED
    BY <1>1, <2>1 DEF MissionsOK, Range
<1>3. LinksOK(store.teamLinks)
  BY <1>1 DEF TablesOK, IsTable, LinksOK
<1>4. TeamsOK(store.teams)
  <2>1. Range(store.teams) \subseteq [missions : SUBSET Missions, first : Missions \cup {None}]
    BY <1>1 DEF TablesOK, IsTable
  <2>2. \A t \in DOMAIN store.teams : store.teams[t] \in Range(store.teams)
    BY DEF Range
  <2>3. QED
    BY <2>1, <2>2 DEF TeamsOK
<1>5. Sound(store)
  BY <1>1, <1>2, <1>3, <1>4 DEF Sound, Whole, TablesOK
<1>6. QED
  BY <1>5, EmptyIsSound DEF Init, RegistryInv

LEMMA BeginKeeps ==
  ASSUME RegistryInv, NEW w \in Workers, NEW c \in Traffics[traffic].requests, Begin(w, c)
  PROVE  RegistryInv' /\ store' = store
<1>1. c \in AllRequests
  BY RegistryAssumption DEF RegistryInv
<1>2. \A v \in Workers \ {w} : phase'[v] = phase[v] /\ command'[v] = command[v]
  BY DEF Begin, RegistryInv
<1>3. phase'[w] = "reading" /\ command'[w] = c
  BY DEF Begin, RegistryInv
<1>4. /\ traffic' = traffic /\ core' = core /\ before' = before /\ store' = store
      /\ phase' = [v \in Workers |-> phase'[v]] /\ command' = [v \in Workers |-> command'[v]]
  BY DEF Begin, RegistryInv
<1>5. ASSUME NEW v \in Workers
      PROVE  /\ phase'[v] # "idle" => command'[v] \in AllRequests
             /\ phase'[v] = "loaded" => core[v] = before[v]
             /\ phase'[v] = "applied" => KeptBy(command'[v].op, before[v], core[v])
  <2>1. CASE v = w
    BY <1>1, <1>3, <2>1
  <2>2. CASE v # w
    BY <1>2, <2>2 DEF RegistryInv
  <2>3. QED
    BY <2>1, <2>2
<1>6. QED
  BY <1>4, <1>5 DEF RegistryInv, Sound, Whole, KeptBy

LEMMA ReadKeeps ==
  ASSUME RegistryInv, NEW w \in Workers, NEW n \in DOMAIN Statements, Read(w, n)
  PROVE  RegistryInv' /\ store' = store
<1> DEFINE now == {Statements[i] : i \in (read[w] + 1) .. n}
           table == [t \in Tables |-> IF t \in now THEN store[t] ELSE before[w][t]]
<1>1. /\ store' = store /\ traffic' = traffic /\ command' = command
      /\ before' = [before EXCEPT ![w] = table]
      /\ \/ /\ phase' = [phase EXCEPT ![w] = "loaded"]
            /\ core' = [core EXCEPT ![w] = before'[w]]
         \/ phase' = phase /\ core' = core
      /\ phase[w] = "reading"
  BY DEF Read
<1>2. Sound(table)
  <2>1. Sound(store) /\ Sound(before[w])
    BY DEF RegistryInv
  <2> HIDE DEF now
  <2>2. /\ Whole(table) /\ table.missions \in {store.missions, before[w].missions}
        /\ table.teams \in {store.teams, before[w].teams}
        /\ table.teamLinks \in {store.teamLinks, before[w].teamLinks}
    BY DEF Whole, Tables
  <2> HIDE DEF table
  <2>3. QED
    BY <2>1, <2>2 DEF Sound
<1> HIDE DEF table
<1>3. ASSUME NEW v \in Workers
      PROVE  /\ phase'[v] # "idle" => command'[v] \in AllRequests
             /\ Sound(core'[v]) /\ Sound(before'[v])
             /\ phase'[v] = "loaded" => core'[v] = before'[v]
             /\ phase'[v] = "applied" => KeptBy(command'[v].op, before'[v], core'[v])
  <2>1. CASE v = w
    BY <1>1, <1>2, <2>1 DEF RegistryInv
  <2>2. CASE v # w
    BY <1>1, <2>2 DEF RegistryInv
  <2>3. QED
    BY <2>1, <2>2
<1>4. /\ phase' = [v \in Workers |-> phase'[v]] /\ core' = [v \in Workers |-> core'[v]]
      /\ before' = [v \in Workers |-> before'[v]]
  BY <1>1 DEF RegistryInv
<1>5. QED
  BY <1>1, <1>3, <1>4 DEF RegistryInv, Sound, Whole, KeptBy

LEMMA OutcomeKeeps ==
  ASSUME RegistryInv, NEW w \in Workers, Outcome(w)
  PROVE  RegistryInv' /\ store' = store
<1> PICK accepted, tables : /\ phase[w] = "loaded" /\ Applied(w, accepted, tables)
                            /\ Keeps(w, tables)
  BY DEF Outcome
<1>1. /\ store' = store /\ traffic' = traffic /\ command' = command /\ before' = before
      /\ phase' = [phase EXCEPT ![w] = "applied"] /\ core' = [core EXCEPT ![w] = tables]
  BY DEF Applied
<1>2. Sound(tables) /\ KeptBy(command[w].op, before[w], tables)
  BY DEF Keeps, RegistryInv
<1>3. ASSUME NEW v \in Workers
      PROVE  /\ phase'[v] # "idle" => command'[v] \in AllRequests
             /\ Sound(core'[v])
             /\ phase'[v] = "loaded" => core'[v] = before'[v]
             /\ phase'[v] = "applied" => KeptBy(command'[v].op, before'[v], core'[v])
  <2>1. CASE v = w
    BY <1>1, <1>2, <2>1 DEF RegistryInv
  <2>2. CASE v # w
    BY <1>1, <2>2 DEF RegistryInv
  <2>3. QED
    BY <2>1, <2>2
<1>4. phase' = [v \in Workers |-> phase'[v]] /\ core' = [v \in Workers |-> core'[v]]
  BY <1>1 DEF RegistryInv
<1>5. QED
  BY <1>1, <1>3, <1>4 DEF RegistryInv, Sound, Whole, KeptBy

LEMMA IdleKeeps ==
  ASSUME RegistryInv, NEW w \in Workers, Idle(w), traffic' = traffic, Sound(store')
  PROVE  RegistryInv'
<1>1. /\ phase' = [phase EXCEPT ![w] = "idle"] /\ command' = [command EXCEPT ![w] = Nobody]
      /\ core' = [core EXCEPT ![w] = Empty] /\ before' = [before EXCEPT ![w] = Empty]
  BY DEF Idle
<1>2. ASSUME NEW v \in Workers
      PROVE  /\ phase'[v] # "idle" => command'[v] \in AllRequests
             /\ Sound(core'[v]) /\ Sound(before'[v])
             /\ phase'[v] = "loaded" => core'[v] = before'[v]
             /\ phase'[v] = "applied" => KeptBy(command'[v].op, before'[v], core'[v])
  <2>1. CASE v = w
    BY <1>1, <2>1, EmptyIsSound DEF RegistryInv
  <2>2. CASE v # w
    BY <1>1, <2>2 DEF RegistryInv
  <2>3. QED
    BY <2>1, <2>2
<1>3. /\ phase' = [v \in Workers |-> phase'[v]] /\ core' = [v \in Workers |-> core'[v]]
      /\ before' = [v \in Workers |-> before'[v]] /\ command' = [v \in Workers |-> command'[v]]
  BY <1>1 DEF RegistryInv
<1>4. QED
  BY <1>2, <1>3 DEF RegistryInv, Sound, Whole, KeptBy

\* Every step keeps the invariant, and takes out of the store only what a worker
\* that saves was to remove.
LEMMA StepKeeps ==
  ASSUME RegistryInv, Next
  PROVE  /\ RegistryInv'
         /\ \/ store' = store
            \/ \E w \in Workers : phase[w] = "applied" /\ KeptBy(command[w].op, store, store')
<1>1. ASSUME NEW w \in Workers, Save(w)
      PROVE  RegistryInv' /\ phase[w] = "applied" /\ KeptBy(command[w].op, store, store')
  <2>1. /\ phase[w] = "applied" /\ traffic' = traffic /\ Idle(w)
        /\ store' = [t \in Tables |-> Delta(store[t], before[w][t], core[w][t])]
    BY <1>1 DEF Save
  <2>2. Sound(store') /\ KeptBy(command[w].op, store, store')
    BY <2>1, SaveKeeps DEF RegistryInv
  <2>3. QED
    BY <2>1, <2>2, IdleKeeps
<1>2. ASSUME NEW w \in Workers, Lose(w)
      PROVE  RegistryInv' /\ store' = store
  <2>1. store' = store /\ traffic' = traffic /\ Idle(w)
    BY <1>2 DEF Lose
  <2>2. Sound(store')
    BY <2>1 DEF RegistryInv
  <2>3. QED
    BY <2>1, <2>2, IdleKeeps
<1>3. QED
  BY <1>1, <1>2, BeginKeeps, ReadKeeps, ApplyKeeps, OutcomeKeeps DEF Next

LEMMA StutterKeeps == RegistryInv /\ UNCHANGED vars => RegistryInv'
BY DEF RegistryInv, vars, local, Sound, Whole, KeptBy

\* The invariant that carries the theorems: the missions of the store and of every
\* worker form a tree, and no worker misses rows that its command leaves alone.
THEOREM Inductive == Spec => []RegistryInv
<1>1. RegistryInv /\ [Next]_vars => RegistryInv'
  BY StepKeeps, StutterKeeps
<1>2. QED
  BY <1>1, StartsSound, PTL DEF Spec

\* However saves overlap, no mission is its own ancestor, although each worker looks
\* for a cycle only in what it has read (ensure_parent_chain_acyclic,
\* save_payload_delta).
THEOREM MissionsStayATree == Spec => []MissionsFormATree
<1>1. RegistryInv => MissionsFormATree
  BY DEF RegistryInv, Sound, MissionsOK, MissionsFormATree
<1>2. QED
  BY <1>1, Inductive, PTL

\* However saves overlap, a row leaves the store only when a command saves that was to
\* remove rows of its table (save_payload_delta).
THEOREM RowsAreNotSweptAway == Spec => RemovedByItsCommandOnly
<1> DEFINE Kept ==
      \A t \in Tables :
        DOMAIN store[t] \subseteq DOMAIN store'[t]
        \/ \E w \in Workers : phase[w] = "applied" /\ command[w].op \in Removers[t]
<1>1. RegistryInv /\ Next => Kept
  <2>1. SUFFICES ASSUME RegistryInv, Next PROVE Kept
    OBVIOUS
  <2>2. CASE store' = store
    BY <2>2
  <2>3. CASE \E w \in Workers : phase[w] = "applied" /\ KeptBy(command[w].op, store, store')
    BY <2>3 DEF KeptBy
  <2>4. QED
    BY <2>1, <2>2, <2>3, StepKeeps
<1>2. RegistryInv /\ [Next]_vars => [Kept]_vars
  BY <1>1
<1>3. QED
  BY <1>2, Inductive, PTL DEF Spec, RemovedByItsCommandOnly

----------------------------------------------------------------------------
(***************************************************************************)
(* Reports.  As long as no save has overlapped another, a callsign and a   *)
(* member have one status snapshot at most that is not deleted: a worker   *)
(* that is not behind holds the snapshots that are in the store, and its   *)
(* command has compared the new snapshot with all others.                  *)
(***************************************************************************)

ReportsOK(f) ==
  /\ f = [e \in DOMAIN f |-> f[e]] /\ None \notin DOMAIN f
  /\ \A e \in DOMAIN f : "active" \in DOMAIN f[e]
  /\ OneReport(f)

\* The part about counters, which says which tables a worker has read.
Counted ==
  /\ commands \in 0 .. MaxCommands
  /\ phase = [w \in Workers |-> phase[w]]
  /\ number = [w \in Workers |-> number[w]] /\ read = [w \in Workers |-> read[w]]
  /\ behind = [w \in Workers |-> behind[w]]
  /\ \A w \in Workers :
       /\ read[w] \in 0 .. Len(Statements)
       /\ phase[w] = "idle" => read[w] = 0
       /\ phase[w] # "idle" => number[w] \in Numbers
       /\ phase[w] \in {"loaded", "applied"} => read[w] > 0

\* What a worker that is not behind has read and made of the snapshots.
InStep(w) ==
  /\ phase[w] = "reading" /\ read[w] >= 5 => before[w].eams = store.eams
  /\ phase[w] \in {"loaded", "applied"} => before[w].eams = store.eams
  /\ phase[w] = "applied" => ReportsOK(core[w].eams)

Serial ==
  ~overlapped =>
    /\ ReportsOK(store.eams)
    /\ \A w \in Workers : ~behind[w] => InStep(w)

ReportInv == RegistryInv /\ Counted /\ Serial

LEMMA FifthTable ==
  Len(Statements) = 15 /\ Statements[5] = "eams" /\ "eams" \in Tables
BY DEF Statements, Tables

\* A snapshot that a command may write is the only one of its callsign and member.
LEMMA AllowedIsAlone ==
  ASSUME NEW f, ReportsOK(f), NEW c, NEW row, NEW key, key # None,
         row.callsign = c.callsign, row.member = c.member, "active" \in DOMAIN row,
         NEW mine, NEW theirs,
         theirs # None => theirs = mine, mine # None => key = mine,
         \A e \in DOMAIN f : f[e].active /\ f[e].member = c.member => e = mine,
         \A e \in DOMAIN f : f[e].active /\ f[e].callsign = c.callsign => e = theirs
  PROVE  ReportsOK(Put(f, key, row))
<1> DEFINE g == Put(f, key, row)
<1>1. /\ DOMAIN g = DOMAIN f \cup {key} /\ g[key] = row
      /\ \A e \in DOMAIN f \ {key} : g[e] = f[e]
  BY DEF Put, Written
<1>2. g = [e \in DOMAIN g |-> g[e]]
  BY DEF Put, Written
<1>3. ASSUME NEW e \in DOMAIN f, f[e].active,
             f[e].member = c.member \/ f[e].callsign = c.callsign
      PROVE  e = key
  BY <1>3 DEF ReportsOK
<1> HIDE DEF g
<1>4. ASSUME NEW x \in DOMAIN g, NEW y \in DOMAIN g, g[x].active, g[y].active,
             g[x].callsign = g[y].callsign \/ g[x].member = g[y].member
      PROVE  x = y
  <2>1. CASE x = key
    BY <1>1, <1>3, <1>4, <2>1
  <2>2. CASE y = key
    BY <1>1, <1>3, <1>4, <2>2
  <2>3. CASE x # key /\ y # key
    BY <1>1, <1>4, <2>3 DEF ReportsOK, OneReport
  <2>4. QED
    BY <2>1, <2>2, <2>3
<1>5. OneReport(g) /\ None \notin DOMAIN g
  BY <1>1, <1>4 DEF ReportsOK, OneReport
<1>6. \A e \in DOMAIN g : "active" \in DOMAIN g[e]
  BY <1>1 DEF ReportsOK
<1>7. ReportsOK(g)
  BY <1>2, <1>5, <1>6 DEF ReportsOK
<1>8. QED
  BY <1>7 DEF g

LEMMA MineIsTheOne ==
  ASSUME NEW k, ReportsOK(k.eams), NEW u, NEW mine \in AnyOf(Active(k, "member", u))
  PROVE  \A e \in DOMAIN k.eams : k.eams[e].active /\ k.eams[e].member = u => e = mine
BY DEF Active, AnyOf, ReportsOK, OneReport

LEMMA TheirsIsTheOne ==
  ASSUME NEW k, ReportsOK(k.eams), NEW n, NEW theirs \in AnyOf(Active(k, "callsign", n))
  PROVE  \A e \in DOMAIN k.eams : k.eams[e].active /\ k.eams[e].callsign = n => e = theirs
BY DEF Active, AnyOf, ReportsOK, OneReport

LEMMA UpsertReports ==
  ASSUME RegistryInv, NEW w \in Workers, EamUpsert(w), ReportsOK(core[w].eams),
         number[w] # None
  PROVE  ReportsOK(core'[w].eams)
<1> DEFINE c == command[w]
           k == Provisioned(core[w], c).tables
           gone == {e \in DOMAIN k.eams :
                      /\ ~k.eams[e].active
                      /\ k.eams[e].member = c.member \/ k.eams[e].callsign = c.callsign}
           key(mine) == CASE c.eam # None -> c.eam
                          [] c.eam = None /\ mine # None -> mine
                          [] c.eam = None /\ mine = None /\ gone # {} ->
                               CHOOSE e \in gone : TRUE
                          [] OTHER -> number[w]
           row == [callsign |-> c.callsign, member |-> c.member, team |-> c.team,
                   ttl |-> c.ttl, active |-> TRUE]
           tables(mine) == [k EXCEPT !.eams = Put(@, key(mine), row)]
<1>1. Whole(k)
  BY InvCore, ProvisionedKeeps DEF Sound
<1>2. k.eams = core[w].eams /\ ReportsOK(k.eams)
  <2>1. Whole(core[w])
    BY InvCore
  <2>2. QED
    BY <2>1 DEF Whole, Tables, Provisioned
<1>3. core = [v \in Workers |-> core[v]]
  BY DEF RegistryInv
<1>4. \/ Applied(w, FALSE, k)
      \/ \E mine \in AnyOf(Active(k, "member", c.member)),
            theirs \in AnyOf(Active(k, "callsign", c.callsign)) :
           SnapshotAllowed(c, mine, theirs, gone) /\ Applied(w, TRUE, tables(mine))
  BY DEF EamUpsert, Accept, Reject
<1>5. CASE Applied(w, FALSE, k)
  BY <1>2, <1>3, <1>5 DEF Applied
<1>6. ASSUME NEW mine \in AnyOf(Active(k, "member", c.member)),
             NEW theirs \in AnyOf(Active(k, "callsign", c.callsign)),
             SnapshotAllowed(c, mine, theirs, gone), Applied(w, TRUE, tables(mine))
      PROVE  ReportsOK(core'[w].eams)
  <2>1. \A e \in DOMAIN k.eams : k.eams[e].active /\ k.eams[e].member = c.member => e = mine
    <3> HIDE DEF k
    <3>1. QED
      BY <1>2, MineIsTheOne
  <2>2. \A e \in DOMAIN k.eams :
          k.eams[e].active /\ k.eams[e].callsign = c.callsign => e = theirs
    <3> HIDE DEF k
    <3>1. QED
      BY <1>2, TheirsIsTheOne
  <2>3. /\ theirs # None => theirs = mine
        /\ mine # None => key(mine) = mine
    BY <1>6 DEF SnapshotAllowed
  <2>4. key(mine) # None
    <3>1. \A e \in gone : e # None
      BY <1>2 DEF ReportsOK
    <3>2. gone # {} => (CHOOSE e \in gone : TRUE) \in gone
      OBVIOUS
    <3>3. QED
      BY <3>1, <3>2
  <2>5. core'[w].eams = Put(k.eams, key(mine), row)
    <3>1. core'[w] = tables(mine)
      BY <1>3, <1>6 DEF Applied
    <3>2. QED
      BY <1>1, <3>1 DEF Whole, Tables
  <2>6. row.callsign = c.callsign /\ row.member = c.member /\ "active" \in DOMAIN row
    OBVIOUS
  <2> HIDE DEF key, row, k, gone, tables
  <2>7. ReportsOK(k.eams)
    BY <1>2
  <2>8. QED
    BY <2>1, <2>2, <2>3, <2>4, <2>5, <2>6, <2>7, AllowedIsAlone
<1>7. QED
  BY <1>4, <1>5, <1>6

LEMMA DeleteReports ==
  ASSUME RegistryInv, NEW w \in Workers, EamDelete(w), ReportsOK(core[w].eams)
  PROVE  ReportsOK(core'[w].eams)
<1> DEFINE f == core[w].eams
<1>1. /\ Whole(core[w]) /\ core = [v \in Workers |-> core[v]]
  BY InvCore DEF RegistryInv
<1>2. \/ core'[w] = core[w]
      \/ \E e : core'[w] = [core[w] EXCEPT !.eams[e].active = FALSE]
  BY <1>1 DEF EamDelete, Accept, Reject, Applied
<1>3. ASSUME NEW e, core'[w] = [core[w] EXCEPT !.eams[e].active = FALSE]
      PROVE  ReportsOK(core'[w].eams)
  <2> DEFINE g == [f EXCEPT ![e].active = FALSE]
  <2>1. core'[w].eams = g
    BY <1>1, <1>3 DEF Whole, Tables
  <2>2. /\ DOMAIN g = DOMAIN f /\ g = [x \in DOMAIN g |-> g[x]]
        /\ \A x \in DOMAIN f : g[x].active => x # e /\ g[x] = f[x]
        /\ \A x \in DOMAIN g : "active" \in DOMAIN g[x]
    BY DEF ReportsOK
  <2> HIDE DEF g
  <2>3. OneReport(g)
    BY <2>2 DEF ReportsOK, OneReport
  <2>4. QED
    BY <2>1, <2>2, <2>3 DEF ReportsOK
<1>4. QED
  BY <1>2, <1>3

--------------------------------------------------------------------------
(* Other commands leave the snapshots alone.                               *)

\* A core that got what a command has made of it.
LEMMA CoreAfter ==
  ASSUME RegistryInv, NEW w \in Workers, NEW accepted, NEW tables,
         Applied(w, accepted, tables)
  PROVE  core'[w] = tables
BY DEF Applied, RegistryInv

LEMMA LogLeavesReports ==
  ASSUME RegistryInv, NEW w \in Workers, LogUpsert(w)
  PROVE  core'[w].eams = core[w].eams
<1> DEFINE made == [core[w] EXCEPT !.missions = Put(@, Default, Fresh)]
<1>1. PICK housed \in {made, core[w]} :
        \/ \E logs, changes :
             Applied(w, TRUE, [housed EXCEPT !.logs = logs, !.changes = changes])
        \/ Applied(w, FALSE, housed)
  BY DEF LogUpsert, Accept, Reject
<1>2. Whole(core[w])
  BY InvCore
<1>3. Whole(housed) /\ housed.eams = core[w].eams
  BY <1>2 DEF Whole, Tables
<1>4. CASE Applied(w, FALSE, housed)
  BY <1>3, <1>4, CoreAfter
<1>5. ASSUME NEW logs, NEW changes,
             Applied(w, TRUE, [housed EXCEPT !.logs = logs, !.changes = changes])
      PROVE  core'[w].eams = core[w].eams
  <2> DEFINE tables == [housed EXCEPT !.logs = logs, !.changes = changes]
  <2>1. tables.eams = housed.eams
    BY <1>3 DEF Whole, Tables
  <2> HIDE DEF tables
  <2>2. core'[w] = tables
    BY <1>5, CoreAfter DEF tables
  <2>3. QED
    BY <1>3, <2>1, <2>2
<1>6. QED
  BY <1>1, <1>4, <1>5

LEMMA RelinkedReports ==
  ASSUME NEW k, Whole(k), NEW t, NEW missions
  PROVE  Whole(Relinked(k, t, missions)) /\ Relinked(k, t, missions).eams = k.eams
BY DEF Whole, Tables, Relinked

LEMMA TeamsLeaveReports ==
  ASSUME RegistryInv, NEW w \in Workers, TeamUpsert(w) \/ TeamMission(w)
  PROVE  core'[w].eams = core[w].eams
<1>1. \E accepted, k :
        /\ k = core[w] \/ \E t, missions : k = Relinked(core[w], t, missions)
        /\ \/ Applied(w, accepted, k)
           \/ \E teams : Applied(w, accepted, [k EXCEPT !.teams = teams])
           \/ \E t, team : Applied(w, accepted, [k EXCEPT !.teams[t] = team])
  <2>1. CASE TeamUpsert(w)
    BY <2>1 DEF TeamUpsert, Accept, Reject
  <2>2. CASE TeamMission(w)
    BY <2>2 DEF TeamMission, Accept, Reject
  <2>3. QED
    BY <2>1, <2>2
<1>2. PICK accepted, k :
        /\ k = core[w] \/ \E t, missions : k = Relinked(core[w], t, missions)
        /\ \/ Applied(w, accepted, k)
           \/ \E teams : Applied(w, accepted, [k EXCEPT !.teams = teams])
           \/ \E t, team : Applied(w, accepted, [k EXCEPT !.teams[t] = team])
  BY <1>1
<1>3. Whole(k) /\ k.eams = core[w].eams
  BY <1>2, InvCore, RelinkedReports
<1>4. /\ \A teams : [k EXCEPT !.teams = teams].eams = k.eams
      /\ \A t, team : [k EXCEPT !.teams[t] = team].eams = k.eams
  BY <1>3 DEF Whole, Tables
<1>5. QED
  BY <1>2, <1>3, <1>4, CoreAfter

LEMMA ClientsLeaveReports ==
  ASSUME RegistryInv, NEW w \in Workers, ClientLink(w) \/ ClientUnlink(w)
  PROVE  core'[w].eams = core[w].eams
<1> DEFINE u == command[w].member
<1>1. \E accepted, links, k :
        /\ k = core[w] \/ k = [core[w] EXCEPT !.clientLinks = links]
        /\ Applied(w, accepted, k) \/ Applied(w, accepted, Refreshed(k, u))
  <2>1. CASE ClientLink(w)
    BY <2>1 DEF ClientLink, Accept, Reject
  <2>2. CASE ClientUnlink(w)
    BY <2>2 DEF ClientUnlink, Accept, Reject
  <2>3. QED
    BY <2>1, <2>2
<1>2. PICK accepted, links, k :
        /\ k = core[w] \/ k = [core[w] EXCEPT !.clientLinks = links]
        /\ Applied(w, accepted, k) \/ Applied(w, accepted, Refreshed(k, u))
  BY <1>1
<1>3. Whole(k) /\ k.eams = core[w].eams
  BY <1>2, InvCore DEF Whole, Tables
<1>4. Refreshed(k, u).eams = k.eams
  BY <1>3 DEF Whole, Tables, Refreshed
<1>5. QED
  BY <1>2, <1>3, <1>4, CoreAfter

LEMMA AssignmentLeavesReports ==
  ASSUME RegistryInv, NEW w \in Workers, AssignmentUpsert(w)
  PROVE  core'[w].eams = core[w].eams
<1>1. \/ Applied(w, FALSE, core[w])
      \/ \E rows, x, assets :
           Applied(w, TRUE, Equipped([core[w] EXCEPT !.assignments = rows], x, assets))
  BY DEF AssignmentUpsert, Accept, Reject
<1>2. ASSUME NEW rows, NEW x, NEW assets,
             Applied(w, TRUE, Equipped([core[w] EXCEPT !.assignments = rows], x, assets))
      PROVE  core'[w].eams = core[w].eams
  <2> DEFINE k == [core[w] EXCEPT !.assignments = rows]
  <2>1. Whole(core[w])
    BY InvCore
  <2>2. Whole(k) /\ k.eams = core[w].eams
    BY <2>1 DEF Whole, Tables
  <2> HIDE DEF k
  <2>3. Equipped(k, x, assets).eams = k.eams
    BY <2>2 DEF Whole, Tables, Equipped
  <2>4. core'[w] = Equipped(k, x, assets)
    BY <1>2, CoreAfter DEF k
  <2>5. QED
    BY <2>2, <2>3, <2>4
<1>3. CASE Applied(w, FALSE, core[w])
  BY <1>3, CoreAfter
<1>4. QED
  BY <1>1, <1>2, <1>3

LEMMA OthersLeaveReports ==
  ASSUME RegistryInv, NEW w \in Workers, Apply(w), ~EamUpsert(w), ~EamDelete(w)
  PROVE  core'[w].eams = core[w].eams
<1>0. /\ Whole(core[w]) /\ core = [v \in Workers |-> core[v]]
  BY InvCore DEF RegistryInv
<1>1. ASSUME MissionUpsert(w) PROVE core'[w].eams = core[w].eams
  BY <1>0, <1>1 DEF Whole, Tables, MissionUpsert, Accept, Reject, Applied
<1>2. ASSUME MissionDelete(w) PROVE core'[w].eams = core[w].eams
  BY <1>0, <1>2 DEF Whole, Tables, MissionDelete, Accept, Reject, Applied
<1>3. ASSUME Touch(w) PROVE core'[w].eams = core[w].eams
  BY <1>0, <1>3 DEF Whole, Tables, Touch, Accept, Reject, Applied
<1>4. ASSUME PlaceCreate(w) PROVE core'[w].eams = core[w].eams
  BY <1>0, <1>4 DEF Whole, Tables, PlaceCreate, Accept, Reject, Applied
<1>5. ASSUME PlaceDelete(w) PROVE core'[w].eams = core[w].eams
  BY <1>0, <1>5 DEF Whole, Tables, PlaceDelete, Accept, Reject, Applied
<1>6. ASSUME PlaceLink(w) PROVE core'[w].eams = core[w].eams
  BY <1>0, <1>6 DEF Whole, Tables, PlaceLink, Accept, Reject, Applied
<1>7. ASSUME PlaceUnlink(w) PROVE core'[w].eams = core[w].eams
  BY <1>0, <1>7 DEF Whole, Tables, PlaceUnlink, Accept, Reject, Applied
<1>8. ASSUME ChangeUpsert(w) PROVE core'[w].eams = core[w].eams
  BY <1>0, <1>8 DEF Whole, Tables, ChangeUpsert, Accept, Reject, Applied
<1>9. ASSUME LogUpsert(w) PROVE core'[w].eams = core[w].eams
  BY <1>9, LogLeavesReports
<1>10. ASSUME TeamUpsert(w) PROVE core'[w].eams = core[w].eams
  BY <1>10, TeamsLeaveReports
<1>11. ASSUME TeamDelete(w) PROVE core'[w].eams = core[w].eams
  BY <1>0, <1>11, ZenonT(60) DEF Whole, Tables, TeamDelete, Accept, Reject, Applied
<1>12. ASSUME TeamMission(w) PROVE core'[w].eams = core[w].eams
  BY <1>12, TeamsLeaveReports
<1>13. ASSUME MemberUpsert(w) PROVE core'[w].eams = core[w].eams
  BY <1>0, <1>13 DEF Whole, Tables, MemberUpsert, Accept, Reject, Applied
<1>14. ASSUME MemberDelete(w) PROVE core'[w].eams = core[w].eams
  BY <1>0, <1>14 DEF Whole, Tables, MemberDelete, Accept, Reject, Applied
<1>15. ASSUME ClientLink(w) PROVE core'[w].eams = core[w].eams
  BY <1>15, ClientsLeaveReports
<1>16. ASSUME ClientUnlink(w) PROVE core'[w].eams = core[w].eams
  BY <1>16, ClientsLeaveReports
<1>17. ASSUME AssetUpsert(w) PROVE core'[w].eams = core[w].eams
  BY <1>0, <1>17 DEF Whole, Tables, AssetUpsert, Accept, Reject, Applied
<1>18. ASSUME AssetDelete(w) PROVE core'[w].eams = core[w].eams
  BY <1>0, <1>18 DEF Whole, Tables, AssetDelete, Accept, Reject, Applied
<1>19. ASSUME SkillUpsert(w) PROVE core'[w].eams = core[w].eams
  BY <1>0, <1>19 DEF Whole, Tables, SkillUpsert, Accept, Reject, Applied
<1>20. ASSUME MemberSkill(w) PROVE core'[w].eams = core[w].eams
  BY <1>0, <1>20 DEF Whole, Tables, MemberSkill, Accept, Reject, Applied
<1>21. ASSUME AssignmentUpsert(w) PROVE core'[w].eams = core[w].eams
  BY <1>21, AssignmentLeavesReports
<1>22. ASSUME AssignmentAssets(w) PROVE core'[w].eams = core[w].eams
  BY <1>0, <1>22 DEF Whole, Tables, AssignmentAssets, Accept, Reject, Applied, Equipped
<1>23. QED
  BY <1>1, <1>2, <1>3, <1>4, <1>5, <1>6, <1>7, <1>8, <1>9, <1>10, <1>11, <1>12,
     <1>13, <1>14, <1>15, <1>16, <1>17, <1>18, <1>19, <1>20, <1>21, <1>22
     DEF Apply

--------------------------------------------------------------------------
(* The invariant is inductive.                                             *)

LEMMA CountsKept ==
  ASSUME RegistryInv, Counted, Next
  PROVE  Counted'
<1>0. MaxCommands \in Nat /\ Len(Statements) = 15 /\ DOMAIN Statements = 1 .. 15
  BY RegistryAssumption DEF Statements
<1>1. ASSUME NEW w \in Workers, NEW c, Begin(w, c) PROVE Counted'
  <2>1. /\ commands' = commands + 1 /\ commands < MaxCommands
        /\ phase' = [phase EXCEPT ![w] = "reading"]
        /\ number' = [number EXCEPT ![w] = commands + 1]
        /\ read' = read /\ behind' = behind
    BY <1>1 DEF Begin
  <2>2. commands' \in 0 .. MaxCommands /\ commands + 1 \in Numbers
    BY <1>0, <2>1 DEF Counted, Numbers
  <2>3. ASSUME NEW v \in Workers
        PROVE  /\ phase'[v] = "idle" => read'[v] = 0
               /\ phase'[v] # "idle" => number'[v] \in Numbers
               /\ phase'[v] \in {"loaded", "applied"} => read'[v] > 0
    <3>1. CASE v = w
      BY <2>1, <2>2, <3>1 DEF Counted
    <3>2. CASE v # w
      BY <2>1, <3>2 DEF Counted
    <3>3. QED
      BY <3>1, <3>2
  <2>4. QED
    BY <2>1, <2>2, <2>3 DEF Counted
<1>2. ASSUME NEW w \in Workers, NEW n \in DOMAIN Statements, Read(w, n) PROVE Counted'
  BY <1>0, <1>2 DEF Counted, Read
<1>3. ASSUME NEW w \in Workers, Outcome(w) PROVE Counted'
  BY <1>3 DEF Counted, Outcome, Applied
<1>4. ASSUME NEW w \in Workers, Idle(w), commands' = commands,
             behind' = [v \in Workers |-> behind'[v]]
      PROVE  Counted'
  <2>1. /\ phase' = [phase EXCEPT ![w] = "idle"] /\ number' = [number EXCEPT ![w] = 0]
        /\ read' = [read EXCEPT ![w] = 0]
    BY <1>4 DEF Idle
  <2>2. ASSUME NEW v \in Workers
        PROVE  /\ read'[v] \in 0 .. Len(Statements)
               /\ phase'[v] = "idle" => read'[v] = 0
               /\ phase'[v] # "idle" => number'[v] \in Numbers
               /\ phase'[v] \in {"loaded", "applied"} => read'[v] > 0
    <3>1. CASE v = w
      BY <1>0, <2>1, <3>1 DEF Counted
    <3>2. CASE v # w
      BY <2>1, <3>2 DEF Counted
    <3>3. QED
      BY <3>1, <3>2
  <2>3. QED
    BY <1>4, <2>1, <2>2 DEF Counted
<1>5. ASSUME NEW w \in Workers, Apply(w) PROVE Counted'
  BY <1>3, <1>5, ApplyKeeps
<1>6. ASSUME NEW w \in Workers, Save(w) PROVE Counted'
  BY <1>4, <1>6 DEF Save
<1>7. ASSUME NEW w \in Workers, Lose(w) PROVE Counted'
  BY <1>4, <1>7 DEF Lose, Counted
<1>8. QED
  BY <1>1, <1>2, <1>5, <1>6, <1>7 DEF Next

LEMMA BeginStaysSerial ==
  ASSUME ReportInv, NEW w \in Workers, NEW c, Begin(w, c)
  PROVE  Serial'
<1>1. /\ phase' = [phase EXCEPT ![w] = "reading"] /\ phase[w] = "idle"
      /\ UNCHANGED <<store, read, before, core, behind, overlapped>>
  BY DEF Begin
<1>2. ASSUME NEW v \in Workers, InStep(v)
      PROVE  InStep(v)'
  <2>1. CASE v = w
    BY <1>1, <2>1 DEF ReportInv, Counted, InStep
  <2>2. CASE v # w
    BY <1>1, <1>2, <2>2 DEF ReportInv, Counted, InStep, ReportsOK, OneReport
  <2>3. QED
    BY <2>1, <2>2
<1>3. QED
  BY <1>1, <1>2 DEF ReportInv, Serial, ReportsOK, OneReport

LEMMA ReadStaysSerial ==
  ASSUME ReportInv, NEW w \in Workers, NEW n \in DOMAIN Statements, Read(w, n)
  PROVE  Serial'
<1> DEFINE now == {Statements[i] : i \in (read[w] + 1) .. n}
           table == [t \in Tables |-> IF t \in now THEN store[t] ELSE before[w][t]]
<1>1. /\ UNCHANGED <<store, behind, overlapped>>
      /\ before' = [before EXCEPT ![w] = table] /\ read' = [read EXCEPT ![w] = n]
      /\ phase[w] = "reading" /\ read[w] < n
      /\ \/ /\ phase' = [phase EXCEPT ![w] = "loaded"] /\ n = 15
            /\ core' = [core EXCEPT ![w] = before'[w]]
         \/ phase' = phase /\ core' = core
  BY FifthTable DEF Read
<1>2. n \in 1 .. 15
  BY DEF Statements
<1>3. ASSUME n >= 5, read[w] >= 5 => before[w].eams = store.eams
      PROVE  table.eams = store.eams
  <2>1. CASE read[w] >= 5
    BY <1>3, <2>1, FifthTable
  <2>2. CASE ~(read[w] >= 5)
    <3>1. 5 \in (read[w] + 1) .. n
      BY <1>2, <1>3, <2>2 DEF ReportInv, Counted
    <3>2. "eams" \in now
      BY <3>1, FifthTable
    <3>3. QED
      BY <3>2, FifthTable
  <2>3. QED
    BY <2>1, <2>2
<1> HIDE DEF table
<1>4. before'[w] = table /\ read'[w] = n /\ (phase'[w] = "loaded" => n = 15)
      /\ phase'[w] \in {"reading", "loaded"}
  BY <1>1 DEF ReportInv, RegistryInv, Counted
<1>5. ASSUME NEW v \in Workers, InStep(v)
      PROVE  InStep(v)'
  <2>1. CASE v = w
    BY <1>1, <1>2, <1>3, <1>4, <1>5, <2>1 DEF InStep
  <2>2. CASE v # w
    <3>1. /\ phase'[v] = phase[v] /\ read'[v] = read[v] /\ before'[v] = before[v]
          /\ core'[v] = core[v]
      <4>1. read'[v] = read[v] /\ before'[v] = before[v]
        BY <1>1, <2>2 DEF ReportInv, RegistryInv, Counted
      <4>2. phase'[v] = phase[v] /\ core'[v] = core[v]
        BY <1>1, <2>2 DEF ReportInv, RegistryInv
      <4>3. QED
        BY <4>1, <4>2
    <3>2. QED
      BY <1>1, <1>5, <3>1 DEF InStep, ReportsOK, OneReport
  <2>3. QED
    BY <2>1, <2>2
<1>6. QED
  BY <1>1, <1>5 DEF ReportInv, Serial, ReportsOK, OneReport

LEMMA ApplyStaysSerial ==
  ASSUME ReportInv, NEW w \in Workers, Apply(w)
  PROVE  Serial'
<1>1. /\ phase[w] = "loaded" /\ phase' = [phase EXCEPT ![w] = "applied"]
      /\ UNCHANGED <<store, read, before, behind, overlapped>>
      /\ \E tables : core' = [core EXCEPT ![w] = tables]
  BY ApplyKeeps DEF ReportInv, Outcome, Applied
<1>2. ASSUME ReportsOK(core[w].eams)
      PROVE  ReportsOK(core'[w].eams)
  <2>1. number[w] # None
    BY <1>1, RegistryAssumption DEF ReportInv, Counted
  <2>2. QED
    BY <1>2, <2>1, UpsertReports, DeleteReports, OthersLeaveReports DEF ReportInv
<1>3. ASSUME ReportsOK(store.eams), NEW v \in Workers, InStep(v)
      PROVE  InStep(v)'
  <2>1. CASE v = w
    <3>1. core[w].eams = store.eams /\ before[w].eams = store.eams
      BY <1>1, <1>3, <2>1 DEF ReportInv, RegistryInv, InStep
    <3>2. ReportsOK(core'[w].eams)
      BY <1>2, <1>3, <3>1
    <3>3. phase'[w] = "applied"
      BY <1>1 DEF ReportInv, Counted
    <3>4. QED
      BY <1>1, <2>1, <3>1, <3>2, <3>3 DEF InStep, ReportsOK, OneReport
  <2>2. CASE v # w
    <3>1. phase'[v] = phase[v] /\ core'[v] = core[v]
      BY <1>1, <2>2 DEF ReportInv, RegistryInv
    <3>2. QED
      BY <1>1, <1>3, <3>1 DEF InStep, ReportsOK, OneReport
  <2>3. QED
    BY <2>1, <2>2
<1>4. QED
  BY <1>1, <1>3 DEF ReportInv, Serial, ReportsOK, OneReport

\* The worker becomes idle, or stays so; the others keep what they have.
LEMMA IdleStaysInStep ==
  ASSUME ReportInv, NEW w \in Workers, Idle(w), NEW v \in Workers
  PROVE  /\ v = w => InStep(v)'
         /\ v # w => /\ phase'[v] = phase[v] /\ read'[v] = read[v] /\ core'[v] = core[v]
                     /\ before'[v] = before[v]
<1>1. /\ phase' = [phase EXCEPT ![w] = "idle"] /\ read' = [read EXCEPT ![w] = 0]
      /\ before' = [before EXCEPT ![w] = Empty] /\ core' = [core EXCEPT ![w] = Empty]
  BY DEF Idle
<1>2. phase'[w] = "idle"
  BY <1>1 DEF ReportInv, Counted
<1>3. v = w => InStep(v)'
  BY <1>2 DEF InStep
<1>4. QED
  BY <1>1, <1>3 DEF ReportInv, RegistryInv, Counted

\* A worker that is not behind saves the snapshots that it has.
LEMMA SaveStaysSerial ==
  ASSUME ReportInv, NEW w \in Workers, Save(w)
  PROVE  Serial'
<1>1. /\ phase[w] = "applied" /\ Idle(w)
      /\ store' = [t \in Tables |-> Delta(store[t], before[w][t], core[w][t])]
      /\ overlapped' = (overlapped \/ behind[w])
      /\ behind' = [v \in Workers |-> v # w /\ (behind[v] \/ read[v] > 0)]
  BY DEF Save
<1>2. SUFFICES ASSUME ~overlapped' PROVE ReportsOK(store'.eams)
                 /\ \A v \in Workers : ~behind'[v] => InStep(v)'
  BY DEF Serial
<1>3. ReportsOK(core[w].eams) /\ before[w].eams = store.eams /\ ReportsOK(store.eams)
  BY <1>1, <1>2 DEF ReportInv, Serial, InStep
<1>4. store'.eams = core[w].eams
  <2> DEFINE f == store.eams
             g == core[w].eams
  <2>1. store'.eams = Delta(f, f, g)
    BY <1>1, <1>3, FifthTable
  <2>2. g = [e \in DOMAIN g |-> g[e]]
    BY <1>3 DEF ReportsOK
  <2> HIDE DEF f, g
  <2>3. DOMAIN Delta(f, f, g) = DOMAIN g /\ \A e \in DOMAIN g : Delta(f, f, g)[e] = g[e]
    BY DEF Delta, Written, Without, Restrict
  <2>4. Delta(f, f, g) = [e \in DOMAIN g |-> g[e]]
    BY <2>3 DEF Delta, Written
  <2>5. QED
    BY <2>1, <2>2, <2>4 DEF g
<1>5. ASSUME NEW v \in Workers, ~behind'[v], v # w
      PROVE  InStep(v)'
  <2>1. read[v] = 0
    <3>1. ~(read[v] > 0)
      BY <1>1, <1>5
    <3>2. read[v] \in 0 .. 15
      BY FifthTable DEF ReportInv, Counted
    <3>3. QED
      BY <3>1, <3>2
  <2>2. phase'[v] = phase[v] /\ read'[v] = 0
    BY <1>1, <1>5, <2>1, IdleStaysInStep
  <2>3. phase[v] \notin {"loaded", "applied"}
    BY <2>1 DEF ReportInv, Counted
  <2>4. QED
    BY <2>2, <2>3 DEF InStep
<1>6. QED
  BY <1>1, <1>3, <1>4, <1>5, IdleStaysInStep

LEMMA LoseStaysSerial ==
  ASSUME ReportInv, NEW w \in Workers, Lose(w)
  PROVE  Serial'
<1>1. /\ Idle(w) /\ store' = store /\ overlapped' = overlapped
      /\ behind' = [behind EXCEPT ![w] = FALSE]
  BY DEF Lose
<1>2. ASSUME NEW v \in Workers, v # w, InStep(v)
      PROVE  InStep(v)'
  <2>1. /\ phase'[v] = phase[v] /\ read'[v] = read[v] /\ core'[v] = core[v]
        /\ before'[v] = before[v]
    BY <1>1, <1>2, IdleStaysInStep
  <2>2. QED
    BY <1>1, <1>2, <2>1 DEF InStep, ReportsOK, OneReport
<1>3. \A v \in Workers : v # w => behind'[v] = behind[v]
  BY <1>1 DEF ReportInv, Counted
<1>4. QED
  BY <1>1, <1>2, <1>3, IdleStaysInStep DEF ReportInv, Serial, ReportsOK, OneReport

LEMMA StartsSerial == Init => ReportInv
<1> SUFFICES ASSUME Init PROVE ReportInv
  OBVIOUS
<1>1. TablesOK(store) /\ OneReport(store.eams)
  BY RegistryAssumption DEF Init
<1>2. ReportsOK(store.eams)
  <2>1. /\ store.eams = [e \in DOMAIN store.eams |-> store.eams[e]]
        /\ DOMAIN store.eams \subseteq Snapshots \cup Numbers
        /\ \A e \in DOMAIN store.eams :
             store.eams[e] \in [callsign : Callsigns, member : Members, team : Teams,
                                ttl : BOOLEAN, active : BOOLEAN]
    BY <1>1, ZenonT(60) DEF TablesOK, IsTable, Range
  <2>2. QED
    BY <1>1, <2>1, RegistryAssumption DEF ReportsOK
<1>3. Counted
  BY FifthTable, RegistryAssumption DEF Init, Counted
<1>4. Serial
  BY <1>2 DEF Init, Serial, InStep
<1>5. QED
  BY <1>3, <1>4, StartsSound DEF ReportInv

LEMMA NextStaysSerial == ReportInv /\ [Next]_vars => ReportInv'
<1>1. ASSUME ReportInv, Next PROVE ReportInv'
  <2>1. RegistryInv' /\ Counted'
    BY <1>1, StepKeeps, CountsKept DEF ReportInv
  <2>2. Serial'
    BY <1>1, BeginStaysSerial, ReadStaysSerial, ApplyStaysSerial, SaveStaysSerial,
       LoseStaysSerial DEF Next
  <2>3. QED
    BY <2>1, <2>2 DEF ReportInv
<1>2. ASSUME ReportInv, UNCHANGED vars PROVE ReportInv'
  <2>1. RegistryInv'
    BY <1>2, StutterKeeps DEF ReportInv
  <2>2. Counted' /\ Serial'
    BY <1>2 DEF ReportInv, Counted, Serial, InStep, ReportsOK, OneReport, vars, local
  <2>3. QED
    BY <2>1, <2>2 DEF ReportInv
<1>3. QED
  BY <1>1, <1>2

\* As long as no save has overlapped another, a callsign and a member have one status
\* snapshot at most that is not deleted (upsert_eam_from_args, delete_eam_by_callsign).
THEOREM ReportsStayUnique == Spec => []OneActiveSnapshot
<1>1. ReportInv => OneActiveSnapshot
  BY DEF ReportInv, Serial, ReportsOK, OneActiveSnapshot
<1>2. QED
  BY <1>1, StartsSerial, NextStaysSerial, PTL DEF Spec


----------------------------------------------------------------------------
(***************************************************************************)
(* Types.  What a command writes is a row of the form its table has, under *)
(* a key that the command names or that its number makes; a save mixes     *)
(* tables of the right form.                                               *)
(***************************************************************************)

LEMMA TableIs ==
  ASSUME NEW f, NEW K, NEW V
  PROVE  IsTable(f, K, V) <=> /\ f = [x \in DOMAIN f |-> f[x]] /\ DOMAIN f \subseteq K
                              /\ \A x \in DOMAIN f : f[x] \in V
BY DEF IsTable, Range

LEMMA NoRows == ASSUME NEW K, NEW V PROVE IsTable(<< >>, K, V)
<1>1. DOMAIN << >> = {} /\ << >> = [x \in DOMAIN << >> |-> << >>[x]]
  OBVIOUS
<1>2. QED
  BY <1>1, TableIs

LEMMA LaidOver ==
  ASSUME NEW f, NEW g, NEW K, NEW V, IsTable(f, K, V), IsTable(g, K, V)
  PROVE  IsTable(Written(f, g), K, V)
<1> DEFINE h == Written(f, g)
<1>1. /\ h = [x \in DOMAIN h |-> h[x]] /\ DOMAIN h = DOMAIN f \cup DOMAIN g
      /\ \A x \in DOMAIN h : h[x] = IF x \in DOMAIN g THEN g[x] ELSE f[x]
  BY DEF Written
<1> HIDE DEF h
<1>2. \A x \in DOMAIN h : h[x] \in V
  BY <1>1, TableIs
<1>3. DOMAIN h \subseteq K
  BY <1>1, TableIs
<1>4. IsTable(h, K, V)
  BY <1>1, <1>2, <1>3, TableIs
<1>5. QED
  BY <1>4 DEF h

LEMMA RowPut ==
  ASSUME NEW f, NEW K, NEW V, IsTable(f, K, V), NEW key \in K, NEW row \in V
  PROVE  IsTable(Put(f, key, row), K, V)
<1> DEFINE g == [x \in {key} |-> row]
<1>1. g = [x \in DOMAIN g |-> g[x]] /\ DOMAIN g \subseteq K /\ \A x \in DOMAIN g : g[x] \in V
  OBVIOUS
<1>2. IsTable(g, K, V)
  BY <1>1, TableIs
<1>3. QED
  BY <1>2, LaidOver DEF Put

LEMMA KeysAdded ==
  ASSUME NEW f, NEW K, IsTable(f, K, {"present"}), NEW keys, keys \subseteq K
  PROVE  IsTable(With(f, keys), K, {"present"})
<1> DEFINE g == [x \in keys |-> "present"]
<1>1. /\ g = [x \in DOMAIN g |-> g[x]] /\ DOMAIN g \subseteq K
      /\ \A x \in DOMAIN g : g[x] \in {"present"}
  OBVIOUS
<1>2. IsTable(g, K, {"present"})
  BY <1>1, TableIs
<1>3. QED
  BY <1>2, LaidOver DEF With

LEMMA RowsKept ==
  ASSUME NEW f, NEW K, NEW V, IsTable(f, K, V), NEW S, S \subseteq DOMAIN f
  PROVE  IsTable(Restrict(f, S), K, V)
<1> DEFINE h == Restrict(f, S)
<1>1. h = [x \in DOMAIN h |-> h[x]] /\ DOMAIN h = S /\ \A x \in S : h[x] = f[x]
  BY DEF Restrict
<1> HIDE DEF h
<1>2. IsTable(h, K, V)
  BY <1>1, TableIs
<1>3. QED
  BY <1>2 DEF h

LEMMA RowsGone ==
  ASSUME NEW f, NEW K, NEW V, IsTable(f, K, V), NEW keys
  PROVE  IsTable(Without(f, keys), K, V)
BY RowsKept DEF Without

\* A row that is there is replaced.
LEMMA RowReplaced ==
  ASSUME NEW f, NEW K, NEW V, IsTable(f, K, V), NEW key \in DOMAIN f, NEW row \in V
  PROVE  IsTable([f EXCEPT ![key] = row], K, V)
<1> DEFINE h == [f EXCEPT ![key] = row]
<1>1. f = [x \in DOMAIN f |-> f[x]] /\ DOMAIN f \subseteq K /\ \A x \in DOMAIN f : f[x] \in V
  BY TableIs
<1>2. /\ h = [x \in DOMAIN h |-> h[x]] /\ DOMAIN h = DOMAIN f
      /\ \A x \in DOMAIN h : h[x] = IF x = key THEN row ELSE f[x]
  BY <1>1
<1> HIDE DEF h
<1>3. IsTable(h, K, V)
  BY <1>1, <1>2, TableIs
<1>4. QED
  BY <1>3 DEF h

\* Every row is replaced.
LEMMA RowsReplaced ==
  ASSUME NEW f, NEW K, NEW V, IsTable(f, K, V), NEW h, h = [x \in DOMAIN h |-> h[x]],
         DOMAIN h = DOMAIN f, \A x \in DOMAIN f : h[x] \in V
  PROVE  IsTable(h, K, V)
BY TableIs

LEMMA DeltaIsTable ==
  ASSUME NEW stored, NEW old, NEW new, NEW K, NEW V, IsTable(stored, K, V),
         IsTable(new, K, V)
  PROVE  IsTable(Delta(stored, old, new), K, V)
BY RowsGone, LaidOver DEF Delta

--------------------------------------------------------------------------
(* One table is changed.                                                   *)

LEMMA TablesAreWhole == ASSUME NEW k, TablesOK(k) PROVE Whole(k)
BY DEF TablesOK, Whole

TeamRows == [missions : SUBSET Missions, first : Missions \cup {None}]
MemberRows ==
  [team : Teams \cup {None}, identity : Identities, clients : SUBSET Clients]
AssignmentRows == [mission : Missions, identity : Identities, assets : SUBSET Assets]
ReportRows ==
  [callsign : Callsigns, member : Members, team : Teams, ttl : BOOLEAN, active : BOOLEAN]

LEMMA TablesParts ==
  ASSUME NEW k
  PROVE  TablesOK(k) <=>
           /\ Whole(k)
           /\ IsTable(k.missions, Missions, MissionRows)
           /\ IsTable(k.places, Places \cup Numbers, {"present"})
           /\ IsTable(k.placeLinks, Missions \X Places, {"present"})
           /\ IsTable(k.changes, Numbers, Missions)
           /\ IsTable(k.logs, Entries \cup Numbers, Missions)
           /\ IsTable(k.teams, Teams, TeamRows)
           /\ IsTable(k.teamLinks, Missions \X Teams, {"present"})
           /\ IsTable(k.members, Members, MemberRows)
           /\ IsTable(k.clientLinks, Members \X Clients, {"present"})
           /\ IsTable(k.assets, Assets, Members \cup {None})
           /\ IsTable(k.skills, Skills, {"present"})
           /\ IsTable(k.memberSkills, Identities \X Skills, {"present"})
           /\ IsTable(k.assignments, Assignments, AssignmentRows)
           /\ IsTable(k.assetLinks, Assignments \X Assets, {"present"})
           /\ IsTable(k.eams, Snapshots \cup Numbers, ReportRows)
BY DEF TablesOK, Whole, MissionRows, TeamRows, MemberRows, AssignmentRows, ReportRows

LEMMA MissionsChanged ==
  ASSUME NEW k, TablesOK(k), NEW f, IsTable(f, Missions, MissionRows)
  PROVE  TablesOK([k EXCEPT !.missions = f])
BY TablesParts DEF Whole, Tables

LEMMA PlacesChanged ==
  ASSUME NEW k, TablesOK(k), NEW f, IsTable(f, Places \cup Numbers, {"present"})
  PROVE  TablesOK([k EXCEPT !.places = f])
BY TablesParts DEF Whole, Tables

LEMMA PlaceLinksChanged ==
  ASSUME NEW k, TablesOK(k), NEW f, IsTable(f, Missions \X Places, {"present"})
  PROVE  TablesOK([k EXCEPT !.placeLinks = f])
BY TablesParts DEF Whole, Tables

LEMMA ChangesChanged ==
  ASSUME NEW k, TablesOK(k), NEW f, IsTable(f, Numbers, Missions)
  PROVE  TablesOK([k EXCEPT !.changes = f])
BY TablesParts DEF Whole, Tables

LEMMA LogsChanged ==
  ASSUME NEW k, TablesOK(k), NEW f, IsTable(f, Entries \cup Numbers, Missions)
  PROVE  TablesOK([k EXCEPT !.logs = f])
BY TablesParts DEF Whole, Tables

LEMMA TeamsChanged ==
  ASSUME NEW k, TablesOK(k), NEW f, IsTable(f, Teams, TeamRows)
  PROVE  TablesOK([k EXCEPT !.teams = f])
BY TablesParts DEF Whole, Tables

LEMMA TeamLinksChanged ==
  ASSUME NEW k, TablesOK(k), NEW f, IsTable(f, Missions \X Teams, {"present"})
  PROVE  TablesOK([k EXCEPT !.teamLinks = f])
BY TablesParts DEF Whole, Tables

LEMMA MembersChanged ==
  ASSUME NEW k, TablesOK(k), NEW f, IsTable(f, Members, MemberRows)
  PROVE  TablesOK([k EXCEPT !.members = f])
BY TablesParts DEF Whole, Tables

LEMMA ClientLinksChanged ==
  ASSUME NEW k, TablesOK(k), NEW f, IsTable(f, Members \X Clients, {"present"})
  PROVE  TablesOK([k EXCEPT !.clientLinks = f])
BY TablesParts DEF Whole, Tables

LEMMA AssetsChanged ==
  ASSUME NEW k, TablesOK(k), NEW f, IsTable(f, Assets, Members \cup {None})
  PROVE  TablesOK([k EXCEPT !.assets = f])
BY TablesParts DEF Whole, Tables

LEMMA SkillsChanged ==
  ASSUME NEW k, TablesOK(k), NEW f, IsTable(f, Skills, {"present"})
  PROVE  TablesOK([k EXCEPT !.skills = f])
BY TablesParts DEF Whole, Tables

LEMMA MemberSkillsChanged ==
  ASSUME NEW k, TablesOK(k), NEW f, IsTable(f, Identities \X Skills, {"present"})
  PROVE  TablesOK([k EXCEPT !.memberSkills = f])
BY TablesParts DEF Whole, Tables

LEMMA AssignmentsChanged ==
  ASSUME NEW k, TablesOK(k), NEW f, IsTable(f, Assignments, AssignmentRows)
  PROVE  TablesOK([k EXCEPT !.assignments = f])
BY TablesParts DEF Whole, Tables

LEMMA AssetLinksChanged ==
  ASSUME NEW k, TablesOK(k), NEW f, IsTable(f, Assignments \X Assets, {"present"})
  PROVE  TablesOK([k EXCEPT !.assetLinks = f])
BY TablesParts DEF Whole, Tables

LEMMA EamsChanged ==
  ASSUME NEW k, TablesOK(k), NEW f, IsTable(f, Snapshots \cup Numbers, ReportRows)
  PROVE  TablesOK([k EXCEPT !.eams = f])
BY TablesParts DEF Whole, Tables

--------------------------------------------------------------------------
(* Every command ends in tables of the right form.                         *)

Ready(w) == TablesOK(core[w]) /\ number[w] \in Numbers /\ command[w] \in AllRequests

Typed(w) == \E accepted, tables : Applied(w, accepted, tables) /\ TablesOK(tables)

LEMMA TypedBy ==
  ASSUME NEW w, NEW accepted, NEW tables, Applied(w, accepted, tables), TablesOK(tables)
  PROVE  Typed(w)
BY DEF Typed

LEMMA PlaceCreateTyped ==
  ASSUME NEW w \in Workers, Ready(w), PlaceCreate(w)
  PROVE  Typed(w)
<1> DEFINE c == command[w]
           k == core[w]
           f == With(k.places, {number[w]})
           tables == [k EXCEPT !.places = f]
<1>1. /\ c.op = "place.create"
      /\ Applied(w, TRUE, tables)
  BY DEF PlaceCreate, Loaded, Accept
<1>2. TablesOK(k) /\ number[w] \in Numbers /\ c \in AllRequests
  BY DEF Ready
<1>3. IsTable(f, Places \cup Numbers, {"present"})
  BY <1>2, KeysAdded, TablesParts
<1>4. TablesOK(tables)
  <2> HIDE DEF f, k
  <2>1. QED
    BY <1>2, <1>3, PlacesChanged
<1>5. QED
  BY <1>1, <1>2, <1>4, TypedBy

LEMMA PlaceDeleteTyped ==
  ASSUME NEW w \in Workers, Ready(w), PlaceDelete(w)
  PROVE  Typed(w)
<1> DEFINE c == command[w]
           k == core[w]
           f == Without(k.places, {c.place})
           tables == [k EXCEPT !.places = f]
<1>1. /\ c.op = "place.delete"
      /\ Applied(w, TRUE, tables) \/ Applied(w, FALSE, k)
  BY DEF PlaceDelete, Loaded, Accept, Reject
<1>2. TablesOK(k) /\ number[w] \in Numbers /\ c \in AllRequests
  BY DEF Ready
<1>3. IsTable(f, Places \cup Numbers, {"present"})
  BY <1>2, RowsGone, TablesParts
<1>4. TablesOK(tables)
  <2> HIDE DEF f, k
  <2>1. QED
    BY <1>2, <1>3, PlacesChanged
<1>5. QED
  BY <1>1, <1>2, <1>4, TypedBy

LEMMA PlaceLinkTyped ==
  ASSUME NEW w \in Workers, Ready(w), PlaceLink(w)
  PROVE  Typed(w)
<1> DEFINE c == command[w]
           k == core[w]
           f == With(k.placeLinks, {<<c.mission, c.place>>})
           tables == [k EXCEPT !.placeLinks = f]
<1>1. /\ c.op = "place.link"
      /\ Applied(w, TRUE, tables) \/ Applied(w, FALSE, k)
  BY DEF PlaceLink, Loaded, Accept, Reject
<1>2. TablesOK(k) /\ number[w] \in Numbers /\ c \in AllRequests
  BY DEF Ready
<1>3. c.mission \in Missions /\ c.place \in Places
  BY <1>1, <1>2 DEF AllRequests
<1>4. IsTable(f, Missions \X Places, {"present"})
  <2>1. {<<c.mission, c.place>>} \subseteq Missions \X Places
    BY <1>3
  <2>2. QED
    BY <1>2, <2>1, KeysAdded, TablesParts
<1>5. TablesOK(tables)
  <2> HIDE DEF f, k
  <2>1. QED
    BY <1>2, <1>4, PlaceLinksChanged
<1>6. QED
  BY <1>1, <1>2, <1>5, TypedBy

LEMMA PlaceUnlinkTyped ==
  ASSUME NEW w \in Workers, Ready(w), PlaceUnlink(w)
  PROVE  Typed(w)
<1> DEFINE c == command[w]
           k == core[w]
           f == Without(k.placeLinks, {<<c.mission, c.place>>})
           tables == [k EXCEPT !.placeLinks = f]
<1>1. /\ c.op = "place.unlink"
      /\ Applied(w, TRUE, tables) \/ Applied(w, FALSE, k)
  BY DEF PlaceUnlink, Loaded, Accept, Reject
<1>2. TablesOK(k) /\ number[w] \in Numbers /\ c \in AllRequests
  BY DEF Ready
<1>3. IsTable(f, Missions \X Places, {"present"})
  BY <1>2, RowsGone, TablesParts
<1>4. TablesOK(tables)
  <2> HIDE DEF f, k
  <2>1. QED
    BY <1>2, <1>3, PlaceLinksChanged
<1>5. QED
  BY <1>1, <1>2, <1>4, TypedBy

LEMMA ChangeUpsertTyped ==
  ASSUME NEW w \in Workers, Ready(w), ChangeUpsert(w)
  PROVE  Typed(w)
<1> DEFINE c == command[w]
           k == core[w]
           f == Put(k.changes, number[w], c.mission)
           tables == [k EXCEPT !.changes = f]
<1>1. /\ c.op = "change.upsert"
      /\ Applied(w, TRUE, tables) \/ Applied(w, FALSE, k)
  BY DEF ChangeUpsert, Loaded, Accept, Reject
<1>2. TablesOK(k) /\ number[w] \in Numbers /\ c \in AllRequests
  BY DEF Ready
<1>3. c.mission \in Missions
  BY <1>1, <1>2 DEF AllRequests
<1>4. IsTable(f, Numbers, Missions)
  BY <1>2, <1>3, RowPut, TablesParts
<1>5. TablesOK(tables)
  <2> HIDE DEF f, k
  <2>1. QED
    BY <1>2, <1>4, ChangesChanged
<1>6. QED
  BY <1>1, <1>2, <1>5, TypedBy

LEMMA SkillUpsertTyped ==
  ASSUME NEW w \in Workers, Ready(w), SkillUpsert(w)
  PROVE  Typed(w)
<1> DEFINE c == command[w]
           k == core[w]
           f == With(k.skills, {c.skill})
           tables == [k EXCEPT !.skills = f]
<1>1. /\ c.op = "skill.upsert"
      /\ Applied(w, TRUE, tables)
  BY DEF SkillUpsert, Loaded, Accept
<1>2. TablesOK(k) /\ number[w] \in Numbers /\ c \in AllRequests
  BY DEF Ready
<1>3. c.skill \in Skills
  BY <1>1, <1>2 DEF AllRequests
<1>4. IsTable(f, Skills, {"present"})
  BY <1>2, <1>3, KeysAdded, TablesParts
<1>5. TablesOK(tables)
  <2> HIDE DEF f, k
  <2>1. QED
    BY <1>2, <1>4, SkillsChanged
<1>6. QED
  BY <1>1, <1>2, <1>5, TypedBy

LEMMA MemberSkillTyped ==
  ASSUME NEW w \in Workers, Ready(w), MemberSkill(w)
  PROVE  Typed(w)
<1> DEFINE c == command[w]
           k == core[w]
           f == With(k.memberSkills, {<<c.identity, c.skill>>})
           tables == [k EXCEPT !.memberSkills = f]
<1>1. /\ c.op = "member.skill"
      /\ Applied(w, TRUE, tables) \/ Applied(w, FALSE, k)
  BY DEF MemberSkill, Loaded, Accept, Reject
<1>2. TablesOK(k) /\ number[w] \in Numbers /\ c \in AllRequests
  BY DEF Ready
<1>3. c.identity \in Identities /\ c.skill \in Skills
  BY <1>1, <1>2 DEF AllRequests
<1>4. IsTable(f, Identities \X Skills, {"present"})
  <2>1. {<<c.identity, c.skill>>} \subseteq Identities \X Skills
    BY <1>3
  <2>2. QED
    BY <1>2, <2>1, KeysAdded, TablesParts
<1>5. TablesOK(tables)
  <2> HIDE DEF f, k
  <2>1. QED
    BY <1>2, <1>4, MemberSkillsChanged
<1>6. QED
  BY <1>1, <1>2, <1>5, TypedBy

LEMMA MissionDeleteTyped ==
  ASSUME NEW w \in Workers, Ready(w), MissionDelete(w)
  PROVE  Typed(w)
<1> DEFINE m == command[w].mission
           k == core[w]
           f == [k.missions EXCEPT ![m].deleted = TRUE]
           tables == [k EXCEPT !.missions = f]
<1>1. \/ m \in DOMAIN k.missions /\ Applied(w, TRUE, tables)
      \/ Applied(w, FALSE, k)
  BY DEF MissionDelete, Accept, Reject
<1>2. TablesOK(k)
  BY DEF Ready
<1>3. ASSUME m \in DOMAIN k.missions
      PROVE  IsTable(f, Missions, MissionRows)
  <2>1. IsTable(k.missions, Missions, MissionRows)
    BY <1>2, TablesParts
  <2>2. [k.missions[m] EXCEPT !.deleted = TRUE] \in MissionRows
    BY <1>3, <2>1, TableIs DEF MissionRows
  <2>3. QED
    BY <1>3, <2>1, <2>2, RowReplaced
<1>4. ASSUME m \in DOMAIN k.missions
      PROVE  TablesOK(tables)
  <2> HIDE DEF f, k
  <2>1. QED
    BY <1>2, <1>3, <1>4, MissionsChanged
<1>5. QED
  BY <1>1, <1>2, <1>4, TypedBy

LEMMA MissionUpsertTyped ==
  ASSUME NEW w \in Workers, Ready(w), MissionUpsert(w)
  PROVE  Typed(w)
<1> DEFINE c == command[w]
           k == core[w]
           mission == IF c.mission \in DOMAIN k.missions THEN k.missions[c.mission] ELSE Fresh
           parent == IF c.parent = Keep THEN mission.parent ELSE c.parent
           f == Put(k.missions, c.mission, [mission EXCEPT !.parent = parent])
           tables == [k EXCEPT !.missions = f]
<1>1. /\ c.op \in {"mission.upsert", "mission.patch", "parent.set"}
      /\ Applied(w, TRUE, tables) \/ Applied(w, FALSE, k)
  BY DEF MissionUpsert, Loaded, Accept, Reject
<1>2. TablesOK(k) /\ number[w] \in Numbers /\ c \in AllRequests
  BY DEF Ready
<1>3. c.mission \in Missions /\ c.parent \in Missions \cup {None, Keep}
  BY <1>1, <1>2 DEF AllRequests
<1>4. IsTable(f, Missions, MissionRows)
  <2>1. mission \in MissionRows
    BY <1>2, TablesParts, TableIs DEF Fresh, MissionRows
  <2>2. [mission EXCEPT !.parent = parent] \in MissionRows
    BY <1>3, <2>1 DEF MissionRows
  <2>3. QED
    BY <1>2, <1>3, <2>2, RowPut, TablesParts
<1>5. TablesOK(tables)
  <2> HIDE DEF f, k
  <2>1. QED
    BY <1>2, <1>4, MissionsChanged
<1>6. QED
  BY <1>1, <1>2, <1>5, TypedBy

LEMMA MemberUpsertTyped ==
  ASSUME NEW w \in Workers, Ready(w), MemberUpsert(w)
  PROVE  Typed(w)
<1> DEFINE c == command[w]
           k == core[w]
           held == IF c.member \in DOMAIN k.members THEN k.members[c.member].team ELSE None
           team == IF c.team = Keep THEN held ELSE c.team
           row  == [team |-> team, identity |-> c.identity,
                    clients |-> ClientsOf(k, c.member)]
           f == Put(k.members, c.member, row)
           tables == [k EXCEPT !.members = f]
<1>1. /\ c.op = "member.upsert"
      /\ Applied(w, TRUE, tables) \/ Applied(w, FALSE, k)
  BY DEF MemberUpsert, Loaded, Accept, Reject
<1>2. TablesOK(k) /\ number[w] \in Numbers /\ c \in AllRequests
  BY DEF Ready
<1>3. /\ c.member \in Members /\ c.identity \in Identities
      /\ c.team \in Teams \cup {None, Keep}
  BY <1>1, <1>2 DEF AllRequests
<1>4. IsTable(f, Members, MemberRows)
  <2>1. held \in Teams \cup {None}
    BY <1>2, TablesParts, TableIs DEF MemberRows
  <2>2. ClientsOf(k, c.member) \in SUBSET Clients
    BY DEF ClientsOf
  <2>3. row \in MemberRows
    BY <1>3, <2>1, <2>2 DEF MemberRows
  <2>4. QED
    BY <1>2, <1>3, <2>3, RowPut, TablesParts
<1>5. TablesOK(tables)
  <2> HIDE DEF f, k
  <2>1. QED
    BY <1>2, <1>4, MembersChanged
<1>6. QED
  BY <1>1, <1>2, <1>5, TypedBy

LEMMA AssetUpsertTyped ==
  ASSUME NEW w \in Workers, Ready(w), AssetUpsert(w)
  PROVE  Typed(w)
<1> DEFINE c == command[w]
           k == core[w]
           held == IF c.asset \in DOMAIN k.assets THEN k.assets[c.asset] ELSE None
           owner == IF c.owner = Keep THEN held ELSE c.owner
           f == Put(k.assets, c.asset, owner)
           tables == [k EXCEPT !.assets = f]
<1>1. /\ c.op = "asset.upsert"
      /\ Applied(w, TRUE, tables) \/ Applied(w, FALSE, k)
  BY DEF AssetUpsert, Loaded, Accept, Reject
<1>2. TablesOK(k) /\ number[w] \in Numbers /\ c \in AllRequests
  BY DEF Ready
<1>3. c.asset \in Assets /\ c.owner \in Members \cup {None, Keep}
  BY <1>1, <1>2 DEF AllRequests
<1>4. IsTable(f, Assets, Members \cup {None})
  <2>1. held \in Members \cup {None}
    BY <1>2, TablesParts, TableIs
  <2>2. owner \in Members \cup {None}
    BY <1>3, <2>1
  <2>3. QED
    BY <1>2, <1>3, <2>2, RowPut, TablesParts
<1>5. TablesOK(tables)
  <2> HIDE DEF f, k
  <2>1. QED
    BY <1>2, <1>4, AssetsChanged
<1>6. QED
  BY <1>1, <1>2, <1>5, TypedBy

LEMMA TouchTyped ==
  ASSUME NEW w \in Workers, Ready(w), Touch(w)
  PROVE  Typed(w)
BY TypedBy DEF Ready, Touch, Accept, Reject

LEMMA LogUpsertTyped ==
  ASSUME NEW w \in Workers, Ready(w), LogUpsert(w)
  PROVE  Typed(w)
<1> DEFINE c == command[w]
           k == core[w]
           mission == IF c.mission = None THEN Default ELSE c.mission
           key == IF c.entry = None THEN number[w] ELSE c.entry
           made == [k EXCEPT !.missions = Put(k.missions, Default, Fresh)]
           housed == IF c.mission = None /\ Default \notin DOMAIN k.missions THEN made ELSE k
           written == [housed EXCEPT !.logs = Put(housed.logs, key, mission)]
           tables == [housed EXCEPT !.logs    = Put(@, key, mission),
                                    !.changes = Put(@, number[w], mission)]
<1>1. c.op = "log.upsert" /\ (Applied(w, TRUE, tables) \/ Applied(w, FALSE, housed))
  BY DEF LogUpsert, Loaded, Accept, Reject
<1>2. TablesOK(k) /\ number[w] \in Numbers /\ c \in AllRequests
  BY DEF Ready
<1>3. c.entry \in Entries \cup {None} /\ c.mission \in Missions \cup {None}
  BY <1>1, <1>2 DEF AllRequests
<1>4. mission \in Missions /\ key \in Entries \cup Numbers
  BY <1>2, <1>3, RegistryAssumption
<1>5. TablesOK(made)
  <2>1. Fresh \in MissionRows
    BY DEF Fresh, MissionRows
  <2>2. IsTable(Put(k.missions, Default, Fresh), Missions, MissionRows)
    BY <1>2, <2>1, RowPut, TablesParts, RegistryAssumption
  <2>3. QED
    BY <1>2, <2>2, MissionsChanged
<1>6. TablesOK(housed)
  BY <1>2, <1>5
<1> HIDE DEF housed, mission, key
<1>7. TablesOK(written)
  <2>1. IsTable(Put(housed.logs, key, mission), Entries \cup Numbers, Missions)
    BY <1>4, <1>6, RowPut, TablesParts
  <2>2. QED
    BY <1>6, <2>1, LogsChanged
<1>8. tables = [written EXCEPT !.changes = Put(written.changes, number[w], mission)]
  BY <1>6 DEF TablesOK, Tables
<1> HIDE DEF written
<1>9. IsTable(Put(written.changes, number[w], mission), Numbers, Missions)
  BY <1>2, <1>4, <1>7, RowPut, TablesParts
<1>10. TablesOK(tables)
  BY <1>7, <1>8, <1>9, ChangesChanged
<1>11. QED
  BY <1>1, <1>6, <1>10, TypedBy

LEMMA RelinkedTyped ==
  ASSUME NEW k, TablesOK(k), NEW t \in Teams, NEW missions \in SUBSET Missions
  PROVE  TablesOK(Relinked(k, t, missions))
<1> DEFINE rest == Restrict(k.teamLinks, {l \in DOMAIN k.teamLinks : l[2] # t})
           f == With(rest, missions \X {t})
<1>1. IsTable(rest, Missions \X Teams, {"present"})
  BY RowsKept, TablesParts
<1>2. missions \X {t} \subseteq Missions \X Teams
  OBVIOUS
<1> HIDE DEF rest
<1>3. IsTable(f, Missions \X Teams, {"present"})
  BY <1>1, <1>2, KeysAdded
<1>4. Relinked(k, t, missions) = [k EXCEPT !.teamLinks = f]
  BY DEF Relinked, rest
<1> HIDE DEF f
<1>5. QED
  BY <1>3, <1>4, TeamLinksChanged

\* A team is written, be it new or there.
LEMMA TeamWrittenTyped ==
  ASSUME NEW k, TablesOK(k), NEW t \in Teams, NEW row \in TeamRows
  PROVE  /\ TablesOK([k EXCEPT !.teams = Put(@, t, row)])
         /\ t \in DOMAIN k.teams => TablesOK([k EXCEPT !.teams[t] = row])
<1>1. IsTable(k.teams, Teams, TeamRows)
  BY TablesParts
<1>2. IsTable(Put(k.teams, t, row), Teams, TeamRows)
  BY <1>1, RowPut
<1>3. t \in DOMAIN k.teams => IsTable([k.teams EXCEPT ![t] = row], Teams, TeamRows)
  BY <1>1, RowReplaced
<1>4. QED
  BY <1>2, <1>3, TeamsChanged

LEMMA TeamUpsertTyped ==
  ASSUME NEW w \in Workers, Ready(w), TeamUpsert(w)
  PROVE  Typed(w)
<1> DEFINE c == command[w]
           k == core[w]
           team == IF c.team \in DOMAIN k.teams THEN k.teams[c.team] ELSE NewTeam
           relinked == IF c.missions = Keep THEN k ELSE Relinked(k, c.team, c.missions)
           same == [k EXCEPT !.teams = Put(@, c.team, team)]
           row(f) == [missions |-> c.missions, first |-> f]
           tables(f) == [relinked EXCEPT !.teams = Put(@, c.team, row(f))]
<1>1. /\ c.op = "team.upsert"
      /\ \/ Applied(w, FALSE, k)
         \/ Applied(w, FALSE, relinked)
         \/ Applied(w, TRUE, same)
         \/ c.missions # Keep /\ \E f \in Firsts(c.missions) : Applied(w, TRUE, tables(f))
  BY DEF TeamUpsert, Loaded, Accept, Reject
<1>2. TablesOK(k) /\ c \in AllRequests
  BY DEF Ready
<1>3. c.team \in Teams /\ c.missions \in (SUBSET Missions) \cup {Keep}
  BY <1>1, <1>2, TeamUpsertRequest
<1>4. TablesOK(relinked)
  BY <1>2, <1>3, RelinkedTyped
<1>5. TablesOK(same)
  <2>1. team \in TeamRows
    BY <1>2, TablesParts, TableIs DEF NewTeam, TeamRows
  <2> HIDE DEF team
  <2>2. QED
    BY <1>2, <1>3, <2>1, TeamWrittenTyped
<1> HIDE DEF relinked, same
<1>6. ASSUME c.missions # Keep, NEW f \in Firsts(c.missions)
      PROVE  TablesOK(tables(f))
  <2>1. row(f) \in TeamRows
    BY <1>3, <1>6 DEF Firsts, TeamRows
  <2> HIDE DEF row
  <2>2. QED
    BY <1>3, <1>4, <2>1, TeamWrittenTyped
<1>7. QED
  BY <1>1, <1>2, <1>4, <1>5, <1>6, TypedBy

LEMMA TeamDeleteTyped ==
  ASSUME NEW w \in Workers, Ready(w), TeamDelete(w)
  PROVE  Typed(w)
<1> DEFINE t == command[w].team
           k == core[w]
           teams == Without(k.teams, {t})
           members == [u \in DOMAIN k.members |-> IF k.members[u].team = t
                         THEN [k.members[u] EXCEPT !.team = None] ELSE k.members[u]]
           links == Restrict(k.teamLinks, {l \in DOMAIN k.teamLinks : l[2] # t})
           tables == [k EXCEPT !.teams = teams, !.members = members, !.teamLinks = links]
<1>1. Applied(w, TRUE, tables) \/ Applied(w, FALSE, k)
  BY DEF TeamDelete, Accept, Reject
<1>2. TablesOK(k)
  BY DEF Ready
<1>3. IsTable(teams, Teams, TeamRows) /\ IsTable(links, Missions \X Teams, {"present"})
  BY <1>2, RowsGone, RowsKept, TablesParts
<1>4. IsTable(members, Members, MemberRows)
  <2>1. IsTable(k.members, Members, MemberRows)
    BY <1>2, TablesParts
  <2>2. /\ members = [u \in DOMAIN members |-> members[u]]
        /\ DOMAIN members = DOMAIN k.members
    OBVIOUS
  <2>3. \A u \in DOMAIN k.members : members[u] \in MemberRows
    BY <2>1, TableIs DEF MemberRows
  <2> HIDE DEF members
  <2>4. QED
    BY <2>1, <2>2, <2>3, RowsReplaced
<1>5. TablesOK(tables)
  <2> HIDE DEF teams, members, links, k
  <2>1. QED
    BY <1>2, <1>3, <1>4, TablesParts DEF Whole, Tables
<1>6. QED
  BY <1>1, <1>2, <1>5, TypedBy

LEMMA TeamMissionTyped ==
  ASSUME NEW w \in Workers, Ready(w), TeamMission(w)
  PROVE  Typed(w)
<1> DEFINE c == command[w]
           k == core[w]
           linked == MissionsOf(k, c.team)
           first == IF c.team \in DOMAIN k.teams THEN k.teams[c.team].first ELSE None
           held == linked \cup ({first} \ {None})
           missions == IF c.op = "team.link" THEN held \cup {c.mission}
                                             ELSE held \ {c.mission}
           ahead == IF linked \cap missions # {} THEN linked \cap missions
                    ELSE IF held \cap missions # {} THEN held \cap missions ELSE missions
           relinked == Relinked(k, c.team, missions)
           row(f) == [missions |-> missions, first |-> f]
           tables(f) == [relinked EXCEPT !.teams[c.team] = row(f)]
<1>1. /\ c.op \in {"team.link", "team.unlink"}
      /\ \/ Applied(w, FALSE, k)
         \/ Applied(w, FALSE, relinked)
         \/ c.team \in DOMAIN k.teams /\ \E f \in Firsts(ahead) : Applied(w, TRUE, tables(f))
  BY DEF TeamMission, Loaded, Accept, Reject
<1>2. TablesOK(k) /\ c \in AllRequests
  BY DEF Ready
<1>3. c.team \in Teams /\ c.mission \in Missions
  BY <1>1, <1>2, TeamMissionRequest
<1>4. missions \in SUBSET Missions
  <2>1. first \in Missions \cup {None}
    BY <1>2, TablesParts, TableIs DEF TeamRows
  <2>2. linked \subseteq Missions
    BY DEF MissionsOf
  <2>3. QED
    BY <1>3, <2>1, <2>2
<1>5. ahead \subseteq missions
  OBVIOUS
<1> HIDE DEF missions, ahead
<1>6. TablesOK(relinked)
  BY <1>2, <1>3, <1>4, RelinkedTyped
<1>7. relinked.teams = k.teams
  BY <1>2, TablesAreWhole DEF Whole, Tables, Relinked
<1> HIDE DEF relinked
<1>8. ASSUME c.team \in DOMAIN k.teams, NEW f \in Firsts(ahead)
      PROVE  TablesOK(tables(f))
  <2>1. row(f) \in TeamRows
    BY <1>4, <1>5, <1>8 DEF Firsts, TeamRows
  <2> HIDE DEF row
  <2>2. QED
    BY <1>3, <1>6, <1>7, <1>8, <2>1, TeamWrittenTyped
<1>9. QED
  BY <1>1, <1>2, <1>6, <1>8, TypedBy

LEMMA MemberDeleteTyped ==
  ASSUME NEW w \in Workers, Ready(w), MemberDelete(w)
  PROVE  Typed(w)
<1> DEFINE u == command[w].member
           k == core[w]
           members == Without(k.members, {u})
           assets == [a \in DOMAIN k.assets |-> IF k.assets[a] = u THEN None
                                                ELSE k.assets[a]]
           links == Restrict(k.clientLinks, {l \in DOMAIN k.clientLinks : l[1] # u})
           skills == Restrict(k.memberSkills, {s \in DOMAIN k.memberSkills :
                                                 s[1] # k.members[u].identity})
           tables == [k EXCEPT !.members = members, !.assets = assets,
                               !.clientLinks = links, !.memberSkills = skills]
<1>1. Applied(w, TRUE, tables) \/ Applied(w, FALSE, k)
  BY DEF MemberDelete, Accept, Reject
<1>2. TablesOK(k)
  BY DEF Ready
<1>3. /\ IsTable(members, Members, MemberRows)
      /\ IsTable(links, Members \X Clients, {"present"})
      /\ IsTable(skills, Identities \X Skills, {"present"})
  BY <1>2, RowsGone, RowsKept, TablesParts
<1>4. IsTable(assets, Assets, Members \cup {None})
  <2>1. IsTable(k.assets, Assets, Members \cup {None})
    BY <1>2, TablesParts
  <2>2. /\ assets = [a \in DOMAIN assets |-> assets[a]] /\ DOMAIN assets = DOMAIN k.assets
        /\ \A a \in DOMAIN assets : assets[a] \in {None, k.assets[a]}
    OBVIOUS
  <2> HIDE DEF assets
  <2>3. QED
    BY <2>1, <2>2, TableIs
<1>5. TablesOK(tables)
  <2> HIDE DEF members, assets, links, skills, k
  <2>1. QED
    BY <1>2, <1>3, <1>4, TablesParts DEF Whole, Tables
<1>6. QED
  BY <1>1, <1>2, <1>5, TypedBy

\* The clients of a member are read from the links.
LEMMA RefreshedTyped ==
  ASSUME NEW k, TablesOK(k), NEW u \in DOMAIN k.members
  PROVE  TablesOK(Refreshed(k, u))
<1> DEFINE row == [k.members[u] EXCEPT !.clients = ClientsOf(k, u)]
           f == [k.members EXCEPT ![u] = row]
<1>1. IsTable(k.members, Members, MemberRows)
  BY TablesParts
<1>2. row \in MemberRows
  <2>1. k.members[u] \in MemberRows
    BY <1>1, TableIs
  <2>2. ClientsOf(k, u) \in SUBSET Clients
    BY DEF ClientsOf
  <2>3. QED
    BY <2>1, <2>2 DEF MemberRows
<1>3. Refreshed(k, u) = [k EXCEPT !.members = f]
  BY DEF Refreshed
<1> HIDE DEF row
<1>4. IsTable(f, Members, MemberRows)
  BY <1>1, <1>2, RowReplaced
<1> HIDE DEF f
<1>5. QED
  BY <1>3, <1>4, MembersChanged

LEMMA ClientLinkTyped ==
  ASSUME NEW w \in Workers, Ready(w), ClientLink(w)
  PROVE  Typed(w)
<1> DEFINE c == command[w]
           k == core[w]
           f == With(k.clientLinks, {<<c.member, c.client>>})
           linked == [k EXCEPT !.clientLinks = f]
<1>1. /\ c.op = "client.link"
      /\ \/ c.member \in DOMAIN k.members /\ Applied(w, TRUE, Refreshed(linked, c.member))
         \/ Applied(w, FALSE, k)
  BY DEF ClientLink, Loaded, Accept, Reject
<1>2. TablesOK(k) /\ c \in AllRequests
  BY DEF Ready
<1>3. c.member \in Members /\ c.client \in Clients
  BY <1>1, <1>2 DEF AllRequests
<1>4. IsTable(f, Members \X Clients, {"present"})
  <2>1. {<<c.member, c.client>>} \subseteq Members \X Clients
    BY <1>3
  <2>2. QED
    BY <1>2, <2>1, KeysAdded, TablesParts
<1> HIDE DEF f
<1>5. TablesOK(linked) /\ linked.members = k.members
  <2>1. TablesOK(linked)
    BY <1>2, <1>4, ClientLinksChanged
  <2>2. linked.members = k.members
    BY <1>2, TablesAreWhole DEF Whole, Tables
  <2>3. QED
    BY <2>1, <2>2
<1> HIDE DEF linked
<1>6. QED
  BY <1>1, <1>2, <1>5, RefreshedTyped, TypedBy

LEMMA ClientUnlinkTyped ==
  ASSUME NEW w \in Workers, Ready(w), ClientUnlink(w)
  PROVE  Typed(w)
<1> DEFINE c == command[w]
           k == core[w]
           f == Without(k.clientLinks, {<<c.member, c.client>>})
           unlinked == [k EXCEPT !.clientLinks = f]
<1>1. \/ /\ c.member \in DOMAIN unlinked.members
         /\ Applied(w, TRUE, Refreshed(unlinked, c.member))
      \/ Applied(w, FALSE, unlinked)
  BY DEF ClientUnlink, Accept, Reject
<1>2. TablesOK(k)
  BY DEF Ready
<1>3. IsTable(f, Members \X Clients, {"present"})
  BY <1>2, RowsGone, TablesParts
<1> HIDE DEF f
<1>4. TablesOK(unlinked)
  BY <1>2, <1>3, ClientLinksChanged
<1> HIDE DEF unlinked
<1>5. QED
  BY <1>1, <1>4, RefreshedTyped, TypedBy

LEMMA AssetDeleteTyped ==
  ASSUME NEW w \in Workers, Ready(w), AssetDelete(w)
  PROVE  Typed(w)
<1> DEFINE a == command[w].asset
           k == core[w]
           assets == Without(k.assets, {a})
           links == Restrict(k.assetLinks, {l \in DOMAIN k.assetLinks : l[2] # a})
           rows == [x \in DOMAIN k.assignments |->
                      [k.assignments[x] EXCEPT !.assets = k.assignments[x].assets \ {a}]]
           tables == [k EXCEPT
             !.assets      = Without(@, {a}),
             !.assetLinks  = Restrict(@, {l \in DOMAIN @ : l[2] # a}),
             !.assignments = [x \in DOMAIN @ |->
                               [@[x] EXCEPT !.assets = k.assignments[x].assets \ {a}]]]
<1>1. Applied(w, TRUE, tables) \/ Applied(w, FALSE, k)
  BY DEF AssetDelete, Accept, Reject
<1>2. TablesOK(k)
  BY DEF Ready
<1>3. /\ IsTable(assets, Assets, Members \cup {None})
      /\ IsTable(links, Assignments \X Assets, {"present"})
  BY <1>2, RowsGone, RowsKept, TablesParts
<1>4. IsTable(rows, Assignments, AssignmentRows)
  <2>1. IsTable(k.assignments, Assignments, AssignmentRows)
    BY <1>2, TablesParts
  <2>2. rows = [x \in DOMAIN rows |-> rows[x]] /\ DOMAIN rows = DOMAIN k.assignments
    OBVIOUS
  <2>3. ASSUME NEW x \in DOMAIN k.assignments
        PROVE  rows[x] \in AssignmentRows
    <3>1. k.assignments[x] \in AssignmentRows
      BY <2>1, TableIs
    <3>2. k.assignments[x].assets \ {a} \in SUBSET Assets
      BY <3>1 DEF AssignmentRows
    <3>3. [k.assignments[x] EXCEPT !.assets = @ \ {a}] \in AssignmentRows
      BY <3>1, <3>2 DEF AssignmentRows
    <3>4. QED
      BY <3>3
  <2> HIDE DEF rows
  <2>4. QED
    BY <2>1, <2>2, <2>3, RowsReplaced
<1>5. TablesOK(tables)
  <2>1. /\ tables.assets = assets /\ tables.assetLinks = links
        /\ tables.assignments = rows
    BY <1>2, TablesAreWhole DEF Whole, Tables
  <2>2. /\ Whole(tables)
        /\ \A t \in Tables \ {"assets", "assetLinks", "assignments"} : tables[t] = k[t]
    BY <1>2, TablesAreWhole DEF Whole, Tables
  <2> HIDE DEF assets, links, rows, k, tables
  <2>3. QED
    BY <1>2, <1>3, <1>4, <2>1, <2>2, TablesParts DEF Tables
<1>6. QED
  BY <1>1, <1>2, <1>5, TypedBy

\* An assignment that is there gets its assets and the links to them.
LEMMA EquippedTyped ==
  ASSUME NEW k, TablesOK(k), NEW x \in DOMAIN k.assignments, NEW assets \in SUBSET Assets
  PROVE  TablesOK(Equipped(k, x, assets))
<1> DEFINE row == [k.assignments[x] EXCEPT !.assets = assets]
           rows == [k.assignments EXCEPT ![x] = row]
           rest == Restrict(k.assetLinks, {l \in DOMAIN k.assetLinks : l[1] # x})
           links == With(rest, {x} \X assets)
<1>1. IsTable(k.assignments, Assignments, AssignmentRows)
  BY TablesParts
<1>2. x \in Assignments /\ row \in AssignmentRows
  <2>1. x \in Assignments /\ k.assignments[x] \in AssignmentRows
    BY <1>1, TableIs
  <2>2. QED
    BY <2>1 DEF AssignmentRows
<1>3. Equipped(k, x, assets) = [k EXCEPT !.assignments = rows, !.assetLinks = links]
  BY TablesAreWhole DEF Equipped, Whole, Tables
<1> HIDE DEF row
<1>4. IsTable(rows, Assignments, AssignmentRows)
  BY <1>1, <1>2, RowReplaced
<1>5. IsTable(links, Assignments \X Assets, {"present"})
  <2>1. IsTable(rest, Assignments \X Assets, {"present"})
    BY RowsKept, TablesParts
  <2>2. {x} \X assets \subseteq Assignments \X Assets
    BY <1>2
  <2> HIDE DEF rest
  <2>3. QED
    BY <2>1, <2>2, KeysAdded
<1>6. TablesOK([k EXCEPT !.assignments = rows, !.assetLinks = links])
  <2> HIDE DEF rows, links
  <2>1. QED
    BY <1>4, <1>5, TablesParts DEF Whole, Tables
<1>7. QED
  BY <1>3, <1>6

LEMMA AssignmentUpsertTyped ==
  ASSUME NEW w \in Workers, Ready(w), AssignmentUpsert(w)
  PROVE  Typed(w)
<1> DEFINE c == command[w]
           k == core[w]
           held == IF c.assignment \in DOMAIN k.assignments
                   THEN k.assignments[c.assignment].assets ELSE {}
           assets == IF c.assets = Keep THEN held ELSE c.assets
           row == [mission |-> c.mission, identity |-> c.identity, assets |-> assets]
           f == Put(k.assignments, c.assignment, row)
           put == [k EXCEPT !.assignments = f]
<1>1. /\ c.op = "assignment.upsert"
      /\ \/ Applied(w, TRUE, Equipped(put, c.assignment, assets))
         \/ Applied(w, FALSE, k)
  BY DEF AssignmentUpsert, Loaded, Accept, Reject
<1>2. TablesOK(k) /\ c \in AllRequests
  BY DEF Ready
<1>3. /\ c.assignment \in Assignments /\ c.mission \in Missions /\ c.identity \in Identities
      /\ c.assets \in (SUBSET Assets) \cup {Keep}
  BY <1>1, <1>2 DEF AllRequests
<1>4. IsTable(k.assignments, Assignments, AssignmentRows)
  BY <1>2, TablesParts
<1>5. assets \in SUBSET Assets
  <2>1. held \in SUBSET Assets
    BY <1>4, TableIs DEF AssignmentRows
  <2>2. QED
    BY <1>3, <2>1
<1> HIDE DEF assets
<1>6. row \in AssignmentRows
  BY <1>3, <1>5 DEF AssignmentRows
<1> HIDE DEF row
<1>7. IsTable(f, Assignments, AssignmentRows) /\ c.assignment \in DOMAIN f
  BY <1>3, <1>4, <1>6, RowPut DEF Put, Written
<1> HIDE DEF f
<1>8. TablesOK(put) /\ c.assignment \in DOMAIN put.assignments
  <2>1. TablesOK(put)
    BY <1>2, <1>7, AssignmentsChanged
  <2>2. put.assignments = f
    BY <1>2, TablesAreWhole DEF Whole, Tables
  <2>3. QED
    BY <1>7, <2>1, <2>2
<1> HIDE DEF put
<1>9. TablesOK(Equipped(put, c.assignment, assets))
  BY <1>5, <1>8, EquippedTyped
<1>10. QED
  BY <1>1, <1>2, <1>9, TypedBy

LEMMA AssignmentAssetsRequest ==
  ASSUME NEW c \in AllRequests, c.op \in {"assets.set", "asset.link", "asset.unlink"}
  PROVE  /\ c.op = "assets.set" => c.assets \in SUBSET Assets
         /\ c.op # "assets.set" => c.asset \in Assets
BY DEF AllRequests

LEMMA AssignmentAssetsTyped ==
  ASSUME NEW w \in Workers, Ready(w), AssignmentAssets(w)
  PROVE  Typed(w)
<1> DEFINE c == command[w]
           k == core[w]
           held == IF c.assignment \in DOMAIN k.assignments
                   THEN k.assignments[c.assignment].assets ELSE {}
           assets == CASE c.op = "assets.set"   -> c.assets
                       [] c.op = "asset.link"   -> held \cup {c.asset}
                       [] c.op = "asset.unlink" -> held \ {c.asset}
<1>1. /\ c.op \in {"assets.set", "asset.link", "asset.unlink"}
      /\ \/ /\ c.assignment \in DOMAIN k.assignments
            /\ Applied(w, TRUE, Equipped(k, c.assignment, assets))
         \/ Applied(w, FALSE, k)
  BY DEF AssignmentAssets, Loaded, Accept, Reject
<1>2. TablesOK(k) /\ c \in AllRequests
  BY DEF Ready
<1>3. held \in SUBSET Assets
  BY <1>2, TablesParts, TableIs DEF AssignmentRows
<1> HIDE DEF held
<1>4. assets \in SUBSET Assets
  BY <1>1, <1>2, <1>3, AssignmentAssetsRequest
<1> HIDE DEF assets
<1>5. QED
  BY <1>1, <1>2, <1>4, EquippedTyped, TypedBy

LEMMA EamUpsertRequest ==
  ASSUME NEW c \in AllRequests, c.op = "eam.upsert"
  PROVE  /\ c.eam \in Snapshots \cup {None} /\ c.callsign \in Callsigns
         /\ c.member \in Members /\ c.team \in Teams /\ c.source \in Identities \cup {None}
         /\ c.ttl \in BOOLEAN
BY DEF AllRequests

LEMMA ProvisionedTyped ==
  ASSUME NEW k, TablesOK(k), NEW c \in AllRequests, c.op = "eam.upsert"
  PROVE  TablesOK(Provisioned(k, c).tables)
<1> DEFINE made == [k EXCEPT !.teams = Put(@, c.team, NewTeam)]
           team == IF c.team \in Canonical \ DOMAIN k.teams THEN made ELSE k
           row == [team |-> c.team, identity |-> c.source, clients |-> {}]
           full == [team EXCEPT !.members = Put(@, c.member, row)]
<1>1. TablesOK(made)
  <2>1. NewTeam \in TeamRows
    BY DEF NewTeam, TeamRows
  <2>2. QED
    BY <2>1, EamUpsertRequest, TeamWrittenTyped
<1>2. TablesOK(team)
  BY <1>1
<1>3. \/ Provisioned(k, c).tables \in {k, team}
      \/ c.source # None /\ Provisioned(k, c).tables = full
  <2>1. CASE c.team \notin DOMAIN team.teams
    BY <2>1 DEF Provisioned
  <2>2. CASE c.team \in DOMAIN team.teams /\ c.member \in DOMAIN k.members
    BY <2>2 DEF Provisioned
  <2>3. CASE c.team \in DOMAIN team.teams /\ c.member \notin DOMAIN k.members
    BY <2>3 DEF Provisioned
  <2>4. QED
    BY <2>1, <2>2, <2>3
<1> HIDE DEF team
<1>4. ASSUME c.source # None PROVE TablesOK(full)
  <2>1. row \in MemberRows /\ c.member \in Members
    BY <1>4, EamUpsertRequest DEF MemberRows
  <2> HIDE DEF row
  <2>2. IsTable(Put(team.members, c.member, row), Members, MemberRows)
    BY <1>2, <2>1, RowPut, TablesParts
  <2>3. QED
    BY <1>2, <2>2, MembersChanged
<1>5. QED
  BY <1>2, <1>3, <1>4

LEMMA EamUpsertTyped ==
  ASSUME NEW w \in Workers, Ready(w), EamUpsert(w)
  PROVE  Typed(w)
<1> DEFINE c == command[w]
           k == Provisioned(core[w], c).tables
           gone == {e \in DOMAIN k.eams :
                      /\ ~k.eams[e].active
                      /\ k.eams[e].member = c.member \/ k.eams[e].callsign = c.callsign}
           key(mine) == CASE c.eam # None -> c.eam
                          [] c.eam = None /\ mine # None -> mine
                          [] c.eam = None /\ mine = None /\ gone # {} ->
                               CHOOSE e \in gone : TRUE
                          [] OTHER -> number[w]
           row == [callsign |-> c.callsign, member |-> c.member, team |-> c.team,
                   ttl |-> c.ttl, active |-> TRUE]
           tables(mine) == [k EXCEPT !.eams = Put(@, key(mine), row)]
<1>1. /\ c.op = "eam.upsert"
      /\ \/ Applied(w, FALSE, k)
         \/ \E mine \in AnyOf(Active(k, "member", c.member)) : Applied(w, TRUE, tables(mine))
  BY DEF EamUpsert, Loaded, Accept, Reject
<1>2. TablesOK(core[w]) /\ number[w] \in Numbers /\ c \in AllRequests
  BY DEF Ready
<1>3. TablesOK(k)
  BY <1>1, <1>2, ProvisionedTyped
<1>4. row \in ReportRows
  BY <1>1, <1>2, EamUpsertRequest DEF ReportRows
<1> HIDE DEF k, row
<1>5. ASSUME NEW mine \in AnyOf(Active(k, "member", c.member))
      PROVE  TablesOK(tables(mine))
  <2>1. DOMAIN k.eams \subseteq Snapshots \cup Numbers
    BY <1>3, TablesParts, TableIs
  <2>2. mine # None => mine \in Snapshots \cup Numbers
    BY <1>5, <2>1 DEF AnyOf, Active
  <2>3. gone # {} => (CHOOSE e \in gone : TRUE) \in Snapshots \cup Numbers
    BY <2>1
  <2>4. c.eam \in Snapshots \cup {None}
    BY <1>1, <1>2, EamUpsertRequest
  <2>5. key(mine) \in Snapshots \cup Numbers
    BY <1>2, <2>2, <2>3, <2>4
  <2> HIDE DEF key
  <2>6. IsTable(Put(k.eams, key(mine), row), Snapshots \cup Numbers, ReportRows)
    BY <1>3, <1>4, <2>5, RowPut, TablesParts
  <2>7. QED
    BY <1>3, <2>6, EamsChanged
<1>6. QED
  BY <1>1, <1>3, <1>5, TypedBy

LEMMA EamDeleteTyped ==
  ASSUME NEW w \in Workers, Ready(w), EamDelete(w)
  PROVE  Typed(w)
<1> DEFINE k == core[w]
           row(e) == [k.eams[e] EXCEPT !.active = FALSE]
           f(e) == [k.eams EXCEPT ![e] = row(e)]
<1>1. \/ \E e \in DOMAIN k.eams : Applied(w, TRUE, [k EXCEPT !.eams[e].active = FALSE])
      \/ Applied(w, FALSE, k)
  BY DEF EamDelete, Accept, Reject, AnyOf, Active
<1>2. TablesOK(k)
  BY DEF Ready
<1>3. ASSUME NEW e \in DOMAIN k.eams
      PROVE  TablesOK([k EXCEPT !.eams[e].active = FALSE])
  <2>1. IsTable(k.eams, Snapshots \cup Numbers, ReportRows)
    BY <1>2, TablesParts
  <2>2. row(e) \in ReportRows
    BY <1>3, <2>1, TableIs DEF ReportRows
  <2>3. [k EXCEPT !.eams[e].active = FALSE] = [k EXCEPT !.eams = f(e)]
    OBVIOUS
  <2> HIDE DEF row
  <2>4. IsTable(f(e), Snapshots \cup Numbers, ReportRows)
    BY <1>3, <2>1, <2>2, RowReplaced
  <2>5. QED
    BY <1>2, <2>3, <2>4, EamsChanged
<1>4. QED
  BY <1>1, <1>2, <1>3, TypedBy

LEMMA ApplyTyped ==
  ASSUME NEW w \in Workers, Ready(w), Apply(w)
  PROVE  Typed(w)
BY MissionUpsertTyped, MissionDeleteTyped, TouchTyped, PlaceCreateTyped, PlaceDeleteTyped,
   PlaceLinkTyped, PlaceUnlinkTyped, ChangeUpsertTyped, LogUpsertTyped, TeamUpsertTyped,
   TeamDeleteTyped, TeamMissionTyped, MemberUpsertTyped, MemberDeleteTyped, ClientLinkTyped,
   ClientUnlinkTyped, AssetUpsertTyped, AssetDeleteTyped, SkillUpsertTyped, MemberSkillTyped,
   AssignmentUpsertTyped, AssignmentAssetsTyped, EamUpsertTyped, EamDeleteTyped
   DEF Apply

--------------------------------------------------------------------------
(* Every step keeps the types.                                             *)

LEMMA EmptyTyped == TablesOK(Empty)
<1>1. Whole(Empty) /\ \A t \in Tables : Empty[t] = << >>
  BY DEF Whole, Empty
<1>2. QED
  BY <1>1, NoRows, TablesParts DEF Tables

\* Tables of which each comes from one of two.
LEMMA MixTyped ==
  ASSUME NEW f, TablesOK(f), NEW g, TablesOK(g), NEW h, Whole(h),
         \A t \in Tables : h[t] = f[t] \/ h[t] = g[t]
  PROVE  TablesOK(h)
BY TablesParts DEF Tables

LEMMA SavedTyped ==
  ASSUME NEW stored, TablesOK(stored), NEW old, NEW new, TablesOK(new)
  PROVE  TablesOK([t \in Tables |-> Delta(stored[t], old[t], new[t])])
<1> DEFINE saved == [t \in Tables |-> Delta(stored[t], old[t], new[t])]
<1>1. Whole(saved) /\ \A t \in Tables : saved[t] = Delta(stored[t], old[t], new[t])
  BY DEF Whole
<1> HIDE DEF saved
<1>2. TablesOK(saved)
  BY <1>1, DeltaIsTable, TablesParts DEF Tables
<1>3. QED
  BY <1>2 DEF saved

TypeInv == ReportInv /\ TypeOK

LEMMA BeginTyped ==
  ASSUME TypeInv, NEW w \in Workers, NEW c \in Traffics[traffic].requests, Begin(w, c)
  PROVE  TypeOK'
<1>1. /\ phase' = [phase EXCEPT ![w] = "reading"] /\ commands' = commands + 1
      /\ command' = [command EXCEPT ![w] = c] /\ commands < MaxCommands
      /\ number' = [number EXCEPT ![w] = commands + 1]
      /\ UNCHANGED <<traffic, store, read, before, core, ok, behind, overlapped, spilled>>
  BY DEF Begin
<1>2. MaxCommands \in Nat
  BY RegistryAssumption
<1>3. commands' \in 0 .. MaxCommands /\ number' \in [Workers -> 0 .. MaxCommands]
  BY <1>1, <1>2 DEF TypeInv, TypeOK
<1>4. /\ phase' \in [Workers -> {"idle", "reading", "loaded", "applied"}]
      /\ command' \in [Workers -> Traffics[traffic].requests \cup {Nobody}]
  BY <1>1 DEF TypeInv, TypeOK
<1>5. QED
  <2>1. TablesOK(store)'
    BY <1>1 DEF TypeInv, TypeOK
  <2>2. (\A v \in Workers : TablesOK(before[v]) /\ TablesOK(core[v]))'
    BY <1>1 DEF TypeInv, TypeOK
  <2>3. QED
    BY <1>1, <1>3, <1>4, <2>1, <2>2 DEF TypeInv, TypeOK

LEMMA ReadTyped ==
  ASSUME TypeInv, NEW w \in Workers, NEW n \in DOMAIN Statements, Read(w, n)
  PROVE  TypeOK'
<1> DEFINE now == {Statements[i] : i \in (read[w] + 1) .. n}
           table == [t \in Tables |-> IF t \in now THEN store[t] ELSE before[w][t]]
<1>1. /\ before' = [before EXCEPT ![w] = table] /\ read' = [read EXCEPT ![w] = n]
      /\ UNCHANGED <<traffic, store, commands, command, number, ok, behind, overlapped,
                     spilled>>
      /\ \/ /\ phase' = [phase EXCEPT ![w] = "loaded"]
            /\ core' = [core EXCEPT ![w] = before'[w]]
         \/ phase' = phase /\ core' = core
  BY DEF Read
<1>2. TablesOK(table)
  <2>1. TablesOK(store) /\ TablesOK(before[w])
    BY DEF TypeInv, TypeOK
  <2>2. Whole(table) /\ \A t \in Tables : table[t] = store[t] \/ table[t] = before[w][t]
    BY DEF Whole
  <2> HIDE DEF table
  <2>3. QED
    BY <2>1, <2>2, MixTyped
<1> HIDE DEF table
<1>3. \A v \in Workers : TablesOK(before'[v]) /\ TablesOK(core'[v])
  BY <1>1, <1>2 DEF TypeInv, TypeOK, ReportInv, RegistryInv
<1>4. /\ phase' \in [Workers -> {"idle", "reading", "loaded", "applied"}]
      /\ read' \in [Workers -> 0 .. Len(Statements)]
  <2>1. n \in 0 .. Len(Statements)
    BY FifthTable DEF Statements
  <2>2. QED
    BY <1>1, <2>1 DEF TypeInv, TypeOK
<1>5. QED
  <2>1. TablesOK(store)'
    BY <1>1 DEF TypeInv, TypeOK
  <2>2. (\A v \in Workers : TablesOK(before[v]) /\ TablesOK(core[v]))'
    BY <1>1, <1>3 DEF TypeInv, TypeOK
  <2>3. QED
    BY <1>1, <1>3, <1>4, <2>1, <2>2 DEF TypeInv, TypeOK

\* A command is accepted or refused.
LEMMA Answered ==
  ASSUME NEW w \in Workers, Apply(w)
  PROVE  \E tables : Accept(w, tables) \/ Reject(w, tables)
<1> DEFINE Answer == \E tables : Accept(w, tables) \/ Reject(w, tables)
<1>1. MissionUpsert(w) => Answer
  BY DEF MissionUpsert
<1>2. MissionDelete(w) => Answer
  BY DEF MissionDelete
<1>3. Touch(w) => Answer
  BY DEF Touch
<1>4. PlaceCreate(w) => Answer
  BY DEF PlaceCreate
<1>5. PlaceDelete(w) => Answer
  BY DEF PlaceDelete
<1>6. PlaceLink(w) => Answer
  BY DEF PlaceLink
<1>7. PlaceUnlink(w) => Answer
  BY DEF PlaceUnlink
<1>8. ChangeUpsert(w) => Answer
  BY DEF ChangeUpsert
<1>9. LogUpsert(w) => Answer
  BY DEF LogUpsert
<1>10. TeamUpsert(w) => Answer
  BY DEF TeamUpsert
<1>11. TeamDelete(w) => Answer
  BY DEF TeamDelete
<1>12. TeamMission(w) => Answer
  BY DEF TeamMission
<1>13. MemberUpsert(w) => Answer
  BY DEF MemberUpsert
<1>14. MemberDelete(w) => Answer
  BY DEF MemberDelete
<1>15. ClientLink(w) => Answer
  BY DEF ClientLink
<1>16. ClientUnlink(w) => Answer
  BY DEF ClientUnlink
<1>17. AssetUpsert(w) => Answer
  BY DEF AssetUpsert
<1>18. AssetDelete(w) => Answer
  BY DEF AssetDelete
<1>19. SkillUpsert(w) => Answer
  BY DEF SkillUpsert
<1>20. MemberSkill(w) => Answer
  BY DEF MemberSkill
<1>21. AssignmentUpsert(w) => Answer
  BY DEF AssignmentUpsert
<1>22. AssignmentAssets(w) => Answer
  BY DEF AssignmentAssets
<1>23. EamUpsert(w) => Answer
  BY DEF EamUpsert
<1>24. EamDelete(w) => Answer
  BY DEF EamDelete
<1>25. QED
  BY <1>1, <1>2, <1>3, <1>4, <1>5, <1>6, <1>7, <1>8, <1>9, <1>10, <1>11, <1>12,
     <1>13, <1>14, <1>15, <1>16, <1>17, <1>18, <1>19, <1>20, <1>21, <1>22, <1>23,
     <1>24
     DEF Apply

LEMMA AppliedTyped ==
  ASSUME TypeInv, NEW w \in Workers, Apply(w)
  PROVE  TypeOK'
<1>1. phase[w] = "loaded"
  BY ApplyKeeps DEF TypeInv, ReportInv, Outcome
<1>2. Ready(w)
  BY <1>1 DEF Ready, TypeInv, TypeOK, ReportInv, RegistryInv, Counted
<1>3. PICK accepted, tables : Applied(w, accepted, tables) /\ TablesOK(tables)
  BY <1>2, ApplyTyped DEF Typed
<1>4. /\ phase' = [phase EXCEPT ![w] = "applied"] /\ core' = [core EXCEPT ![w] = tables]
      /\ UNCHANGED <<traffic, store, commands, command, number, read, before, behind,
                     overlapped, spilled>>
  BY <1>3 DEF Applied
<1>5. ok' \in [Workers -> BOOLEAN]
  <2>1. \/ ok' = [ok EXCEPT ![w] = TRUE]
        \/ ok' = [ok EXCEPT ![w] = FALSE]
    BY Answered DEF Accept, Reject, Applied
  <2>2. QED
    BY <2>1 DEF TypeInv, TypeOK
<1>6. \A v \in Workers : TablesOK(core'[v])
  BY <1>3, <1>4 DEF TypeInv, TypeOK, ReportInv, RegistryInv
<1>7. phase' \in [Workers -> {"idle", "reading", "loaded", "applied"}]
  BY <1>4 DEF TypeInv, TypeOK
<1>8. QED
  <2>1. TablesOK(store)'
    BY <1>4 DEF TypeInv, TypeOK
  <2>2. (\A v \in Workers : TablesOK(before[v]) /\ TablesOK(core[v]))'
    BY <1>4, <1>6 DEF TypeInv, TypeOK
  <2>3. QED
    BY <1>4, <1>5, <1>7, <2>1, <2>2 DEF TypeInv, TypeOK

\* The worker becomes idle and everything else is of its type.
LEMMA IdleTyped ==
  ASSUME TypeInv, NEW w \in Workers, Idle(w), UNCHANGED <<traffic, commands>>,
         TablesOK(store'), behind' \in [Workers -> BOOLEAN], overlapped' \in BOOLEAN,
         spilled' \in BOOLEAN
  PROVE  TypeOK'
<1>1. /\ phase' = [phase EXCEPT ![w] = "idle"] /\ command' = [command EXCEPT ![w] = Nobody]
      /\ number' = [number EXCEPT ![w] = 0] /\ read' = [read EXCEPT ![w] = 0]
      /\ before' = [before EXCEPT ![w] = Empty] /\ core' = [core EXCEPT ![w] = Empty]
      /\ ok' = [ok EXCEPT ![w] = FALSE]
  BY DEF Idle
<1>2. MaxCommands \in Nat /\ Len(Statements) = 15
  BY FifthTable, RegistryAssumption
<1>3. /\ number' \in [Workers -> 0 .. MaxCommands]
      /\ read' \in [Workers -> 0 .. Len(Statements)]
  BY <1>1, <1>2 DEF TypeInv, TypeOK
<1>4. /\ phase' \in [Workers -> {"idle", "reading", "loaded", "applied"}]
      /\ command' \in [Workers -> Traffics[traffic].requests \cup {Nobody}]
      /\ ok' \in [Workers -> BOOLEAN]
  BY <1>1 DEF TypeInv, TypeOK
<1>5. (\A v \in Workers : TablesOK(before[v]) /\ TablesOK(core[v]))'
  BY <1>1, EmptyTyped DEF TypeInv, TypeOK, ReportInv, RegistryInv
<1>6. QED
  BY <1>3, <1>4, <1>5 DEF TypeInv, TypeOK

LEMMA SaveTyped ==
  ASSUME TypeInv, NEW w \in Workers, Save(w)
  PROVE  TypeOK'
<1>1. /\ Idle(w) /\ UNCHANGED <<traffic, commands>>
      /\ store' = [t \in Tables |-> Delta(store[t], before[w][t], core[w][t])]
      /\ overlapped' = (overlapped \/ behind[w]) /\ spilled' = (spilled \/ ~ok[w])
      /\ behind' = [v \in Workers |-> v # w /\ (behind[v] \/ read[v] > 0)]
  BY DEF Save
<1>2. TablesOK(store')
  BY <1>1, SavedTyped DEF TypeInv, TypeOK
<1>3. behind' \in [Workers -> BOOLEAN]
  BY <1>1
<1>4. overlapped' \in BOOLEAN /\ spilled' \in BOOLEAN
  BY <1>1
<1>5. QED
  BY <1>1, <1>2, <1>3, <1>4, IdleTyped

LEMMA LoseTyped ==
  ASSUME TypeInv, NEW w \in Workers, Lose(w)
  PROVE  TypeOK'
<1>1. /\ Idle(w) /\ UNCHANGED <<traffic, store, commands, overlapped, spilled>>
      /\ behind' = [behind EXCEPT ![w] = FALSE]
  BY DEF Lose
<1>2. TablesOK(store') /\ behind' \in [Workers -> BOOLEAN]
  BY <1>1 DEF TypeInv, TypeOK
<1>3. overlapped' \in BOOLEAN /\ spilled' \in BOOLEAN
  BY <1>1 DEF TypeInv, TypeOK
<1>4. QED
  BY <1>1, <1>2, <1>3, IdleTyped

LEMMA StartsTyped == Init => TypeInv
<1> SUFFICES ASSUME Init PROVE TypeInv
  OBVIOUS
<1>1. MaxCommands \in Nat /\ Len(Statements) = 15
  BY FifthTable, RegistryAssumption
<1>2. /\ commands \in 0 .. MaxCommands /\ number \in [Workers -> 0 .. MaxCommands]
      /\ read \in [Workers -> 0 .. Len(Statements)]
  BY <1>1 DEF Init
<1>3. \A w \in Workers : TablesOK(before[w]) /\ TablesOK(core[w])
  BY EmptyTyped DEF Init
<1>4. TablesOK(store)
  BY RegistryAssumption DEF Init
<1>5. TypeOK
  BY <1>2, <1>3, <1>4 DEF Init, TypeOK
<1>6. QED
  BY <1>5, StartsSerial DEF TypeInv

LEMMA NextKeepsTypes == TypeInv /\ [Next]_vars => TypeInv'
<1>1. TypeInv /\ Next => TypeOK'
  BY BeginTyped, ReadTyped, AppliedTyped, SaveTyped, LoseTyped DEF Next
<1>2. TypeInv /\ UNCHANGED vars => TypeOK'
  BY DEF TypeInv, TypeOK, vars, local
<1>3. QED
  BY <1>1, <1>2, NextStaysSerial DEF TypeInv

\* Whatever a command makes of its tables, and however saves lay tables over each other,
\* every table holds rows of its form under keys of its form
\* (save_registry_delta_tables).
THEOREM TypeCorrect == Spec => []TypeOK
<1>1. TypeInv => TypeOK
  BY DEF TypeInv
<1>2. QED
  BY <1>1, StartsTyped, NextKeepsTypes, PTL DEF Spec

----------------------------------------------------------------------------
(***************************************************************************)
(* Relations.  As long as no save has overlapped another, what is kept     *)
(* twice says the same twice: a worker that is not behind holds what is in *)
(* the store, and whatever its command does to such tables leaves them in  *)
(* agreement - except for the teams, whose links a refused command may     *)
(* have replaced.                                                          *)
(***************************************************************************)

Agreeing(k) == AssetsAgree(k) /\ MembersAgree(k)

\* What an accepted and a refused command may make of the core of its worker.
Related(w) ==
  \E tables : /\ Agreeing(tables)
              /\ \/ Accept(w, tables) /\ (TeamsAgree(core[w]) => TeamsAgree(tables))
                 \/ Reject(w, tables)

AcceptedAs(w, tables) ==
  Accept(w, tables) /\ Agreeing(tables) /\ (TeamsAgree(core[w]) => TeamsAgree(tables))

RefusedAs(w, tables) == Reject(w, tables) /\ Agreeing(tables)

LEMMA RelatedBy ==
  ASSUME NEW w, NEW tables, AcceptedAs(w, tables) \/ RefusedAs(w, tables)
  PROVE  Related(w)
BY DEF Related, AcceptedAs, RefusedAs

LEMMA AssetsStay ==
  ASSUME NEW k, AssetsAgree(k), NEW tables, tables.assignments = k.assignments,
         tables.assets = k.assets, tables.assetLinks = k.assetLinks
  PROVE  AssetsAgree(tables)
BY DEF AssetsAgree

LEMMA ClientsStay ==
  ASSUME NEW k, NEW tables, tables.clientLinks = k.clientLinks, NEW u
  PROVE  ClientsOf(tables, u) = ClientsOf(k, u)
BY DEF ClientsOf

LEMMA MissionsStay ==
  ASSUME NEW k, NEW tables, tables.teamLinks = k.teamLinks, NEW t
  PROVE  MissionsOf(tables, t) = MissionsOf(k, t)
BY DEF MissionsOf

LEMMA MembersStay ==
  ASSUME NEW k, MembersAgree(k), NEW tables, tables.assets = k.assets,
         tables.members = k.members, DOMAIN k.teams \subseteq DOMAIN tables.teams,
         tables.clientLinks = k.clientLinks
  PROVE  MembersAgree(tables)
BY ClientsStay DEF MembersAgree

LEMMA TeamsStay ==
  ASSUME NEW k, TeamsAgree(k), NEW tables, tables.teams = k.teams,
         tables.teamLinks = k.teamLinks
  PROVE  TeamsAgree(tables)
BY MissionsStay DEF TeamsAgree

--------------------------------------------------------------------------
(* Commands that leave the relations alone.                                *)

SameRelations(k, tables) ==
  /\ tables.assignments = k.assignments
  /\ tables.assetLinks = k.assetLinks
  /\ tables.assets = k.assets
  /\ tables.members = k.members
  /\ tables.clientLinks = k.clientLinks
  /\ tables.teams = k.teams
  /\ tables.teamLinks = k.teamLinks

LEMMA SameAgrees ==
  ASSUME NEW k, NEW tables, SameRelations(k, tables)
  PROVE  /\ Agreeing(k) => Agreeing(tables)
         /\ TeamsAgree(k) => TeamsAgree(tables)
BY AssetsStay, MembersStay, TeamsStay DEF SameRelations, Agreeing

LEMMA OtherTables ==
  ASSUME NEW k, Whole(k), NEW f
  PROVE  /\ SameRelations(k, [k EXCEPT !.places = f])
         /\ SameRelations(k, [k EXCEPT !.missions = f])
         /\ SameRelations(k, [k EXCEPT !.placeLinks = f])
         /\ SameRelations(k, [k EXCEPT !.changes = f])
         /\ SameRelations(k, [k EXCEPT !.skills = f])
         /\ SameRelations(k, [k EXCEPT !.memberSkills = f])
         /\ SameRelations(k, [k EXCEPT !.eams = f])
BY DEF Whole, Tables, SameRelations

\* A command that leaves the relations alone.
Elsewhere(w) ==
  \E tables : SameRelations(core[w], tables) /\ (Accept(w, tables) \/ Reject(w, tables))

LEMMA ElsewhereRelated ==
  ASSUME NEW w, Agreeing(core[w]), Elsewhere(w)
  PROVE  Related(w)
BY SameAgrees DEF Elsewhere, Related

LEMMA LogUpsertElsewhere ==
  ASSUME NEW w, Whole(core[w]), LogUpsert(w)
  PROVE  Elsewhere(w)
<1> DEFINE made == [core[w] EXCEPT !.missions = Put(@, Default, Fresh)]
<1>1. PICK housed \in {made, core[w]} :
        \/ \E logs, changes :
             Accept(w, [housed EXCEPT !.logs = logs, !.changes = changes])
        \/ Reject(w, housed)
  BY DEF LogUpsert
<1>2. Whole(housed) /\ SameRelations(core[w], housed)
  BY DEF Whole, Tables, SameRelations
<1> HIDE DEF made
<1>3. ASSUME NEW logs, NEW changes
      PROVE  SameRelations(core[w], [housed EXCEPT !.logs = logs, !.changes = changes])
  BY <1>2 DEF Whole, Tables, SameRelations
<1>4. QED
  BY <1>1, <1>2, <1>3 DEF Elsewhere

LEMMA OthersElsewhere ==
  ASSUME NEW w, Whole(core[w]),
         \/ MissionUpsert(w) \/ MissionDelete(w) \/ Touch(w)
         \/ PlaceCreate(w) \/ PlaceDelete(w) \/ PlaceLink(w) \/ PlaceUnlink(w)
         \/ ChangeUpsert(w) \/ LogUpsert(w) \/ SkillUpsert(w) \/ MemberSkill(w)
         \/ EamDelete(w)
  PROVE  Elsewhere(w)
<1> DEFINE k == core[w]
<1>0. SameRelations(k, k)
  BY DEF SameRelations
<1>1. ASSUME MissionUpsert(w) PROVE Elsewhere(w)
  <2>1. \/ \E f : Accept(w, [k EXCEPT !.missions = f])
        \/ Reject(w, k)
    BY <1>1 DEF MissionUpsert
  <2>2. QED
    BY <1>0, <2>1, OtherTables DEF Elsewhere
<1>2. ASSUME MissionDelete(w) PROVE Elsewhere(w)
  <2>1. \/ \E m : Accept(w, [k EXCEPT !.missions[m].deleted = TRUE])
        \/ Reject(w, k)
    BY <1>2 DEF MissionDelete
  <2>2. \A m : SameRelations(k, [k EXCEPT !.missions[m].deleted = TRUE])
    BY DEF Whole, Tables, SameRelations
  <2>3. QED
    BY <1>0, <2>1, <2>2 DEF Elsewhere
<1>3. ASSUME Touch(w) PROVE Elsewhere(w)
  BY <1>0, <1>3 DEF Touch, Elsewhere
<1>4. ASSUME PlaceCreate(w) PROVE Elsewhere(w)
  <2>1. \E f : Accept(w, [k EXCEPT !.places = f])
    BY <1>4 DEF PlaceCreate
  <2>2. QED
    BY <1>0, <2>1, OtherTables DEF Elsewhere
<1>5. ASSUME PlaceDelete(w) PROVE Elsewhere(w)
  <2>1. \/ \E f : Accept(w, [k EXCEPT !.places = f])
        \/ Reject(w, k)
    BY <1>5 DEF PlaceDelete
  <2>2. QED
    BY <1>0, <2>1, OtherTables DEF Elsewhere
<1>6. ASSUME PlaceLink(w) PROVE Elsewhere(w)
  <2>1. \/ \E f : Accept(w, [k EXCEPT !.placeLinks = f])
        \/ Reject(w, k)
    BY <1>6 DEF PlaceLink
  <2>2. QED
    BY <1>0, <2>1, OtherTables DEF Elsewhere
<1>7. ASSUME PlaceUnlink(w) PROVE Elsewhere(w)
  <2>1. \/ \E f : Accept(w, [k EXCEPT !.placeLinks = f])
        \/ Reject(w, k)
    BY <1>7 DEF PlaceUnlink
  <2>2. QED
    BY <1>0, <2>1, OtherTables DEF Elsewhere
<1>8. ASSUME ChangeUpsert(w) PROVE Elsewhere(w)
  <2>1. \/ \E f : Accept(w, [k EXCEPT !.changes = f])
        \/ Reject(w, k)
    BY <1>8 DEF ChangeUpsert
  <2>2. QED
    BY <1>0, <2>1, OtherTables DEF Elsewhere
<1>9. ASSUME SkillUpsert(w) PROVE Elsewhere(w)
  <2>1. \E f : Accept(w, [k EXCEPT !.skills = f])
    BY <1>9 DEF SkillUpsert
  <2>2. QED
    BY <1>0, <2>1, OtherTables DEF Elsewhere
<1>10. ASSUME MemberSkill(w) PROVE Elsewhere(w)
  <2>1. \/ \E f : Accept(w, [k EXCEPT !.memberSkills = f])
        \/ Reject(w, k)
    BY <1>10 DEF MemberSkill
  <2>2. QED
    BY <1>0, <2>1, OtherTables DEF Elsewhere
<1>11. ASSUME EamDelete(w) PROVE Elsewhere(w)
  <2>1. \/ \E e : Accept(w, [k EXCEPT !.eams[e].active = FALSE])
        \/ Reject(w, k)
    BY <1>11 DEF EamDelete
  <2>2. \A e : SameRelations(k, [k EXCEPT !.eams[e].active = FALSE])
    BY DEF Whole, Tables, SameRelations
  <2>3. QED
    BY <1>0, <2>1, <2>2 DEF Elsewhere
<1>12. QED
  BY <1>1, <1>2, <1>3, <1>4, <1>5, <1>6, <1>7, <1>8, <1>9, <1>10, <1>11,
     LogUpsertElsewhere

--------------------------------------------------------------------------
(* Members, their clients and what they own.                               *)

LEMMA MemberUpsertRelated ==
  ASSUME NEW w, Ready(w), Agreeing(core[w]), MemberUpsert(w)
  PROVE  Related(w)
<1> DEFINE c == command[w]
           k == core[w]
           m == c.member
           held == IF m \in DOMAIN k.members THEN k.members[m].team ELSE None
           team == IF c.team = Keep THEN held ELSE c.team
           row  == [team |-> team, identity |-> c.identity, clients |-> ClientsOf(k, m)]
           f == Put(k.members, m, row)
           tables == [k EXCEPT !.members = f]
<1>1. \/ c.team \in DOMAIN k.teams \cup {None, Keep} /\ Accept(w, tables)
      \/ Reject(w, k)
  BY DEF MemberUpsert
<1>2. Whole(k) /\ AssetsAgree(k) /\ MembersAgree(k)
  BY TablesAreWhole DEF Ready, Agreeing
<1>3. ASSUME c.team \in DOMAIN k.teams \cup {None, Keep}
      PROVE  AcceptedAs(w, tables) \/ ~Accept(w, tables)
  <2>1. /\ tables.members = f
        /\ \A t \in Tables \ {"members"} : tables[t] = k[t]
    BY <1>2 DEF Whole, Tables
  <2>2. team \in DOMAIN k.teams \cup {None}
    BY <1>2, <1>3 DEF MembersAgree
  <2> HIDE DEF team
  <2>3. /\ DOMAIN f = DOMAIN k.members \cup {m} /\ f[m] = row
        /\ \A u \in DOMAIN k.members \ {m} : f[u] = k.members[u]
    BY DEF Put, Written
  <2>4. row.team = team /\ row.clients = ClientsOf(k, m)
    OBVIOUS
  <2> HIDE DEF row, f, tables
  <2>5. /\ tables.assets = k.assets /\ tables.teams = k.teams
        /\ tables.clientLinks = k.clientLinks /\ tables.assignments = k.assignments
        /\ tables.assetLinks = k.assetLinks /\ tables.teamLinks = k.teamLinks
    BY <2>1 DEF Tables
  <2>6. MembersAgree(tables)
    <3>1. \A a \in DOMAIN tables.assets :
            tables.assets[a] \in DOMAIN tables.members \cup {None}
      BY <1>2, <2>1, <2>3, <2>5 DEF MembersAgree
    <3>2. \A l \in DOMAIN tables.clientLinks : l[1] \in DOMAIN tables.members
      BY <1>2, <2>1, <2>3, <2>5 DEF MembersAgree
    <3>3. ASSUME NEW u \in DOMAIN tables.members
          PROVE  /\ tables.members[u].team \in DOMAIN tables.teams \cup {None}
                 /\ tables.members[u].clients = ClientsOf(tables, u)
      <4>1. ClientsOf(tables, u) = ClientsOf(k, u)
        BY <2>5, ClientsStay
      <4>2. CASE u = m
        BY <2>1, <2>2, <2>3, <2>4, <2>5, <4>1, <4>2
      <4>3. CASE u # m
        BY <1>2, <2>1, <2>3, <2>5, <3>3, <4>1, <4>3 DEF MembersAgree
      <4>4. QED
        BY <4>2, <4>3
    <3>4. QED
      BY <3>1, <3>2, <3>3 DEF MembersAgree
  <2>7. AssetsAgree(tables) /\ (TeamsAgree(k) => TeamsAgree(tables))
    BY <1>2, <2>5, AssetsStay, TeamsStay
  <2>8. QED
    BY <2>6, <2>7 DEF AcceptedAs, Agreeing
<1>4. QED
  BY <1>1, <1>3, RelatedBy DEF RefusedAs

LEMMA MemberDeleteRelated ==
  ASSUME NEW w, Ready(w), Agreeing(core[w]), MemberDelete(w)
  PROVE  Related(w)
<1> DEFINE u == command[w].member
           k == core[w]
           members == Without(k.members, {u})
           assets == [a \in DOMAIN k.assets |-> IF k.assets[a] = u THEN None
                                                ELSE k.assets[a]]
           links == Restrict(k.clientLinks, {l \in DOMAIN k.clientLinks : l[1] # u})
           skills == Restrict(k.memberSkills, {s \in DOMAIN k.memberSkills :
                                                 s[1] # k.members[u].identity})
           tables == [k EXCEPT !.members = members, !.assets = assets,
                               !.clientLinks = links, !.memberSkills = skills]
<1>1. Accept(w, tables) \/ Reject(w, k)
  BY DEF MemberDelete
<1>2. Whole(k) /\ AssetsAgree(k) /\ MembersAgree(k)
  BY TablesAreWhole DEF Ready, Agreeing
<1>3. /\ tables.members = members /\ tables.assets = assets /\ tables.clientLinks = links
      /\ tables.teams = k.teams /\ tables.assignments = k.assignments
      /\ tables.assetLinks = k.assetLinks /\ tables.teamLinks = k.teamLinks
  BY <1>2 DEF Whole, Tables
<1>4. /\ DOMAIN members = DOMAIN k.members \ {u}
      /\ \A v \in DOMAIN members : members[v] = k.members[v]
      /\ DOMAIN links = {l \in DOMAIN k.clientLinks : l[1] # u}
      /\ DOMAIN assets = DOMAIN k.assets
      /\ \A a \in DOMAIN assets :
           assets[a] = None \/ (assets[a] = k.assets[a] /\ k.assets[a] # u)
  BY DEF Without, Restrict
<1> HIDE DEF members, assets, links, skills, tables
<1>5. MembersAgree(tables)
  <2>1. \A a \in DOMAIN assets : assets[a] \in DOMAIN members \cup {None}
    BY <1>2, <1>4 DEF MembersAgree
  <2>2. \A l \in DOMAIN links : l[1] \in DOMAIN members
    BY <1>2, <1>4 DEF MembersAgree
  <2>3. ASSUME NEW v \in DOMAIN members
        PROVE  /\ members[v].team \in DOMAIN k.teams \cup {None}
               /\ members[v].clients = ClientsOf(tables, v)
    <3>1. \A x : <<v, x>> \in DOMAIN links <=> <<v, x>> \in DOMAIN k.clientLinks
      BY <1>4, <2>3
    <3>2. ClientsOf(tables, v) = ClientsOf(k, v)
      BY <1>3, <3>1 DEF ClientsOf
    <3>3. QED
      BY <1>2, <1>4, <2>3, <3>2 DEF MembersAgree
  <2>4. QED
    BY <1>3, <2>1, <2>2, <2>3 DEF MembersAgree
<1>6. AssetsAgree(tables)
  BY <1>2, <1>3, <1>4 DEF AssetsAgree
<1>7. TeamsAgree(k) => TeamsAgree(tables)
  BY <1>3, TeamsStay
<1>8. QED
  BY <1>1, <1>5, <1>6, <1>7, RelatedBy DEF AcceptedAs, RefusedAs, Agreeing

\* The row of a member says what the links say, whatever the links were before.
LEMMA RefreshedAgrees ==
  ASSUME NEW k, Whole(k), NEW u \in DOMAIN k.members,
         \A a \in DOMAIN k.assets : k.assets[a] \in DOMAIN k.members \cup {None},
         \A v \in DOMAIN k.members : k.members[v].team \in DOMAIN k.teams \cup {None},
         \A v \in DOMAIN k.members \ {u} : k.members[v].clients = ClientsOf(k, v),
         \A l \in DOMAIN k.clientLinks : l[1] \in DOMAIN k.members,
         k.members = [v \in DOMAIN k.members |-> k.members[v]],
         "clients" \in DOMAIN k.members[u]
  PROVE  LET tables == Refreshed(k, u)
         IN  /\ MembersAgree(tables)
             /\ tables.assets = k.assets /\ tables.teams = k.teams
             /\ tables.assignments = k.assignments /\ tables.assetLinks = k.assetLinks
             /\ tables.teamLinks = k.teamLinks
<1> DEFINE tables == Refreshed(k, u)
           row == [k.members[u] EXCEPT !.clients = ClientsOf(k, u)]
<1>1. /\ tables.members = [k.members EXCEPT ![u] = row]
      /\ tables.assets = k.assets /\ tables.teams = k.teams
      /\ tables.clientLinks = k.clientLinks /\ tables.assignments = k.assignments
      /\ tables.assetLinks = k.assetLinks /\ tables.teamLinks = k.teamLinks
  BY DEF Whole, Tables, Refreshed
<1>2. row.team = k.members[u].team /\ row.clients = ClientsOf(k, u)
  OBVIOUS
<1> HIDE DEF row, tables
<1>3. /\ DOMAIN tables.members = DOMAIN k.members /\ tables.members[u] = row
      /\ \A v \in DOMAIN k.members \ {u} : tables.members[v] = k.members[v]
  BY <1>1
<1>4. ASSUME NEW v \in DOMAIN tables.members
      PROVE  /\ tables.members[v].team \in DOMAIN tables.teams \cup {None}
             /\ tables.members[v].clients = ClientsOf(tables, v)
  <2>1. ClientsOf(tables, v) = ClientsOf(k, v)
    BY <1>1, ClientsStay
  <2>2. CASE v = u
    BY <1>1, <1>2, <1>3, <2>1, <2>2
  <2>3. CASE v # u
    BY <1>1, <1>3, <1>4, <2>1, <2>3
  <2>4. QED
    BY <2>2, <2>3
<1>5. MembersAgree(tables)
  BY <1>1, <1>3, <1>4 DEF MembersAgree
<1>6. QED
  BY <1>1, <1>5 DEF tables

LEMMA MemberRow ==
  ASSUME NEW k, TablesOK(k)
  PROVE  /\ k.members = [v \in DOMAIN k.members |-> k.members[v]]
         /\ \A u \in DOMAIN k.members : "clients" \in DOMAIN k.members[u]
BY TablesParts, TableIs DEF MemberRows

LEMMA ClientLinkRelated ==
  ASSUME NEW w, Ready(w), Agreeing(core[w]), ClientLink(w)
  PROVE  Related(w)
<1> DEFINE c == command[w]
           k == core[w]
           m == c.member
           f == With(k.clientLinks, {<<m, c.client>>})
           linked == [k EXCEPT !.clientLinks = f]
           tables == Refreshed(linked, m)
<1>1. \/ m \in DOMAIN k.members /\ Accept(w, tables)
      \/ Reject(w, k)
  BY DEF ClientLink
<1>2. TablesOK(k) /\ Whole(k) /\ AssetsAgree(k) /\ MembersAgree(k)
  BY TablesAreWhole DEF Ready, Agreeing
<1>3. /\ Whole(linked) /\ linked.clientLinks = f
      /\ \A t \in Tables \ {"clientLinks"} : linked[t] = k[t]
  BY <1>2 DEF Whole, Tables
<1>4. DOMAIN f = DOMAIN k.clientLinks \cup {<<m, c.client>>}
  BY DEF With, Written
<1> HIDE DEF f, linked
<1>5. /\ linked.members = k.members /\ linked.assets = k.assets /\ linked.teams = k.teams
      /\ linked.assignments = k.assignments /\ linked.assetLinks = k.assetLinks
      /\ linked.teamLinks = k.teamLinks
  BY <1>3 DEF Tables
<1>6. ASSUME m \in DOMAIN k.members
      PROVE  AcceptedAs(w, tables) \/ ~Accept(w, tables)
  <2>1. ASSUME NEW v \in DOMAIN k.members \ {m}
        PROVE  k.members[v].clients = ClientsOf(linked, v)
    <3>1. \A x : <<v, x>> \in DOMAIN f <=> <<v, x>> \in DOMAIN k.clientLinks
      BY <1>4, <2>1
    <3>2. ClientsOf(linked, v) = ClientsOf(k, v)
      BY <1>3, <3>1 DEF ClientsOf
    <3>3. QED
      BY <1>2, <2>1, <3>2 DEF MembersAgree
  <2>2. \A l \in DOMAIN f : l[1] \in DOMAIN k.members
    BY <1>2, <1>4, <1>6 DEF MembersAgree
  <2>3. /\ \A a \in DOMAIN k.assets : k.assets[a] \in DOMAIN k.members \cup {None}
        /\ \A v \in DOMAIN k.members : k.members[v].team \in DOMAIN k.teams \cup {None}
    BY <1>2 DEF MembersAgree
  <2>4. /\ k.members = [v \in DOMAIN k.members |-> k.members[v]]
        /\ "clients" \in DOMAIN k.members[m]
    BY <1>2, <1>6, MemberRow
  <2>5. /\ MembersAgree(tables)
        /\ tables.assets = k.assets /\ tables.assignments = k.assignments
        /\ tables.assetLinks = k.assetLinks /\ tables.teams = k.teams
        /\ tables.teamLinks = k.teamLinks
    BY <1>3, <1>5, <1>6, <2>1, <2>2, <2>3, <2>4, RefreshedAgrees
  <2> HIDE DEF tables
  <2>6. AssetsAgree(tables) /\ (TeamsAgree(k) => TeamsAgree(tables))
    BY <1>2, <2>5, AssetsStay, TeamsStay
  <2>7. QED
    BY <2>5, <2>6 DEF AcceptedAs, Agreeing
<1>7. QED
  BY <1>1, <1>6, RelatedBy DEF RefusedAs

LEMMA ClientUnlinkRelated ==
  ASSUME NEW w, Ready(w), Agreeing(core[w]), ClientUnlink(w)
  PROVE  Related(w)
<1> DEFINE c == command[w]
           k == core[w]
           m == c.member
           f == Without(k.clientLinks, {<<m, c.client>>})
           unlinked == [k EXCEPT !.clientLinks = f]
           tables == Refreshed(unlinked, m)
<1>1. \/ m \in DOMAIN unlinked.members /\ Accept(w, tables)
      \/ m \notin DOMAIN unlinked.members /\ Reject(w, unlinked)
  BY DEF ClientUnlink
<1>2. TablesOK(k) /\ Whole(k) /\ AssetsAgree(k) /\ MembersAgree(k)
  BY TablesAreWhole DEF Ready, Agreeing
<1>3. /\ Whole(unlinked) /\ unlinked.clientLinks = f
      /\ \A t \in Tables \ {"clientLinks"} : unlinked[t] = k[t]
  BY <1>2 DEF Whole, Tables
<1>4. DOMAIN f = DOMAIN k.clientLinks \ {<<m, c.client>>}
  BY DEF Without, Restrict
<1> HIDE DEF f, unlinked
<1>5. /\ unlinked.members = k.members /\ unlinked.assets = k.assets
      /\ unlinked.teams = k.teams /\ unlinked.assignments = k.assignments
      /\ unlinked.assetLinks = k.assetLinks /\ unlinked.teamLinks = k.teamLinks
  BY <1>3 DEF Tables
<1>6. ASSUME NEW v \in DOMAIN k.members \ {m}
      PROVE  k.members[v].clients = ClientsOf(unlinked, v)
  <2>1. \A x : <<v, x>> \in DOMAIN f <=> <<v, x>> \in DOMAIN k.clientLinks
    BY <1>4, <1>6
  <2>2. ClientsOf(unlinked, v) = ClientsOf(k, v)
    BY <1>3, <2>1 DEF ClientsOf
  <2>3. QED
    BY <1>2, <1>6, <2>2 DEF MembersAgree
<1>7. /\ \A l \in DOMAIN f : l[1] \in DOMAIN k.members
      /\ \A a \in DOMAIN k.assets : k.assets[a] \in DOMAIN k.members \cup {None}
      /\ \A v \in DOMAIN k.members : k.members[v].team \in DOMAIN k.teams \cup {None}
  BY <1>2, <1>4 DEF MembersAgree
<1>8. ASSUME m \in DOMAIN k.members
      PROVE  AcceptedAs(w, tables) \/ ~Accept(w, tables)
  <2>1. /\ k.members = [v \in DOMAIN k.members |-> k.members[v]]
        /\ "clients" \in DOMAIN k.members[m]
    BY <1>2, <1>8, MemberRow
  <2>2. /\ MembersAgree(tables)
        /\ tables.assets = k.assets /\ tables.assignments = k.assignments
        /\ tables.assetLinks = k.assetLinks /\ tables.teams = k.teams
        /\ tables.teamLinks = k.teamLinks
    BY <1>3, <1>5, <1>6, <1>7, <1>8, <2>1, RefreshedAgrees
  <2> HIDE DEF tables
  <2>3. AssetsAgree(tables) /\ (TeamsAgree(k) => TeamsAgree(tables))
    BY <1>2, <2>2, AssetsStay, TeamsStay
  <2>4. QED
    BY <2>2, <2>3 DEF AcceptedAs, Agreeing
<1>9. ASSUME m \notin DOMAIN k.members
      PROVE  Agreeing(unlinked)
  <2>1. MembersAgree(unlinked)
    BY <1>3, <1>5, <1>6, <1>7, <1>9 DEF MembersAgree
  <2>2. AssetsAgree(unlinked)
    BY <1>2, <1>5, AssetsStay
  <2>3. QED
    BY <2>1, <2>2 DEF Agreeing
<1>10. QED
  BY <1>1, <1>5, <1>8, <1>9, RelatedBy DEF RefusedAs

--------------------------------------------------------------------------
(* Assets and assignments.                                                 *)

LEMMA AssetUpsertRelated ==
  ASSUME NEW w, Ready(w), Agreeing(core[w]), AssetUpsert(w)
  PROVE  Related(w)
<1> DEFINE c == command[w]
           k == core[w]
           held == IF c.asset \in DOMAIN k.assets THEN k.assets[c.asset] ELSE None
           owner == IF c.owner = Keep THEN held ELSE c.owner
           f == Put(k.assets, c.asset, owner)
           tables == [k EXCEPT !.assets = f]
<1>1. \/ c.owner \in DOMAIN k.members \cup {None, Keep} /\ Accept(w, tables)
      \/ Reject(w, k)
  BY DEF AssetUpsert
<1>2. Whole(k) /\ AssetsAgree(k) /\ MembersAgree(k)
  BY TablesAreWhole DEF Ready, Agreeing
<1>3. ASSUME c.owner \in DOMAIN k.members \cup {None, Keep}
      PROVE  AcceptedAs(w, tables) \/ ~Accept(w, tables)
  <2>1. owner \in DOMAIN k.members \cup {None}
    BY <1>2, <1>3 DEF MembersAgree
  <2>2. /\ tables.assets = f
        /\ tables.members = k.members /\ tables.teams = k.teams
        /\ tables.clientLinks = k.clientLinks /\ tables.assignments = k.assignments
        /\ tables.assetLinks = k.assetLinks /\ tables.teamLinks = k.teamLinks
    BY <1>2 DEF Whole, Tables
  <2>3. /\ DOMAIN f = DOMAIN k.assets \cup {c.asset} /\ f[c.asset] = owner
        /\ \A a \in DOMAIN k.assets \ {c.asset} : f[a] = k.assets[a]
    BY DEF Put, Written
  <2> HIDE DEF owner, f, tables
  <2>4. \A a \in DOMAIN f : f[a] \in DOMAIN k.members \cup {None}
    BY <1>2, <2>1, <2>3 DEF MembersAgree
  <2>5. MembersAgree(tables)
    BY <1>2, <2>2, <2>4, ClientsStay DEF MembersAgree
  <2>6. AssetsAgree(tables)
    BY <1>2, <2>2, <2>3 DEF AssetsAgree
  <2>7. TeamsAgree(k) => TeamsAgree(tables)
    BY <2>2, TeamsStay
  <2>8. QED
    BY <2>5, <2>6, <2>7 DEF AcceptedAs, Agreeing
<1>4. QED
  BY <1>1, <1>3, RelatedBy DEF RefusedAs

LEMMA AssetDeleteRelated ==
  ASSUME NEW w, Ready(w), Agreeing(core[w]), AssetDelete(w)
  PROVE  Related(w)
<1> DEFINE a == command[w].asset
           k == core[w]
           assets == Without(k.assets, {a})
           links == Restrict(k.assetLinks, {l \in DOMAIN k.assetLinks : l[2] # a})
           rows == [x \in DOMAIN k.assignments |->
                      [k.assignments[x] EXCEPT !.assets = k.assignments[x].assets \ {a}]]
           tables == [k EXCEPT
             !.assets      = Without(@, {a}),
             !.assetLinks  = Restrict(@, {l \in DOMAIN @ : l[2] # a}),
             !.assignments = [x \in DOMAIN @ |->
                               [@[x] EXCEPT !.assets = k.assignments[x].assets \ {a}]]]
<1>1. Accept(w, tables) \/ Reject(w, k)
  BY DEF AssetDelete
<1>2. TablesOK(k) /\ Whole(k) /\ AssetsAgree(k) /\ MembersAgree(k)
  BY TablesAreWhole DEF Ready, Agreeing
<1>3. /\ tables.assets = assets /\ tables.assetLinks = links /\ tables.assignments = rows
      /\ tables.members = k.members /\ tables.teams = k.teams
      /\ tables.clientLinks = k.clientLinks /\ tables.teamLinks = k.teamLinks
  BY <1>2 DEF Whole, Tables
<1>4. /\ DOMAIN assets = DOMAIN k.assets \ {a}
      /\ \A b \in DOMAIN assets : assets[b] = k.assets[b]
      /\ DOMAIN links = {l \in DOMAIN k.assetLinks : l[2] # a}
  BY DEF Without, Restrict
<1>5. /\ DOMAIN rows = DOMAIN k.assignments
      /\ \A x \in DOMAIN rows : rows[x].assets = k.assignments[x].assets \ {a}
  <2>1. \A x \in DOMAIN k.assignments : "assets" \in DOMAIN k.assignments[x]
    BY <1>2, TablesParts, TableIs DEF AssignmentRows
  <2>2. QED
    BY <2>1
<1> HIDE DEF assets, links, rows, tables
<1>6. ASSUME NEW x \in DOMAIN rows
      PROVE  /\ rows[x].assets \subseteq DOMAIN assets
             /\ rows[x].assets = {b \in Assets : <<x, b>> \in DOMAIN links}
  <2>1. /\ k.assignments[x].assets \subseteq DOMAIN k.assets
        /\ k.assignments[x].assets = {b \in Assets : <<x, b>> \in DOMAIN k.assetLinks}
    BY <1>2, <1>5, <1>6 DEF AssetsAgree
  <2>2. \A b : <<x, b>> \in DOMAIN links <=> (<<x, b>> \in DOMAIN k.assetLinks /\ b # a)
    BY <1>4
  <2>3. QED
    BY <1>4, <1>5, <1>6, <2>1, <2>2
<1>7. AssetsAgree(tables)
  BY <1>3, <1>6 DEF AssetsAgree
<1>8. MembersAgree(tables)
  BY <1>2, <1>3, <1>4, ClientsStay DEF MembersAgree
<1>9. TeamsAgree(k) => TeamsAgree(tables)
  BY <1>3, TeamsStay
<1>10. QED
  BY <1>1, <1>7, <1>8, <1>9, RelatedBy DEF AcceptedAs, RefusedAs, Agreeing

\* An assignment and its links are given the same assets.
LEMMA EquippedAgrees ==
  ASSUME NEW k, Whole(k), NEW x \in DOMAIN k.assignments, NEW assets \in SUBSET Assets,
         "assets" \in DOMAIN k.assignments[x],
         k.assignments = [y \in DOMAIN k.assignments |-> k.assignments[y]],
         assets \subseteq DOMAIN k.assets,
         \A y \in DOMAIN k.assignments \ {x} :
           /\ k.assignments[y].assets \subseteq DOMAIN k.assets
           /\ k.assignments[y].assets = {a \in Assets : <<y, a>> \in DOMAIN k.assetLinks}
  PROVE  LET tables == Equipped(k, x, assets)
         IN  /\ AssetsAgree(tables)
             /\ tables.assets = k.assets /\ tables.members = k.members
             /\ tables.teams = k.teams /\ tables.clientLinks = k.clientLinks
             /\ tables.teamLinks = k.teamLinks
<1> DEFINE row == [k.assignments[x] EXCEPT !.assets = assets]
           rows == [k.assignments EXCEPT ![x] = row]
           rest == Restrict(k.assetLinks, {l \in DOMAIN k.assetLinks : l[1] # x})
           links == With(rest, {x} \X assets)
           tables == Equipped(k, x, assets)
<1>1. /\ tables.assignments = rows /\ tables.assetLinks = links
      /\ tables.assets = k.assets /\ tables.members = k.members
      /\ tables.teams = k.teams /\ tables.clientLinks = k.clientLinks
      /\ tables.teamLinks = k.teamLinks
  BY DEF Whole, Tables, Equipped
<1>2. row.assets = assets
  OBVIOUS
<1> HIDE DEF row
<1>3. /\ DOMAIN rows = DOMAIN k.assignments /\ rows[x] = row
      /\ \A y \in DOMAIN rows \ {x} : rows[y] = k.assignments[y]
  OBVIOUS
<1>4. DOMAIN links = {l \in DOMAIN k.assetLinks : l[1] # x} \cup ({x} \X assets)
  BY DEF With, Written, Restrict
<1> HIDE DEF rows, rest, links, tables
<1>5. ASSUME NEW y \in DOMAIN rows
      PROVE  /\ rows[y].assets \subseteq DOMAIN k.assets
             /\ rows[y].assets = {a \in Assets : <<y, a>> \in DOMAIN links}
  <2>1. CASE y = x
    <3>1. \A a : <<x, a>> \in DOMAIN links <=> a \in assets
      BY <1>4
    <3>2. QED
      BY <1>2, <1>3, <2>1, <3>1
  <2>2. CASE y # x
    <3>1. \A a : <<y, a>> \in DOMAIN links <=> <<y, a>> \in DOMAIN k.assetLinks
      BY <1>4, <2>2
    <3>2. QED
      BY <1>3, <1>5, <2>2, <3>1
  <2>3. QED
    BY <2>1, <2>2
<1>6. AssetsAgree(tables)
  BY <1>1, <1>5 DEF AssetsAgree
<1>7. QED
  BY <1>1, <1>6 DEF tables

LEMMA AssignmentRow ==
  ASSUME NEW k, TablesOK(k)
  PROVE  /\ k.assignments = [y \in DOMAIN k.assignments |-> k.assignments[y]]
         /\ \A x \in DOMAIN k.assignments : "assets" \in DOMAIN k.assignments[x]
         /\ DOMAIN k.assets \subseteq Assets
BY TablesParts, TableIs DEF AssignmentRows

LEMMA AssignmentUpsertRelated ==
  ASSUME NEW w, Ready(w), Agreeing(core[w]), AssignmentUpsert(w)
  PROVE  Related(w)
<1> DEFINE c == command[w]
           k == core[w]
           x == c.assignment
           held == IF x \in DOMAIN k.assignments THEN k.assignments[x].assets ELSE {}
           assets == IF c.assets = Keep THEN held ELSE c.assets
           row == [mission |-> c.mission, identity |-> c.identity, assets |-> assets]
           f == Put(k.assignments, x, row)
           put == [k EXCEPT !.assignments = f]
           tables == Equipped(put, x, assets)
<1>1. \/ /\ c.assets = Keep \/ assets \subseteq DOMAIN k.assets
         /\ Accept(w, tables)
      \/ Reject(w, k)
  BY DEF AssignmentUpsert
<1>2. TablesOK(k) /\ Whole(k) /\ AssetsAgree(k) /\ MembersAgree(k)
  BY TablesAreWhole DEF Ready, Agreeing
<1>3. ASSUME c.assets = Keep \/ assets \subseteq DOMAIN k.assets
      PROVE  AcceptedAs(w, tables) \/ ~Accept(w, tables)
  <2>1. assets \subseteq DOMAIN k.assets
    BY <1>2, <1>3 DEF AssetsAgree
  <2>2. assets \in SUBSET Assets
    BY <1>2, <2>1, AssignmentRow
  <2> HIDE DEF assets
  <2>3. "assets" \in DOMAIN row
    OBVIOUS
  <2> HIDE DEF row
  <2>4. /\ f = [y \in DOMAIN f |-> f[y]] /\ DOMAIN f = DOMAIN k.assignments \cup {x}
        /\ f[x] = row /\ \A y \in DOMAIN k.assignments \ {x} : f[y] = k.assignments[y]
    BY DEF Put, Written
  <2> HIDE DEF f
  <2>5. /\ Whole(put) /\ put.assignments = f /\ put.assets = k.assets
        /\ put.assetLinks = k.assetLinks /\ put.members = k.members
        /\ put.teams = k.teams /\ put.clientLinks = k.clientLinks
        /\ put.teamLinks = k.teamLinks
    BY <1>2 DEF Whole, Tables
  <2> HIDE DEF put
  <2>6. \A y \in DOMAIN f \ {x} :
          /\ f[y].assets \subseteq DOMAIN k.assets
          /\ f[y].assets = {a \in Assets : <<y, a>> \in DOMAIN k.assetLinks}
    BY <1>2, <2>4 DEF AssetsAgree
  <2>7. x \in DOMAIN put.assignments /\ "assets" \in DOMAIN put.assignments[x]
    BY <2>3, <2>4, <2>5
  <2>8. /\ AssetsAgree(tables)
        /\ tables.assets = put.assets /\ tables.members = put.members
        /\ tables.teams = put.teams /\ tables.clientLinks = put.clientLinks
        /\ tables.teamLinks = put.teamLinks
    BY <2>1, <2>2, <2>4, <2>5, <2>6, <2>7, EquippedAgrees
  <2> HIDE DEF tables
  <2>9. MembersAgree(tables) /\ (TeamsAgree(k) => TeamsAgree(tables))
    BY <1>2, <2>5, <2>8, MembersStay, TeamsStay
  <2>10. QED
    BY <2>8, <2>9 DEF AcceptedAs, Agreeing
<1>4. QED
  BY <1>1, <1>3, RelatedBy DEF RefusedAs

LEMMA AssignmentAssetsRelated ==
  ASSUME NEW w, Ready(w), Agreeing(core[w]), AssignmentAssets(w)
  PROVE  Related(w)
<1> DEFINE c == command[w]
           k == core[w]
           x == c.assignment
           held == IF x \in DOMAIN k.assignments THEN k.assignments[x].assets ELSE {}
           named == CASE c.op = "assets.set"   -> c.assets
                      [] c.op = "asset.link"   -> {c.asset}
                      [] c.op = "asset.unlink" -> {}
           assets == CASE c.op = "assets.set"   -> c.assets
                       [] c.op = "asset.link"   -> held \cup {c.asset}
                       [] c.op = "asset.unlink" -> held \ {c.asset}
           tables == Equipped(k, x, assets)
<1>1. /\ c.op \in {"assets.set", "asset.link", "asset.unlink"}
      /\ \/ /\ x \in DOMAIN k.assignments /\ named \subseteq DOMAIN k.assets
            /\ Accept(w, tables)
         \/ Reject(w, k)
  BY DEF AssignmentAssets, Loaded
<1>2. TablesOK(k) /\ Whole(k) /\ AssetsAgree(k) /\ MembersAgree(k)
  BY TablesAreWhole DEF Ready, Agreeing
<1>3. ASSUME x \in DOMAIN k.assignments, named \subseteq DOMAIN k.assets
      PROVE  AcceptedAs(w, tables) \/ ~Accept(w, tables)
  <2>1. held \subseteq DOMAIN k.assets
    BY <1>2 DEF AssetsAgree
  <2> HIDE DEF held
  <2>2. assets \subseteq DOMAIN k.assets
    BY <1>1, <1>3, <2>1
  <2>3. assets \in SUBSET Assets
    BY <1>2, <2>2, AssignmentRow
  <2> HIDE DEF assets
  <2>4. \A y \in DOMAIN k.assignments :
          /\ k.assignments[y].assets \subseteq DOMAIN k.assets
          /\ k.assignments[y].assets = {a \in Assets : <<y, a>> \in DOMAIN k.assetLinks}
    BY <1>2 DEF AssetsAgree
  <2>5. /\ k.assignments = [y \in DOMAIN k.assignments |-> k.assignments[y]]
        /\ "assets" \in DOMAIN k.assignments[x]
    BY <1>2, <1>3, AssignmentRow
  <2>6. /\ AssetsAgree(tables)
        /\ tables.assets = k.assets /\ tables.members = k.members
        /\ tables.teams = k.teams /\ tables.clientLinks = k.clientLinks
        /\ tables.teamLinks = k.teamLinks
    BY <1>2, <1>3, <2>2, <2>3, <2>4, <2>5, EquippedAgrees
  <2> HIDE DEF tables
  <2>7. MembersAgree(tables) /\ (TeamsAgree(k) => TeamsAgree(tables))
    BY <1>2, <2>6, MembersStay, TeamsStay
  <2>8. QED
    BY <2>6, <2>7 DEF AcceptedAs, Agreeing
<1>4. QED
  BY <1>1, <1>3, RelatedBy DEF RefusedAs

--------------------------------------------------------------------------
(* Teams and their missions.                                               *)

\* A team that is there or not gets new links and says the same.
LEMMA TeamRelinked ==
  ASSUME NEW k, Whole(k), TeamsAgree(k), NEW t, NEW missions \in SUBSET Missions,
         NEW tables, tables.teamLinks = Relinked(k, t, missions).teamLinks,
         DOMAIN tables.teams = DOMAIN k.teams \cup {t},
         tables.teams[t].missions = missions, tables.teams[t].first \in Firsts(missions),
         \A s \in DOMAIN k.teams \ {t} : tables.teams[s] = k.teams[s]
  PROVE  TeamsAgree(tables)
<1> DEFINE links == tables.teamLinks
<1>1. DOMAIN links = {l \in DOMAIN k.teamLinks : l[2] # t} \cup (missions \X {t})
  BY DEF Whole, Tables, Relinked, With, Written, Restrict
<1> HIDE DEF links
<1>2. ASSUME NEW s \in DOMAIN tables.teams
      PROVE  /\ tables.teams[s].missions = {m \in Missions : <<m, s>> \in DOMAIN links}
             /\ tables.teams[s].first \in Firsts(tables.teams[s].missions)
  <2>1. CASE s = t
    <3>1. \A m : <<m, t>> \in DOMAIN links <=> m \in missions
      BY <1>1
    <3>2. QED
      BY <2>1, <3>1
  <2>2. CASE s # t
    <3>1. \A m : <<m, s>> \in DOMAIN links <=> <<m, s>> \in DOMAIN k.teamLinks
      BY <1>1, <2>2
    <3>2. QED
      BY <1>2, <2>2, <3>1 DEF TeamsAgree, MissionsOf
  <2>3. QED
    BY <2>1, <2>2
<1>3. \A l \in DOMAIN links : l[2] \in DOMAIN tables.teams
  BY <1>1 DEF TeamsAgree
<1>4. QED
  BY <1>2, <1>3 DEF TeamsAgree, MissionsOf, links

LEMMA RelinkedFields ==
  ASSUME NEW k, Whole(k), NEW t, NEW missions
  PROVE  LET tables == Relinked(k, t, missions)
         IN  Whole(tables) /\ \A x \in Tables \ {"teamLinks"} : tables[x] = k[x]
BY DEF Whole, Tables, Relinked

\* Only teams and their links are changed, and no team goes.
LEMMA TeamsOnly ==
  ASSUME NEW k, Agreeing(k), NEW tables, DOMAIN k.teams \subseteq DOMAIN tables.teams,
         \A x \in Tables \ {"teams", "teamLinks"} : tables[x] = k[x]
  PROVE  Agreeing(tables)
<1>1. /\ tables.assets = k.assets /\ tables.members = k.members
      /\ tables.clientLinks = k.clientLinks /\ tables.assignments = k.assignments
      /\ tables.assetLinks = k.assetLinks
  BY DEF Tables
<1>2. QED
  BY <1>1, AssetsStay, MembersStay DEF Agreeing

\* A team without links says that it has no missions.
LEMMA NewTeamAgrees ==
  ASSUME NEW k, Whole(k), NEW t, t \notin DOMAIN k.teams
  PROVE  LET tables == [k EXCEPT !.teams = Put(@, t, NewTeam)]
         IN  TeamsAgree(k) => TeamsAgree(tables)
<1> DEFINE f == Put(k.teams, t, NewTeam)
           tables == [k EXCEPT !.teams = f]
<1> SUFFICES ASSUME TeamsAgree(k) PROVE TeamsAgree(tables)
  OBVIOUS
<1>1. tables.teams = f /\ tables.teamLinks = k.teamLinks
  BY DEF Whole, Tables
<1>2. /\ DOMAIN f = DOMAIN k.teams \cup {t} /\ f[t] = NewTeam
      /\ \A s \in DOMAIN k.teams : f[s] = k.teams[s]
  BY DEF Put, Written
<1> HIDE DEF f, tables
<1>3. MissionsOf(k, t) = {}
  BY DEF TeamsAgree, MissionsOf
<1>4. NewTeam.missions = {} /\ NewTeam.first \in Firsts({})
  BY DEF NewTeam, Firsts
<1>5. ASSUME NEW s \in DOMAIN f
      PROVE  /\ f[s].missions = MissionsOf(k, s)
             /\ f[s].first \in Firsts(f[s].missions)
  <2>1. CASE s = t
    BY <1>2, <1>3, <1>4, <2>1
  <2>2. CASE s # t
    BY <1>2, <1>5, <2>2 DEF TeamsAgree
  <2>3. QED
    BY <2>1, <2>2
<1>6. QED
  BY <1>1, <1>2, <1>5, MissionsStay DEF TeamsAgree

LEMMA TeamUpsertRelated ==
  ASSUME NEW w, Ready(w), Agreeing(core[w]), TeamUpsert(w)
  PROVE  Related(w)
<1> DEFINE c == command[w]
           k == core[w]
           t == c.team
           team == IF t \in DOMAIN k.teams THEN k.teams[t] ELSE NewTeam
           relinked == IF c.missions = Keep THEN k ELSE Relinked(k, t, c.missions)
           same == [k EXCEPT !.teams = Put(@, t, team)]
           row(f) == [missions |-> c.missions, first |-> f]
           tables(f) == [relinked EXCEPT !.teams = Put(@, t, row(f))]
<1>1. /\ c.op = "team.upsert"
      /\ \/ Reject(w, k)
         \/ Reject(w, relinked)
         \/ Accept(w, same)
         \/ c.missions # Keep /\ \E f \in Firsts(c.missions) : Accept(w, tables(f))
  BY DEF TeamUpsert, Loaded
<1>2. TablesOK(k) /\ Whole(k) /\ c \in AllRequests
  BY TablesAreWhole DEF Ready
<1>3. t \in Teams /\ c.missions \in (SUBSET Missions) \cup {Keep}
  BY <1>1, <1>2, TeamUpsertRequest
<1>4. Whole(relinked) /\ \A x \in Tables \ {"teamLinks"} : relinked[x] = k[x]
  BY <1>2, RelinkedFields
<1>5. Agreeing(relinked)
  <2>1. relinked.teams = k.teams
    BY <1>4 DEF Tables
  <2> HIDE DEF relinked
  <2>2. QED
    BY <1>4, <2>1, TeamsOnly
<1>6. Agreeing(same) /\ (TeamsAgree(k) => TeamsAgree(same))
  <2>1. /\ DOMAIN k.teams \subseteq DOMAIN same.teams
        /\ \A x \in Tables \ {"teams", "teamLinks"} : same[x] = k[x]
        /\ same.teamLinks = k.teamLinks /\ same.teams = Put(k.teams, t, team)
    BY <1>2, GrowingDomains DEF Whole, Tables
  <2>2. Agreeing(same)
    BY <2>1, TeamsOnly
  <2>3. CASE t \notin DOMAIN k.teams
    <3>1. same = [k EXCEPT !.teams = Put(@, t, NewTeam)]
      BY <2>3
    <3>2. QED
      BY <1>2, <2>2, <2>3, <3>1, NewTeamAgrees
  <2>4. CASE t \in DOMAIN k.teams
    <3>1. team = k.teams[t]
      BY <2>4
    <3>2. k.teams = [s \in DOMAIN k.teams |-> k.teams[s]]
      BY <1>2, TablesParts, TableIs
    <3> HIDE DEF team
    <3>3. Put(k.teams, t, team) = k.teams
      BY <2>4, <3>1, <3>2 DEF Put, Written
    <3>4. QED
      BY <2>1, <2>2, <3>3, TeamsStay
  <2>5. QED
    BY <2>3, <2>4
<1> HIDE DEF same
<1>7. ASSUME c.missions # Keep, NEW f \in Firsts(c.missions)
      PROVE  Agreeing(tables(f)) /\ (TeamsAgree(k) => TeamsAgree(tables(f)))
  <2> DEFINE T == tables(f)
             teams == Put(relinked.teams, t, row(f))
  <2>1. relinked.teamLinks = Relinked(k, t, c.missions).teamLinks
    BY <1>7
  <2>2. relinked.teams = k.teams
    BY <1>4 DEF Tables
  <2> HIDE DEF relinked
  <2>3. row(f).missions = c.missions /\ row(f).first = f
    OBVIOUS
  <2> HIDE DEF row
  <2>4. /\ T.teams = teams /\ T.teamLinks = relinked.teamLinks
        /\ \A x \in Tables \ {"teams"} : T[x] = relinked[x]
    BY <1>4 DEF Whole, Tables
  <2>5. /\ DOMAIN teams = DOMAIN k.teams \cup {t} /\ teams[t] = row(f)
        /\ \A s \in DOMAIN k.teams \ {t} : teams[s] = k.teams[s]
    BY <2>2 DEF Put, Written
  <2> HIDE DEF teams, T
  <2>6. \A x \in Tables \ {"teams", "teamLinks"} : T[x] = k[x]
    BY <1>4, <2>4
  <2>7. Agreeing(T)
    BY <2>4, <2>5, <2>6, TeamsOnly
  <2>8. c.missions \in SUBSET Missions
    BY <1>3, <1>7
  <2>9. TeamsAgree(k) => TeamsAgree(T)
    BY <1>2, <1>7, <2>1, <2>3, <2>4, <2>5, <2>8, TeamRelinked
  <2>10. QED
    BY <2>7, <2>9 DEF T
<1> HIDE DEF relinked, tables
<1>8. QED
  BY <1>1, <1>5, <1>6, <1>7, RelatedBy DEF AcceptedAs, RefusedAs

LEMMA TeamMissionRelated ==
  ASSUME NEW w, Ready(w), Agreeing(core[w]), TeamMission(w)
  PROVE  Related(w)
<1> DEFINE c == command[w]
           k == core[w]
           t == c.team
           linked == MissionsOf(k, t)
           first == IF t \in DOMAIN k.teams THEN k.teams[t].first ELSE None
           held == linked \cup ({first} \ {None})
           missions == IF c.op = "team.link" THEN held \cup {c.mission}
                                             ELSE held \ {c.mission}
           ahead == IF linked \cap missions # {} THEN linked \cap missions
                    ELSE IF held \cap missions # {} THEN held \cap missions ELSE missions
           relinked == Relinked(k, t, missions)
           row(f) == [missions |-> missions, first |-> f]
           tables(f) == [relinked EXCEPT !.teams[t] = row(f)]
<1>1. /\ c.op \in {"team.link", "team.unlink"}
      /\ \/ Reject(w, k)
         \/ Reject(w, relinked)
         \/ t \in DOMAIN k.teams /\ \E f \in Firsts(ahead) : Accept(w, tables(f))
  BY DEF TeamMission, Loaded
<1>2. TablesOK(k) /\ Whole(k) /\ c \in AllRequests
  BY TablesAreWhole DEF Ready
<1>3. t \in Teams /\ c.mission \in Missions
  BY <1>1, <1>2, TeamMissionRequest
<1>4. missions \in SUBSET Missions
  <2>1. first \in Missions \cup {None}
    BY <1>2, TablesParts, TableIs DEF TeamRows
  <2>2. linked \subseteq Missions
    BY DEF MissionsOf
  <2>3. QED
    BY <1>3, <2>1, <2>2
<1>5. ahead \subseteq missions /\ (ahead = {} => missions = {})
  <2> HIDE DEF missions, held, linked
  <2>1. QED
    OBVIOUS
<1> HIDE DEF missions, ahead
<1>6. Firsts(ahead) \subseteq Firsts(missions)
  BY <1>5 DEF Firsts
<1>7. Whole(relinked) /\ \A x \in Tables \ {"teamLinks"} : relinked[x] = k[x]
  BY <1>2, RelinkedFields
<1>8. Agreeing(relinked) /\ relinked.teams = k.teams
  <2>1. relinked.teams = k.teams
    BY <1>7 DEF Tables
  <2> HIDE DEF relinked
  <2>2. QED
    BY <1>7, <2>1, TeamsOnly
<1>9. ASSUME t \in DOMAIN k.teams, NEW f \in Firsts(ahead)
      PROVE  Agreeing(tables(f)) /\ (TeamsAgree(k) => TeamsAgree(tables(f)))
  <2> DEFINE T == tables(f)
             teams == [k.teams EXCEPT ![t] = row(f)]
  <2>1. row(f).missions = missions /\ row(f).first \in Firsts(missions)
    BY <1>6, <1>9
  <2> HIDE DEF row
  <2>2. relinked.teamLinks = Relinked(k, t, missions).teamLinks
    OBVIOUS
  <2> HIDE DEF relinked
  <2>3. /\ T.teams = teams /\ T.teamLinks = relinked.teamLinks
        /\ \A x \in Tables \ {"teams"} : T[x] = relinked[x]
    BY <1>7, <1>8 DEF Whole, Tables
  <2>4. /\ DOMAIN teams = DOMAIN k.teams \cup {t} /\ teams[t] = row(f)
        /\ \A s \in DOMAIN k.teams \ {t} : teams[s] = k.teams[s]
    BY <1>9
  <2> HIDE DEF teams, T
  <2>5. \A x \in Tables \ {"teams", "teamLinks"} : T[x] = k[x]
    BY <1>7, <2>3
  <2>6. Agreeing(T)
    BY <2>3, <2>4, <2>5, TeamsOnly
  <2>7. TeamsAgree(k) => TeamsAgree(T)
    BY <1>2, <1>4, <2>1, <2>2, <2>3, <2>4, TeamRelinked
  <2>8. QED
    BY <2>6, <2>7 DEF T
<1> HIDE DEF relinked, tables
<1>10. QED
  BY <1>1, <1>8, <1>9, RelatedBy DEF AcceptedAs, RefusedAs

LEMMA TeamDeleteRelated ==
  ASSUME NEW w, Ready(w), Agreeing(core[w]), TeamDelete(w)
  PROVE  Related(w)
<1> DEFINE t == command[w].team
           k == core[w]
           teams == Without(k.teams, {t})
           members == [u \in DOMAIN k.members |-> IF k.members[u].team = t
                         THEN [k.members[u] EXCEPT !.team = None] ELSE k.members[u]]
           links == Restrict(k.teamLinks, {l \in DOMAIN k.teamLinks : l[2] # t})
           tables == [k EXCEPT !.teams = teams, !.members = members, !.teamLinks = links]
<1>1. Accept(w, tables) \/ Reject(w, k)
  BY DEF TeamDelete
<1>2. TablesOK(k) /\ Whole(k) /\ AssetsAgree(k) /\ MembersAgree(k)
  BY TablesAreWhole DEF Ready, Agreeing
<1>3. /\ tables.teams = teams /\ tables.members = members /\ tables.teamLinks = links
      /\ tables.assets = k.assets /\ tables.clientLinks = k.clientLinks
      /\ tables.assignments = k.assignments /\ tables.assetLinks = k.assetLinks
  BY <1>2 DEF Whole, Tables
<1>4. /\ DOMAIN teams = DOMAIN k.teams \ {t}
      /\ \A s \in DOMAIN teams : teams[s] = k.teams[s]
      /\ DOMAIN links = {l \in DOMAIN k.teamLinks : l[2] # t}
  BY DEF Without, Restrict
<1>5. /\ DOMAIN members = DOMAIN k.members
      /\ \A u \in DOMAIN members :
           /\ members[u].clients = k.members[u].clients
           /\ members[u].team = None \/ (members[u].team = k.members[u].team
                                         /\ k.members[u].team # t)
  <2>1. \A u \in DOMAIN k.members : k.members[u] \in MemberRows
    BY <1>2, TablesParts, TableIs
  <2>2. QED
    BY <2>1 DEF MemberRows
<1> HIDE DEF teams, members, links, tables
<1>6. AssetsAgree(tables)
  BY <1>2, <1>3, AssetsStay
<1>7. ASSUME NEW u \in DOMAIN members
      PROVE  /\ members[u].team \in DOMAIN teams \cup {None}
             /\ members[u].clients = ClientsOf(tables, u)
  <2>1. ClientsOf(tables, u) = ClientsOf(k, u)
    BY <1>3, ClientsStay
  <2>2. QED
    BY <1>2, <1>4, <1>5, <1>7, <2>1 DEF MembersAgree
<1>8. MembersAgree(tables)
  BY <1>2, <1>3, <1>5, <1>7 DEF MembersAgree
<1>9. ASSUME TeamsAgree(k) PROVE TeamsAgree(tables)
  <2>1. ASSUME NEW s \in DOMAIN teams
        PROVE  MissionsOf(tables, s) = MissionsOf(k, s)
    <3>1. \A m : <<m, s>> \in DOMAIN links <=> <<m, s>> \in DOMAIN k.teamLinks
      BY <1>4, <2>1
    <3>2. QED
      BY <1>3, <3>1 DEF MissionsOf
  <2>2. \A l \in DOMAIN links : l[2] \in DOMAIN teams
    BY <1>4, <1>9 DEF TeamsAgree
  <2>3. QED
    BY <1>3, <1>4, <1>9, <2>1, <2>2 DEF TeamsAgree
<1>10. QED
  BY <1>1, <1>6, <1>8, <1>9, RelatedBy DEF AcceptedAs, RefusedAs, Agreeing

--------------------------------------------------------------------------
(* A report may come with a team and a member.                             *)

LEMMA ProvisionedAgrees ==
  ASSUME NEW k, Whole(k), Agreeing(k), NEW c
  PROVE  LET tables == Provisioned(k, c).tables
         IN  Agreeing(tables) /\ (TeamsAgree(k) => TeamsAgree(tables))
<1> DEFINE made == [k EXCEPT !.teams = Put(@, c.team, NewTeam)]
           team == IF c.team \in Canonical \ DOMAIN k.teams THEN made ELSE k
           row == [team |-> c.team, identity |-> c.source, clients |-> {}]
           f == Put(team.members, c.member, row)
           full == [team EXCEPT !.members = f]
<1>1. Whole(team) /\ \A x \in Tables \ {"teams"} : team[x] = k[x]
  BY DEF Whole, Tables
<1>2. team.members = k.members
  BY <1>1 DEF Tables
<1>3. Agreeing(team) /\ (TeamsAgree(k) => TeamsAgree(team))
  <2>1. CASE c.team \in Canonical \ DOMAIN k.teams
    <3>1. DOMAIN k.teams \subseteq DOMAIN made.teams
      BY GrowingDomains DEF Whole, Tables
    <3>2. team = made /\ c.team \notin DOMAIN k.teams
      BY <2>1
    <3>3. DOMAIN k.teams \subseteq DOMAIN team.teams
      BY <3>1, <3>2
    <3>4. \A x \in Tables \ {"teams", "teamLinks"} : team[x] = k[x]
      BY <1>1
    <3>5. Agreeing(team)
      <4> HIDE DEF team, made
      <4> QED
        BY <3>3, <3>4, TeamsOnly
    <3>6. TeamsAgree(k) => TeamsAgree(made)
      BY <3>2, NewTeamAgrees
    <3>7. QED
      BY <3>2, <3>5, <3>6
  <2>2. CASE ~(c.team \in Canonical \ DOMAIN k.teams)
    BY <2>2
  <2>3. QED
    BY <2>1, <2>2
<1>4. \/ Provisioned(k, c).tables \in {k, team}
      \/ /\ c.team \in DOMAIN team.teams /\ c.member \notin DOMAIN k.members
         /\ Provisioned(k, c).tables \in {team, full}
  <2>1. CASE c.team \notin DOMAIN team.teams
    BY <2>1 DEF Provisioned
  <2>2. CASE c.team \in DOMAIN team.teams /\ c.member \in DOMAIN k.members
    BY <2>2 DEF Provisioned
  <2>3. CASE c.team \in DOMAIN team.teams /\ c.member \notin DOMAIN k.members
    BY <2>3 DEF Provisioned
  <2>4. QED
    BY <2>1, <2>2, <2>3
<1> HIDE DEF team
<1>5. ASSUME c.team \in DOMAIN team.teams, c.member \notin DOMAIN k.members
      PROVE  Agreeing(full) /\ (TeamsAgree(team) => TeamsAgree(full))
  <2>1. /\ full.members = f
        /\ full.assets = team.assets /\ full.teams = team.teams
        /\ full.clientLinks = team.clientLinks /\ full.assignments = team.assignments
        /\ full.assetLinks = team.assetLinks /\ full.teamLinks = team.teamLinks
    BY <1>1 DEF Whole, Tables
  <2>2. /\ DOMAIN f = DOMAIN team.members \cup {c.member} /\ f[c.member] = row
        /\ \A u \in DOMAIN team.members \ {c.member} : f[u] = team.members[u]
    BY DEF Put, Written
  <2>3. row.team = c.team /\ row.clients = {}
    OBVIOUS
  <2> HIDE DEF row, f, full
  <2>4. AssetsAgree(team) /\ MembersAgree(team)
    BY <1>3 DEF Agreeing
  <2>5. ClientsOf(team, c.member) = {}
    BY <1>2, <1>5, <2>4 DEF MembersAgree, ClientsOf
  <2>6. ASSUME NEW u \in DOMAIN f
        PROVE  f[u].team \in DOMAIN team.teams \cup {None} /\ f[u].clients = ClientsOf(full, u)
    <3>1. ClientsOf(full, u) = ClientsOf(team, u)
      BY <2>1, ClientsStay
    <3>2. CASE u = c.member
      BY <1>5, <2>2, <2>3, <2>5, <3>1, <3>2
    <3>3. CASE u # c.member
      BY <2>2, <2>4, <2>6, <3>1, <3>3 DEF MembersAgree
    <3>4. QED
      BY <3>2, <3>3
  <2>7. MembersAgree(full)
    BY <2>1, <2>2, <2>4, <2>6 DEF MembersAgree
  <2>8. AssetsAgree(full) /\ (TeamsAgree(team) => TeamsAgree(full))
    BY <2>1, <2>4, AssetsStay, TeamsStay
  <2>9. QED
    BY <2>7, <2>8 DEF Agreeing
<1> HIDE DEF full
<1>6. QED
  BY <1>3, <1>4, <1>5

LEMMA EamUpsertRelated ==
  ASSUME NEW w, Ready(w), Agreeing(core[w]), EamUpsert(w)
  PROVE  Related(w)
<1> DEFINE k == Provisioned(core[w], command[w]).tables
<1>1. \/ Reject(w, k)
      \/ \E key, row : Accept(w, [k EXCEPT !.eams = Put(@, key, row)])
  BY DEF EamUpsert
<1>2. /\ Whole(core[w])
      /\ Agreeing(k) /\ (TeamsAgree(core[w]) => TeamsAgree(k))
  BY TablesAreWhole, ProvisionedAgrees DEF Ready
<1>3. Whole(k)
  <2>1. Whole([core[w] EXCEPT !.teams = Put(@, command[w].team, NewTeam)])
    BY <1>2 DEF Whole, Tables
  <2>2. QED
    BY <1>2, <2>1 DEF Whole, Tables, Provisioned
<1> HIDE DEF k
<1>4. ASSUME NEW key, NEW row
      PROVE  LET tables == [k EXCEPT !.eams = Put(@, key, row)]
             IN  Agreeing(tables) /\ (TeamsAgree(k) => TeamsAgree(tables))
  <2> DEFINE tables == [k EXCEPT !.eams = Put(@, key, row)]
  <2>1. SameRelations(k, tables)
    BY <1>3, OtherTables
  <2> HIDE DEF tables
  <2>2. Agreeing(tables) /\ (TeamsAgree(k) => TeamsAgree(tables))
    BY <1>2, <2>1, SameAgrees
  <2>3. QED
    BY <2>2 DEF tables
<1>5. QED
  BY <1>1, <1>2, <1>4, RelatedBy DEF AcceptedAs, RefusedAs

\* Whatever the command, it leaves in agreement what it found in agreement.
LEMMA ApplyRelated ==
  ASSUME NEW w, Ready(w), Agreeing(core[w]), Apply(w)
  PROVE  Related(w)
<1>1. Whole(core[w])
  BY TablesAreWhole DEF Ready
<1>2. QED
  BY <1>1, OthersElsewhere, ElsewhereRelated, TeamUpsertRelated, TeamDeleteRelated,
     TeamMissionRelated, MemberUpsertRelated, MemberDeleteRelated, ClientLinkRelated,
     ClientUnlinkRelated, AssetUpsertRelated, AssetDeleteRelated, AssignmentUpsertRelated,
     AssignmentAssetsRelated, EamUpsertRelated
     DEF Apply

--------------------------------------------------------------------------
(* The invariant is inductive.                                             *)

\* A worker that is not behind has read what is in the store, and what its command
\* has made of it agrees.
UpToDate(w) ==
  /\ \A i \in 1 .. read[w] : before[w][Statements[i]] = store[Statements[i]]
  /\ phase[w] \in {"loaded", "applied"} => before[w] = store
  /\ phase[w] = "applied" =>
       /\ Agreeing(core[w])
       /\ spilled \/ ~ok[w] \/ TeamsAgree(core[w])

RelationsKept ==
  ~overlapped =>
    /\ Agreeing(store) /\ (spilled \/ TeamsAgree(store))
    /\ \A w \in Workers : ~behind[w] => UpToDate(w)

RelationInv == TypeInv /\ RelationsKept

LEMMA EveryTableIsRead == \A t \in Tables : \E i \in 1 .. 15 : t = Statements[i]
BY DEF Tables, Statements

LEMMA StatementsAreTables == \A i \in 1 .. 15 : Statements[i] \in Tables
BY DEF Tables, Statements

LEMMA UpToDateStays ==
  ASSUME NEW v, UpToDate(v), store' = store, spilled' = spilled, phase'[v] = phase[v],
         read'[v] = read[v], before'[v] = before[v], core'[v] = core[v], ok'[v] = ok[v]
  PROVE  UpToDate(v)'
BY DEF UpToDate

\* A step that leaves the store alone and touches one worker only.
LEMMA OneWorkerKeeps ==
  ASSUME RelationInv, NEW w \in Workers,
         UNCHANGED <<store, overlapped, spilled>>, behind = behind' \/ ~behind'[w],
         \A v \in Workers \ {w} :
           /\ phase'[v] = phase[v] /\ read'[v] = read[v] /\ before'[v] = before[v]
           /\ core'[v] = core[v] /\ ok'[v] = ok[v] /\ behind'[v] = behind[v],
         ~overlapped /\ ~behind'[w] => UpToDate(w)'
  PROVE  RelationsKept'
<1>1. SUFFICES ASSUME ~overlapped
               PROVE  /\ Agreeing(store') /\ (spilled' \/ TeamsAgree(store'))
                      /\ \A v \in Workers : ~behind'[v] => UpToDate(v)'
  BY DEF RelationsKept
<1>2. Agreeing(store') /\ (spilled' \/ TeamsAgree(store'))
  BY <1>1 DEF RelationInv, RelationsKept
<1>3. ASSUME NEW v \in Workers, v # w, ~behind'[v] PROVE UpToDate(v)'
  <2>1. UpToDate(v)
    BY <1>1, <1>3 DEF RelationInv, RelationsKept
  <2>2. QED
    BY <1>3, <2>1, UpToDateStays
<1>4. QED
  BY <1>1, <1>2, <1>3

LEMMA BeginKeepsRelations ==
  ASSUME RelationInv, NEW w \in Workers, NEW c, Begin(w, c)
  PROVE  RelationsKept'
<1>1. /\ phase' = [phase EXCEPT ![w] = "reading"] /\ phase[w] = "idle"
      /\ UNCHANGED <<store, read, before, core, ok, behind, overlapped, spilled>>
  BY DEF Begin
<1>2. phase'[w] = "reading" /\ read[w] = 0
  BY <1>1 DEF RelationInv, TypeInv, TypeOK, ReportInv, Counted
<1>3. UpToDate(w)'
  BY <1>1, <1>2 DEF UpToDate
<1>4. \A v \in Workers \ {w} : phase'[v] = phase[v]
  BY <1>1 DEF RelationInv, TypeInv, TypeOK
<1>5. \A v \in Workers \ {w} :
        /\ phase'[v] = phase[v] /\ read'[v] = read[v] /\ before'[v] = before[v]
        /\ core'[v] = core[v] /\ ok'[v] = ok[v] /\ behind'[v] = behind[v]
  BY <1>1, <1>4
<1>6. UNCHANGED <<store, overlapped, spilled>> /\ behind = behind'
  BY <1>1
<1>7. ~overlapped /\ ~behind'[w] => UpToDate(w)'
  BY <1>3
<1>8. QED
  BY <1>5, <1>6, <1>7, OneWorkerKeeps

\* A worker that goes on reading has what is in the store, and has all of it when it
\* has read the last table.
LEMMA ReadKeepsRelations ==
  ASSUME RelationInv, NEW w \in Workers, NEW n \in DOMAIN Statements, Read(w, n)
  PROVE  RelationsKept'
<1> DEFINE now == {Statements[i] : i \in (read[w] + 1) .. n}
           table == [t \in Tables |-> IF t \in now THEN store[t] ELSE before[w][t]]
<1>1. /\ UNCHANGED <<store, ok, behind, overlapped, spilled>>
      /\ before' = [before EXCEPT ![w] = table] /\ read' = [read EXCEPT ![w] = n]
      /\ phase[w] = "reading" /\ read[w] < n
      /\ \/ /\ phase' = [phase EXCEPT ![w] = "loaded"] /\ n = 15
            /\ core' = [core EXCEPT ![w] = before'[w]]
         \/ phase' = phase /\ core' = core
  BY FifthTable DEF Read
<1>2. n \in 1 .. 15 /\ read[w] \in 0 .. 15
  BY FifthTable DEF Statements, RelationInv, TypeInv, ReportInv, Counted
<1>3. ASSUME UpToDate(w), NEW i \in 1 .. n
      PROVE  table[Statements[i]] = store[Statements[i]]
  <2>1. Statements[i] \in Tables
    BY <1>2, StatementsAreTables
  <2>2. CASE i <= read[w]
    BY <1>2, <1>3, <2>1, <2>2 DEF UpToDate
  <2>3. CASE ~(i <= read[w])
    <3>1. i \in (read[w] + 1) .. n
      BY <1>2, <2>3
    <3>2. QED
      BY <2>1, <3>1
  <2>4. QED
    BY <2>2, <2>3
<1>4. Whole(table)
  BY DEF Whole
<1> HIDE DEF table
<1>5. before'[w] = table /\ read'[w] = n
  BY <1>1 DEF RelationInv, TypeInv, ReportInv, RegistryInv, Counted
<1>6. \/ phase'[w] = "loaded" /\ n = 15
      \/ phase'[w] = "reading"
  BY <1>1 DEF RelationInv, TypeInv, TypeOK
<1>7. ASSUME UpToDate(w), n = 15 PROVE table = store
  <2>1. ASSUME NEW t \in Tables PROVE table[t] = store[t]
    <3>1. PICK i \in 1 .. 15 : t = Statements[i]
      BY EveryTableIsRead
    <3>2. QED
      BY <1>3, <1>7, <3>1
  <2>2. Whole(store)
    BY DEF RelationInv, TypeInv, ReportInv, RegistryInv, Sound
  <2>3. QED
    BY <1>4, <2>1, <2>2 DEF Whole
<1>8. UpToDate(w) => UpToDate(w)'
  BY <1>1, <1>3, <1>5, <1>6, <1>7 DEF UpToDate
<1>9. \A v \in Workers \ {w} :
        /\ phase'[v] = phase[v] /\ read'[v] = read[v] /\ before'[v] = before[v]
        /\ core'[v] = core[v]
  <2>1. ASSUME NEW v \in Workers \ {w} PROVE phase'[v] = phase[v] /\ core'[v] = core[v]
    BY <1>1 DEF RelationInv, TypeInv, ReportInv, RegistryInv
  <2>2. ASSUME NEW v \in Workers \ {w} PROVE read'[v] = read[v] /\ before'[v] = before[v]
    BY <1>1 DEF RelationInv, TypeInv, ReportInv, RegistryInv, Counted
  <2>3. QED
    BY <2>1, <2>2
<1>10. ~overlapped /\ ~behind[w] => UpToDate(w)
  BY DEF RelationInv, RelationsKept
<1>11. QED
  BY <1>1, <1>8, <1>9, <1>10, OneWorkerKeeps

\* A worker that is not behind works on what is in the store.
LEMMA ApplyKeepsRelations ==
  ASSUME RelationInv, NEW w \in Workers, Apply(w)
  PROVE  RelationsKept'
<1>1. phase[w] = "loaded"
  BY ApplyKeeps DEF RelationInv, TypeInv, ReportInv, Outcome
<1>2. Ready(w)
  BY <1>1 DEF Ready, RelationInv, TypeInv, TypeOK, ReportInv, RegistryInv, Counted
<1>3. PICK accepted, tables : Applied(w, accepted, tables)
  BY <1>2, ApplyTyped DEF Typed
<1>4. /\ phase' = [phase EXCEPT ![w] = "applied"] /\ core' = [core EXCEPT ![w] = tables]
      /\ ok' = [ok EXCEPT ![w] = accepted]
      /\ UNCHANGED <<store, read, before, behind, overlapped, spilled>>
  BY <1>3 DEF Applied
<1>5. \A v \in Workers \ {w} :
        phase'[v] = phase[v] /\ core'[v] = core[v] /\ ok'[v] = ok[v]
  <2>1. ASSUME NEW v \in Workers \ {w} PROVE phase'[v] = phase[v] /\ core'[v] = core[v]
    BY <1>4 DEF RelationInv, TypeInv, ReportInv, RegistryInv
  <2>2. ASSUME NEW v \in Workers \ {w} PROVE ok'[v] = ok[v]
    BY <1>4 DEF RelationInv, TypeInv, TypeOK
  <2>3. QED
    BY <2>1, <2>2
<1>6. ASSUME ~overlapped, ~behind[w] PROVE UpToDate(w)'
  <2>1. /\ UpToDate(w) /\ Agreeing(store) /\ (spilled \/ TeamsAgree(store))
        /\ before[w] = store
    BY <1>1, <1>6 DEF RelationInv, RelationsKept, UpToDate
  <2>2. core[w] = store
    BY <1>1, <2>1 DEF RelationInv, TypeInv, ReportInv, RegistryInv
  <2>3. Related(w)
    BY <1>2, <2>1, <2>2, ApplyRelated
  <2>4. PICK made : /\ Agreeing(made)
                    /\ \/ Accept(w, made) /\ (TeamsAgree(core[w]) => TeamsAgree(made))
                       \/ Reject(w, made)
    BY <2>3 DEF Related
  <2>5. core'[w] = made
    BY <2>4, CoreAfter DEF Accept, Reject, RelationInv, TypeInv, ReportInv
  <2>6. ok'[w] /\ TeamsAgree(core[w]) => TeamsAgree(made)
    <3>1. CASE Accept(w, made) /\ (TeamsAgree(core[w]) => TeamsAgree(made))
      BY <3>1
    <3>2. CASE Reject(w, made)
      BY <3>2 DEF Reject, Applied, RelationInv, TypeInv, TypeOK
    <3>3. QED
      BY <2>4, <3>1, <3>2
  <2>7. QED
    BY <1>4, <2>1, <2>2, <2>4, <2>5, <2>6 DEF UpToDate
<1>7. QED
  BY <1>4, <1>5, <1>6, OneWorkerKeeps

LEMMA IdleIsUpToDate ==
  ASSUME RelationInv, NEW w \in Workers, Idle(w)
  PROVE  UpToDate(w)'
<1>1. phase'[w] = "idle" /\ read'[w] = 0
  BY DEF Idle, RelationInv, TypeInv, ReportInv, Counted
<1>2. QED
  BY <1>1 DEF UpToDate

\* A table over which the worker lays all that it has of it.
LEMMA WholeDelta ==
  ASSUME NEW f, NEW g, NEW K, NEW V, IsTable(g, K, V)
  PROVE  Delta(f, f, g) = g
<1>1. g = [e \in DOMAIN g |-> g[e]]
  BY TableIs
<1>2. DOMAIN Delta(f, f, g) = DOMAIN g /\ \A e \in DOMAIN g : Delta(f, f, g)[e] = g[e]
  BY DEF Delta, Written, Without, Restrict
<1>3. Delta(f, f, g) = [e \in DOMAIN g |-> g[e]]
  BY <1>2 DEF Delta, Written
<1>4. QED
  BY <1>1, <1>3

\* A worker that is not behind replaces the store by what it has made of it; all that
\* have read something by now are behind.
LEMMA SaveKeepsRelations ==
  ASSUME RelationInv, NEW w \in Workers, Save(w)
  PROVE  RelationsKept'
<1>1. /\ phase[w] = "applied" /\ Idle(w)
      /\ store' = [t \in Tables |-> Delta(store[t], before[w][t], core[w][t])]
      /\ overlapped' = (overlapped \/ behind[w]) /\ spilled' = (spilled \/ ~ok[w])
      /\ behind' = [v \in Workers |-> v # w /\ (behind[v] \/ read[v] > 0)]
  BY DEF Save
<1>2. SUFFICES ASSUME ~overlapped'
               PROVE  /\ Agreeing(store') /\ (spilled' \/ TeamsAgree(store'))
                      /\ \A v \in Workers : ~behind'[v] => UpToDate(v)'
  BY DEF RelationsKept
<1>3. ~overlapped /\ UpToDate(w)
  BY <1>1, <1>2 DEF RelationInv, RelationsKept
<1>4. store' = core[w]
  <2>1. Whole(core[w]) /\ TablesOK(core[w])
    BY DEF RelationInv, TypeInv, TypeOK, ReportInv, RegistryInv, Sound
  <2>2. \A t \in Tables : \E K, V : IsTable(core[w][t], K, V)
    BY <2>1, TablesParts DEF Tables
  <2>3. \A t \in Tables : Delta(store[t], store[t], core[w][t]) = core[w][t]
    BY <2>2, WholeDelta
  <2>4. store' = [t \in Tables |-> Delta(store[t], store[t], core[w][t])]
    BY <1>1, <1>3 DEF UpToDate
  <2>5. store' = [t \in Tables |-> core[w][t]]
    BY <2>3, <2>4
  <2>6. QED
    BY <2>1, <2>5 DEF Whole
<1>5. Agreeing(store') /\ (spilled' \/ TeamsAgree(store'))
  BY <1>1, <1>3, <1>4 DEF UpToDate
<1>6. ASSUME NEW v \in Workers, ~behind'[v], v # w
      PROVE  UpToDate(v)'
  <2>1. read[v] = 0
    <3>1. ~(read[v] > 0)
      BY <1>1, <1>6
    <3>2. read[v] \in 0 .. 15
      BY FifthTable DEF RelationInv, TypeInv, ReportInv, Counted
    <3>3. QED
      BY <3>1, <3>2
  <2>2. phase'[v] = phase[v] /\ read'[v] = 0
    BY <1>1, <1>6, <2>1, IdleStaysInStep DEF RelationInv, TypeInv
  <2>3. phase[v] \notin {"loaded", "applied"}
    BY <2>1 DEF RelationInv, TypeInv, ReportInv, Counted
  <2>4. QED
    BY <2>2, <2>3 DEF UpToDate
<1>7. UpToDate(w)'
  BY <1>1, IdleIsUpToDate
<1>8. QED
  BY <1>5, <1>6, <1>7

LEMMA LoseKeepsRelations ==
  ASSUME RelationInv, NEW w \in Workers, Lose(w)
  PROVE  RelationsKept'
<1>1. /\ Idle(w) /\ UNCHANGED <<store, overlapped, spilled>>
      /\ behind' = [behind EXCEPT ![w] = FALSE]
  BY DEF Lose
<1>2. UpToDate(w)' /\ ~behind'[w]
  BY <1>1, IdleIsUpToDate DEF RelationInv, TypeInv, ReportInv, Counted
<1>3. ASSUME NEW v \in Workers \ {w}
      PROVE  /\ phase'[v] = phase[v] /\ read'[v] = read[v] /\ before'[v] = before[v]
             /\ core'[v] = core[v] /\ ok'[v] = ok[v] /\ behind'[v] = behind[v]
  <2>1. ok'[v] = ok[v]
    BY <1>1 DEF Idle, RelationInv, TypeInv, TypeOK
  <2>2. behind'[v] = behind[v]
    BY <1>1 DEF RelationInv, TypeInv, ReportInv, Counted
  <2>3. QED
    BY <1>1, <1>3, <2>1, <2>2, IdleStaysInStep DEF RelationInv, TypeInv
<1>4. QED
  BY <1>1, <1>2, <1>3, OneWorkerKeeps

LEMMA StartsRelated == Init => RelationInv
<1> SUFFICES ASSUME Init PROVE RelationInv
  OBVIOUS
<1>1. Agreeing(store) /\ TeamsAgree(store)
  BY StartsAgree DEF Init, Agreeing
<1>2. \A w \in Workers : UpToDate(w)
  BY DEF Init, UpToDate
<1>3. RelationsKept
  BY <1>1, <1>2 DEF RelationsKept
<1>4. QED
  BY <1>3, StartsTyped DEF RelationInv

LEMMA NextKeepsRelations == RelationInv /\ [Next]_vars => RelationInv'
<1>1. ASSUME RelationInv, Next PROVE RelationsKept'
  <2>1. PICK w \in Workers :
          \/ \E c \in Traffics[traffic].requests : Begin(w, c)
          \/ \E n \in DOMAIN Statements : Read(w, n)
          \/ Apply(w) \/ Save(w) \/ Lose(w)
    BY <1>1 DEF Next
  <2>2. QED
    BY <1>1, <2>1, BeginKeepsRelations, ReadKeepsRelations,
       ApplyKeepsRelations, SaveKeepsRelations, LoseKeepsRelations
<1>2. ASSUME RelationInv, UNCHANGED vars PROVE RelationsKept'
  BY <1>2 DEF RelationInv, RelationsKept, UpToDate, vars, local
<1>3. RelationInv /\ [Next]_vars => TypeInv'
  BY NextKeepsTypes DEF RelationInv
<1>4. QED
  BY <1>1, <1>2, <1>3 DEF RelationInv

\* As long as no save has overlapped another, a relation that the registry keeps twice
\* says the same twice, and nothing points to an asset, a member or a team that was
\* deleted; links of missions and teams are excepted once a message was refused after it
\* had replaced them (delete_team_from_args, delete_team_member_from_args, delete_asset,
\* set_assignment_asset_links, set_team_mission_links).
THEOREM RelationsStayInAgreement == Spec => []RelationsAgree
<1>1. RelationInv => RelationsAgree
  BY DEF RelationInv, RelationsKept, Agreeing, RelationsAgree
<1>2. QED
  BY <1>1, StartsRelated, NextKeepsRelations, PTL DEF Spec
===============================================================================

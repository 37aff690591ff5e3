--------------------------- MODULE MissionRegistry ---------------------------
(***************************************************************************)
(* The registry of missions, teams, members, assets, assignments, status   *)
(* snapshots (EAMs), map places and log entries, and how its commands      *)
(* change the store.  A worker reads the tables one SELECT after the       *)
(* other, applies the command to a core made of what it read, and saves    *)
(* the difference in one transaction; nothing keeps two workers apart.  A  *)
(* refused request is forgotten, a refused message is saved with whatever  *)
(* it had already changed in its core.                                     *)
(*                                                                         *)
(* A table is a function from keys to rows.  A new UUID is the number of   *)
(* the command that made it.  Zones and markers are handled alike: both    *)
(* are places.                                                             *)
(***************************************************************************)
EXTENDS Naturals, FiniteSets, Sequences, Functions

CONSTANTS
  Missions, Teams, Members, Identities, Clients, Assets, Skills, Assignments,
  Places, Entries, Snapshots, Callsigns,  \* keys that clients may name
  None,         \* no mission, team, owner, key
  Keep,         \* instead of an argument: the field stays as it is
  Default,      \* the mission of log entries without one
  Canonical,    \* the teams that come with a color
  HttpWorkers,  \* threads that run r3akt_command
  RadioWorkers, \* the worker that carries out commands that came as messages
  Traffics,     \* by name, what the store holds at first and which commands come
  MaxCommands   \* bound: commands

Workers == HttpWorkers \cup RadioWorkers
Numbers == 1 .. MaxCommands

AllRequests ==
       [op : {"mission.upsert", "mission.patch"}, mission : Missions,
        parent : Missions \cup {None, Keep}]
  \cup [op : {"parent.set"}, mission : Missions, parent : Missions \cup {None}]
  \cup [op : {"mission.delete", "rde.set"}, mission : Missions]
  \cup [op : {"place.create"}]
  \cup [op : {"place.patch", "place.delete"}, place : Places]
  \cup [op : {"place.link", "place.unlink"}, mission : Missions, place : Places]
  \cup [op : {"change.upsert"}, mission : Missions, markers : SUBSET Places]
  \cup [op : {"log.upsert"}, entry : Entries \cup {None}, mission : Missions \cup {None},
        content : BOOLEAN, markers : SUBSET Places]
  \cup [op : {"team.upsert"}, team : Teams, missions : (SUBSET Missions) \cup {Keep},
        valid : BOOLEAN]
  \cup [op : {"team.delete"}, team : Teams]
  \cup [op : {"team.link", "team.unlink"}, team : Teams, mission : Missions]
  \cup [op : {"member.upsert"}, member : Members, identity : Identities,
        team : Teams \cup {None, Keep}, valid : BOOLEAN]
  \cup [op : {"member.delete"}, member : Members]
  \cup [op : {"client.link", "client.unlink"}, member : Members, client : Clients]
  \cup [op : {"asset.upsert"}, asset : Assets, owner : Members \cup {None, Keep},
        valid : BOOLEAN]
  \cup [op : {"asset.delete"}, asset : Assets]
  \cup [op : {"skill.upsert"}, skill : Skills]
  \cup [op : {"member.skill"}, identity : Identities, skill : Skills, valid : BOOLEAN]
  \cup [op : {"assignment.upsert"}, assignment : Assignments, mission : Missions,
        identity : Identities, assets : (SUBSET Assets) \cup {Keep}, valid : BOOLEAN]
  \cup [op : {"assets.set"}, assignment : Assignments, assets : SUBSET Assets]
  \cup [op : {"asset.link", "asset.unlink"}, assignment : Assignments, asset : Assets]
  \cup [op : {"eam.upsert"}, eam : Snapshots \cup {None}, callsign : Callsigns,
        member : Members, team : Teams, source : Identities \cup {None}, ttl : BOOLEAN,
        valid : BOOLEAN]
  \cup [op : {"eam.delete"}, callsign : Callsigns]

\* The tables in the order in which load_r3akt_read_snapshot reads them.
Statements == <<"places", "missions", "changes", "logs", "eams", "teams", "teamLinks",
                "placeLinks", "members", "clientLinks", "assets", "skills", "memberSkills",
                "assignments", "assetLinks">>
Tables == {"places", "missions", "changes", "logs", "eams", "teams", "teamLinks",
           "placeLinks", "members", "clientLinks", "assets", "skills", "memberSkills",
           "assignments", "assetLinks"}
Empty  == [t \in Tables |-> << >>]
Nobody == [op |-> None]

Without(table, keys) == Restrict(table, DOMAIN table \ keys)
Written(table, rows) ==
  [k \in DOMAIN table \cup DOMAIN rows |-> IF k \in DOMAIN rows THEN rows[k] ELSE table[k]]
Put(table, key, row) == Written(table, [k \in {key} |-> row])
With(table, keys) == Written(table, [k \in keys |-> "present"])

\* Missions whose parents exist, and no mission among its own ancestors.
Tree(missions) ==
  /\ \A m \in DOMAIN missions : missions[m].parent \in DOMAIN missions \cup {None}
  /\ \A C \in SUBSET DOMAIN missions :
       C # {} => \E m \in C : missions[m].parent \notin C

\* Rows of the right form under keys of the right form.
IsTable(f, Keys, Values) ==
  f = [k \in DOMAIN f |-> f[k]] /\ DOMAIN f \subseteq Keys /\ Range(f) \subseteq Values

TablesOK(tables) ==
  /\ tables = [t \in Tables |-> tables[t]]
  /\ IsTable(tables.missions, Missions,
             [parent : Missions \cup {None}, deleted : BOOLEAN])
  /\ IsTable(tables.places, Places \cup Numbers, {"present"})
  /\ IsTable(tables.placeLinks, Missions \X Places, {"present"})
  /\ IsTable(tables.changes, Numbers, Missions)
  /\ IsTable(tables.logs, Entries \cup Numbers, Missions)
  /\ IsTable(tables.teams, Teams, [missions : SUBSET Missions, first : Missions \cup {None}])
  /\ IsTable(tables.teamLinks, Missions \X Teams, {"present"})
  /\ IsTable(tables.members, Members,
             [team : Teams \cup {None}, identity : Identities, clients : SUBSET Clients])
  /\ IsTable(tables.clientLinks, Members \X Clients, {"present"})
  /\ IsTable(tables.assets, Assets, Members \cup {None})
  /\ IsTable(tables.skills, Skills, {"present"})
  /\ IsTable(tables.memberSkills, Identities \X Skills, {"present"})
  /\ IsTable(tables.assignments, Assignments,
             [mission : Missions, identity : Identities, assets : SUBSET Assets])
  /\ IsTable(tables.assetLinks, Assignments \X Assets, {"present"})
  /\ IsTable(tables.eams, Snapshots \cup Numbers,
             [callsign : Callsigns, member : Members, team : Teams, ttl : BOOLEAN,
              active : BOOLEAN])

\* A callsign and a member have one snapshot at most that is not deleted.
OneReport(eams) ==
  \A e, f \in {s \in DOMAIN eams : eams[s].active} :
    eams[e].callsign = eams[f].callsign \/ eams[e].member = eams[f].member => e = f

ASSUME RegistryAssumption ==
  /\ MaxCommands \in Nat
  /\ HttpWorkers \cap RadioWorkers = {}
  /\ Default \in Missions /\ None \notin Missions /\ Keep \notin Missions
  /\ None \notin Snapshots \cup Numbers
  /\ \A t \in DOMAIN Traffics :
       /\ Traffics[t].requests \subseteq AllRequests
       /\ TablesOK(Traffics[t].start)
       /\ Tree(Traffics[t].start.missions) /\ OneReport(Traffics[t].start.eams)

VARIABLES
  traffic,    \* which of the traffics comes
  store,      \* SQLite: the contents of every table
  commands,   \* how many commands have come
  phase,      \* per worker: "idle", "reading", "loaded" or "applied"
  command,    \* per worker: the request
  number,     \* per worker: its number, from which new keys are made
  read,       \* per worker: how many tables it has read
  before,     \* per worker: the snapshot
  core,       \* per worker: the snapshot with the command applied
  ok,         \* per worker: whether the command was accepted
  behind,     \* history: somebody else saved since the worker began to read
  overlapped, \* history: a worker has saved although it was behind
  spilled     \* history: what a refused message had changed was saved

local == <<phase, command, number, read, before, core, ok>>
vars  == <<traffic, store, commands, local, behind, overlapped, spilled>>

Init ==
  /\ traffic \in DOMAIN Traffics
  /\ store = Traffics[traffic].start
  /\ commands = 0
  /\ phase = [w \in Workers |-> "idle"]
  /\ command = [w \in Workers |-> Nobody]
  /\ number = [w \in Workers |-> 0]
  /\ read = [w \in Workers |-> 0]
  /\ before = [w \in Workers |-> Empty]
  /\ core = [w \in Workers |-> Empty]
  /\ ok = [w \in Workers |-> FALSE]
  /\ behind = [w \in Workers |-> FALSE]
  /\ overlapped = FALSE /\ spilled = FALSE

--------------------------------------------------------------------------
(* A command comes and its worker reads the store.                         *)

Begin(w, c) ==
  /\ phase[w] = "idle" /\ commands < MaxCommands
  /\ commands' = commands + 1
  /\ phase' = [phase EXCEPT ![w] = "reading"]
  /\ command' = [command EXCEPT ![w] = c]
  /\ number' = [number EXCEPT ![w] = commands + 1]
  /\ UNCHANGED <<traffic, store, read, before, core, ok, behind, overlapped, spilled>>

\* The worker reads on, up to the table n.  Only a save can make a difference
\* between two of its statements: it stops between them only where one is due.
Read(w, n) ==
  /\ phase[w] = "reading" /\ read[w] < n
  /\ n = Len(Statements) \/ \E v \in Workers \ {w} : phase[v] = "applied"
  /\ before' = [before EXCEPT ![w] =
                  [t \in Tables |-> IF t \in {Statements[i] : i \in (read[w] + 1) .. n}
                                    THEN store[t] ELSE @[t]]]
  /\ read' = [read EXCEPT ![w] = n]
  /\ IF n = Len(Statements)
     THEN /\ phase' = [phase EXCEPT ![w] = "loaded"]
          /\ core' = [core EXCEPT ![w] = before'[w]]
     ELSE UNCHANGED <<phase, core>>
  /\ UNCHANGED <<traffic, store, commands, command, number, ok, behind, overlapped,
                 spilled>>

Loaded(w, op) == phase[w] = "loaded" /\ command[w].op = op

Applied(w, accepted, tables) ==
  /\ phase' = [phase EXCEPT ![w] = "applied"]
  /\ core' = [core EXCEPT ![w] = tables]
  /\ ok' = [ok EXCEPT ![w] = accepted]
  /\ UNCHANGED <<traffic, store, commands, command, number, read, before, behind,
                 overlapped, spilled>>
Accept(w, tables) == Applied(w, TRUE, tables)
Reject(w, tables) == Applied(w, FALSE, tables)

--------------------------------------------------------------------------
(* Missions.                                                               *)

\* A mission, its parent, the parent of its parent, as far as the chain goes.
Chain(missions, m) ==
  LET known     == DOMAIN missions \cup {m}
      closed(S) == m \in S /\ \A x \in S \cap DOMAIN missions :
                                missions[x].parent \in S \cup {None}
  IN {x \in known : \A S \in SUBSET known : closed(S) => x \in S}

\* ensure_parent_chain_acyclic: the chain ends, every mission in it exists, and m
\* is none of them.
ParentAllowed(missions, m, parent) ==
  \/ parent = None
  \/ LET chain == Chain(missions, parent) IN
     /\ m \notin chain /\ chain \subseteq DOMAIN missions
     /\ \E x \in chain : missions[x].parent = None

Fresh == [parent |-> None, deleted |-> FALSE]

MissionUpsert(w) ==
  LET c       == command[w]
      held    == core[w].missions
      mission == IF c.mission \in DOMAIN held THEN held[c.mission] ELSE Fresh
      parent  == IF c.parent = Keep THEN mission.parent ELSE c.parent
  IN /\ \E op \in {"mission.upsert", "mission.patch", "parent.set"} : Loaded(w, op)
     /\ IF /\ c.mission \in DOMAIN held \/ c.op = "mission.upsert"
           /\ ParentAllowed(held, c.mission, parent)
        THEN Accept(w, [core[w] EXCEPT
                          !.missions = Put(@, c.mission, [mission EXCEPT !.parent = parent])])
        ELSE Reject(w, core[w])

\* A mission is marked, never removed.
MissionDelete(w) ==
  LET m == command[w].mission IN
  /\ Loaded(w, "mission.delete")
  /\ IF m \in DOMAIN core[w].missions
     THEN Accept(w, [core[w] EXCEPT !.missions[m].deleted = TRUE])
     ELSE Reject(w, core[w])

\* What changes nothing but contents.
Touch(w) ==
  /\ Loaded(w, "rde.set") \/ Loaded(w, "place.patch")
  /\ IF IF command[w].op = "rde.set" THEN command[w].mission \in DOMAIN core[w].missions
                                     ELSE command[w].place \in DOMAIN core[w].places
     THEN Accept(w, core[w])
     ELSE Reject(w, core[w])

--------------------------------------------------------------------------
(* Places, changes and log entries.                                        *)

PlaceCreate(w) ==
  /\ Loaded(w, "place.create")
  /\ Accept(w, [core[w] EXCEPT !.places = With(@, {number[w]})])

\* Links to the place stay.
PlaceDelete(w) ==
  LET p == command[w].place IN
  /\ Loaded(w, "place.delete")
  /\ IF p \in DOMAIN core[w].places
     THEN Accept(w, [core[w] EXCEPT !.places = Without(@, {p})])
     ELSE Reject(w, core[w])

PlaceLink(w) ==
  LET c == command[w] IN
  /\ Loaded(w, "place.link")
  /\ IF c.mission \in DOMAIN core[w].missions /\ c.place \in DOMAIN core[w].places
     THEN Accept(w, [core[w] EXCEPT !.placeLinks = With(@, {<<c.mission, c.place>>})])
     ELSE Reject(w, core[w])

PlaceUnlink(w) ==
  LET c == command[w] IN
  /\ Loaded(w, "place.unlink")
  /\ IF c.mission \in DOMAIN core[w].missions
     THEN Accept(w, [core[w] EXCEPT !.placeLinks = Without(@, {<<c.mission, c.place>>})])
     ELSE Reject(w, core[w])

ChangeUpsert(w) ==
  LET c == command[w] IN
  /\ Loaded(w, "change.upsert")
  /\ IF c.mission \in DOMAIN core[w].missions /\ c.markers \subseteq DOMAIN core[w].places
     THEN Accept(w, [core[w] EXCEPT !.changes = Put(@, number[w], c.mission)])
     ELSE Reject(w, core[w])

\* Mutant of LogUpsert: the entry keeps the mission it was sent with.
LogUpsertAsSent(w) ==
  LET c   == command[w]
      key == IF c.entry = None THEN number[w] ELSE c.entry
  IN /\ Loaded(w, "log.upsert")
     /\ Accept(w, [core[w] EXCEPT !.logs    = Put(@, key, c.mission),
                                  !.changes = Put(@, number[w], c.mission)])

\* A log entry without a mission goes to the default mission, which is made first.
LogUpsert(w) ==
  LET c       == command[w]
      mission == IF c.mission = None THEN Default ELSE c.mission
      key     == IF c.entry = None THEN number[w] ELSE c.entry
      housed  == IF c.mission = None /\ Default \notin DOMAIN core[w].missions
                 THEN [core[w] EXCEPT !.missions = Put(@, Default, Fresh)]
                 ELSE core[w]
  IN /\ Loaded(w, "log.upsert")
     /\ IF /\ mission \in DOMAIN housed.missions
           /\ c.content \/ key \in DOMAIN housed.logs
           /\ c.markers \subseteq DOMAIN housed.places
        THEN Accept(w, [housed EXCEPT !.logs    = Put(@, key, mission),
                                      !.changes = Put(@, number[w], mission)])
        ELSE Reject(w, housed)

--------------------------------------------------------------------------
(* Teams and members.                                                      *)

MissionsOf(tables, t) == {m \in Missions : <<m, t>> \in DOMAIN tables.teamLinks}

\* set_team_mission_links: the links of a team are replaced.
Relinked(tables, t, missions) ==
  LET others == {k \in DOMAIN tables.teamLinks : k[2] # t} IN
  [tables EXCEPT !.teamLinks = With(Restrict(@, others), missions \X {t})]

\* Some mission of the list comes first in it; which one is the order of a hash set.
Firsts(missions) == IF missions = {} THEN {None} ELSE missions

NewTeam == [missions |-> {}, first |-> None]


\* The links are replaced before the color is looked at.
TeamUpsert(w) ==
  LET c        == command[w]
      k        == core[w]
      team     == IF c.team \in DOMAIN k.teams THEN k.teams[c.team] ELSE NewTeam
      relinked == IF c.missions = Keep THEN k ELSE Relinked(k, c.team, c.missions)
  IN /\ Loaded(w, "team.upsert")
     /\ CASE c.missions # Keep /\ ~(c.missions \subseteq DOMAIN k.missions) ->
               Reject(w, k)
          [] ~c.valid -> Reject(w, relinked)
          [] c.missions = Keep /\ c.valid ->
               Accept(w, [k EXCEPT !.teams = Put(@, c.team, team)])
          [] OTHER ->
               \E first \in Firsts(c.missions) :
                 Accept(w, [relinked EXCEPT
                   !.teams = Put(@, c.team, [missions |-> c.missions, first |-> first])])

\* The members of the team are left without one, its links go with it.
TeamDelete(w) ==
  LET t == command[w].team  k == core[w] IN
  /\ Loaded(w, "team.delete")
  /\ IF t \in DOMAIN k.teams
     THEN Accept(w, [k EXCEPT
            !.teams     = Without(@, {t}),
            !.members   = [u \in DOMAIN @ |-> IF @[u].team = t THEN [@[u] EXCEPT !.team = None]
                                                              ELSE @[u]],
            !.teamLinks = Restrict(@, {l \in DOMAIN @ : l[2] # t})])
     ELSE Reject(w, k)

\* link_team_mission and unlink_team_mission.  The links are replaced before the
\* team is looked for; its first mission counts as linked.
TeamMission(w) ==
  LET c        == command[w]
      k        == core[w]
      linked   == MissionsOf(k, c.team)
      first    == IF c.team \in DOMAIN k.teams THEN k.teams[c.team].first ELSE None
      held     == linked \cup ({first} \ {None})
      missions == IF c.op = "team.link" THEN held \cup {c.mission} ELSE held \ {c.mission}
      ahead    == IF linked \cap missions # {} THEN linked \cap missions
                  ELSE IF held \cap missions # {} THEN held \cap missions ELSE missions
      relinked == Relinked(k, c.team, missions)
  IN /\ Loaded(w, "team.link") \/ Loaded(w, "team.unlink")
     /\ IF c.op = "team.link" /\ c.mission \notin DOMAIN k.missions THEN Reject(w, k)
        ELSE IF c.team \notin DOMAIN k.teams THEN Reject(w, relinked)
        ELSE \E f \in Firsts(ahead) :
               Accept(w, [relinked EXCEPT
                 !.teams[c.team] = [missions |-> missions, first |-> f]])

ClientsOf(tables, u) == {x \in Clients : <<u, x>> \in DOMAIN tables.clientLinks}

MemberUpsert(w) ==
  LET c    == command[w]
      k    == core[w]
      held == IF c.member \in DOMAIN k.members THEN k.members[c.member].team ELSE None
      team == IF c.team = Keep THEN held ELSE c.team
  IN /\ Loaded(w, "member.upsert")
     /\ IF c.valid /\ c.team \in DOMAIN k.teams \cup {None, Keep}
        THEN Accept(w, [k EXCEPT !.members = Put(@, c.member,
               [team |-> team, identity |-> c.identity, clients |-> ClientsOf(k, c.member)])])
        ELSE Reject(w, k)

\* Mutant of MemberDelete: what the member owned keeps its owner.
MemberDeleteAlone(w) ==
  LET u == command[w].member  k == core[w] IN
  /\ Loaded(w, "member.delete")
  /\ IF u \in DOMAIN k.members
     THEN Accept(w, [k EXCEPT
            !.members     = Without(@, {u}),
            !.clientLinks = Restrict(@, {l \in DOMAIN @ : l[1] # u})])
     ELSE Reject(w, k)

\* The skills go with the identity, be it that of another member, too.
MemberDelete(w) ==
  LET u == command[w].member  k == core[w] IN
  /\ Loaded(w, "member.delete")
  /\ IF u \in DOMAIN k.members
     THEN Accept(w, [k EXCEPT
            !.members      = Without(@, {u}),
            !.assets       = [a \in DOMAIN @ |-> IF @[a] = u THEN None ELSE @[a]],
            !.clientLinks  = Restrict(@, {l \in DOMAIN @ : l[1] # u}),
            !.memberSkills = Restrict(@, {s \in DOMAIN @ : s[1] # k.members[u].identity})])
     ELSE Reject(w, k)

Refreshed(tables, u) == [tables EXCEPT !.members[u].clients = ClientsOf(tables, u)]

ClientLink(w) ==
  LET c == command[w]  k == core[w] IN
  /\ Loaded(w, "client.link")
  /\ IF c.member \in DOMAIN k.members
     THEN Accept(w, Refreshed([k EXCEPT !.clientLinks = With(@, {<<c.member, c.client>>})],
                              c.member))
     ELSE Reject(w, k)

\* The link goes before the member is looked for.
ClientUnlink(w) ==
  LET c        == command[w]
      unlinked == [core[w] EXCEPT !.clientLinks = Without(@, {<<c.member, c.client>>})]
  IN /\ Loaded(w, "client.unlink")
     /\ IF c.member \in DOMAIN unlinked.members THEN Accept(w, Refreshed(unlinked, c.member))
                                               ELSE Reject(w, unlinked)

--------------------------------------------------------------------------
(* Assets, skills and assignments.                                         *)

AssetUpsert(w) ==
  LET c     == command[w]
      k     == core[w]
      held  == IF c.asset \in DOMAIN k.assets THEN k.assets[c.asset] ELSE None
      owner == IF c.owner = Keep THEN held ELSE c.owner
  IN /\ Loaded(w, "asset.upsert")
     /\ IF c.valid /\ c.owner \in DOMAIN k.members \cup {None, Keep}
        THEN Accept(w, [k EXCEPT !.assets = Put(@, c.asset, owner)])
        ELSE Reject(w, k)

\* An asset is taken out of every assignment.
AssetDelete(w) ==
  LET a == command[w].asset  k == core[w] IN
  /\ Loaded(w, "asset.delete")
  /\ IF a \in DOMAIN k.assets
     THEN Accept(w, [k EXCEPT
            !.assets      = Without(@, {a}),
            !.assetLinks  = Restrict(@, {l \in DOMAIN @ : l[2] # a}),
            !.assignments = [x \in DOMAIN @ |->
                              [@[x] EXCEPT !.assets = k.assignments[x].assets \ {a}]]])
     ELSE Reject(w, k)

SkillUpsert(w) ==
  /\ Loaded(w, "skill.upsert")
  /\ Accept(w, [core[w] EXCEPT !.skills = With(@, {command[w].skill})])

HasMember(tables, i) == \E u \in DOMAIN tables.members : tables.members[u].identity = i

MemberSkill(w) ==
  LET c == command[w]  k == core[w] IN
  /\ Loaded(w, "member.skill")
  /\ IF c.valid /\ HasMember(k, c.identity) /\ c.skill \in DOMAIN k.skills
     THEN Accept(w, [k EXCEPT !.memberSkills = With(@, {<<c.identity, c.skill>>})])
     ELSE Reject(w, k)

\* The assets of an assignment, in its row and in the links.
Equipped(tables, x, assets) ==
  LET others == {l \in DOMAIN tables.assetLinks : l[1] # x} IN
  [tables EXCEPT !.assignments[x].assets = assets,
                 !.assetLinks = With(Restrict(@, others), {x} \X assets)]

\* valid: the task exists, time and status can be read.
AssignmentUpsert(w) ==
  LET c      == command[w]
      k      == core[w]
      held   == IF c.assignment \in DOMAIN k.assignments
                THEN k.assignments[c.assignment].assets ELSE {}
      assets == IF c.assets = Keep THEN held ELSE c.assets
      row    == [mission |-> c.mission, identity |-> c.identity, assets |-> assets]
  IN /\ Loaded(w, "assignment.upsert")
     /\ IF /\ c.valid /\ c.mission \in DOMAIN k.missions /\ HasMember(k, c.identity)
           /\ c.assets = Keep \/ assets \subseteq DOMAIN k.assets
        THEN Accept(w, Equipped([k EXCEPT !.assignments = Put(@, c.assignment, row)],
                                c.assignment, assets))
        ELSE Reject(w, k)

\* assignment.asset.set, .link and .unlink.
AssignmentAssets(w) ==
  LET c    == command[w]
      k    == core[w]
      held == IF c.assignment \in DOMAIN k.assignments
              THEN k.assignments[c.assignment].assets ELSE {}
      named  == CASE c.op = "assets.set"   -> c.assets
                  [] c.op = "asset.link"   -> {c.asset}
                  [] c.op = "asset.unlink" -> {}
      assets == CASE c.op = "assets.set"   -> c.assets
                  [] c.op = "asset.link"   -> held \cup {c.asset}
                  [] c.op = "asset.unlink" -> held \ {c.asset}
  IN /\ \E op \in {"assets.set", "asset.link", "asset.unlink"} : Loaded(w, op)
     /\ IF c.assignment \in DOMAIN k.assignments /\ named \subseteq DOMAIN k.assets
        THEN Accept(w, Equipped(k, c.assignment, assets))
        ELSE Reject(w, k)

--------------------------------------------------------------------------
(* Status snapshots.                                                       *)

Active(tables, field, value) ==
  {e \in DOMAIN tables.eams : tables.eams[e].active /\ tables.eams[e][field] = value}
AnyOf(S) == IF S = {} THEN {None} ELSE S

\* ensure_eam_team_and_member: what is missing is made, team first.
Provisioned(k, c) ==
  LET team == IF c.team \in Canonical \ DOMAIN k.teams
              THEN [k EXCEPT !.teams = Put(@, c.team, NewTeam)] ELSE k
  IN CASE c.team \notin DOMAIN team.teams -> [ok |-> FALSE, tables |-> k]
       [] c.team \in DOMAIN team.teams /\ c.member \in DOMAIN k.members ->
            [ok |-> k.members[c.member].team = c.team, tables |-> team]
       [] OTHER ->
            [ok |-> c.source # None,
             tables |-> IF c.source = None THEN team
                        ELSE [team EXCEPT !.members = Put(@, c.member,
                          [team |-> c.team, identity |-> c.source, clients |-> {}])]]

\* Mutant of SnapshotAllowed: a callsign may be that of anybody.
SnapshotAllowedTwice(c, mine, theirs, gone) ==
  /\ Cardinality(gone) <= 1
  /\ mine # None /\ c.eam # None => c.eam = mine
  /\ c.valid

\* The callsign is that of nobody else, what was deleted is one snapshot, a uid
\* that is given is that of the member's snapshot, and the contents can be read.
SnapshotAllowed(c, mine, theirs, gone) ==
  /\ theirs # None => theirs = mine
  /\ Cardinality(gone) <= 1
  /\ mine # None /\ c.eam # None => c.eam = mine
  /\ c.valid

EamUpsert(w) ==
  LET c    == command[w]
      made == Provisioned(core[w], c)
      eams == made.tables.eams
      gone == {e \in DOMAIN eams : /\ ~eams[e].active
                                   /\ eams[e].member = c.member \/ eams[e].callsign = c.callsign}
  IN /\ Loaded(w, "eam.upsert")
     /\ \/ ~made.ok /\ Reject(w, made.tables)
        \/ /\ made.ok
           /\ \E mine \in AnyOf(Active(made.tables, "member", c.member)),
                 theirs \in AnyOf(Active(made.tables, "callsign", c.callsign)) :
                IF SnapshotAllowed(c, mine, theirs, gone)
                THEN LET key == CASE c.eam # None -> c.eam
                                  [] c.eam = None /\ mine # None -> mine
                                  [] c.eam = None /\ mine = None /\ gone # {} ->
                                       CHOOSE e \in gone : TRUE
                                  [] OTHER -> number[w]
                     IN Accept(w, [made.tables EXCEPT !.eams = Put(@, key,
                          [callsign |-> c.callsign, member |-> c.member, team |-> c.team,
                           ttl |-> c.ttl, active |-> TRUE])])
                ELSE Reject(w, made.tables)

\* delete_eam_by_callsign; a snapshot whose time to live has passed is not found.
EamDelete(w) ==
  LET k == core[w] IN
  /\ Loaded(w, "eam.delete")
  /\ \E e \in AnyOf(Active(k, "callsign", command[w].callsign)) :
       \/ e # None /\ Accept(w, [k EXCEPT !.eams[e].active = FALSE])
       \/ (e # None => k.eams[e].ttl) /\ Reject(w, k)

--------------------------------------------------------------------------

Apply(w) ==
  \/ MissionUpsert(w) \/ MissionDelete(w) \/ Touch(w)
  \/ PlaceCreate(w) \/ PlaceDelete(w) \/ PlaceLink(w) \/ PlaceUnlink(w)
  \/ ChangeUpsert(w) \/ LogUpsert(w)
  \/ TeamUpsert(w) \/ TeamDelete(w) \/ TeamMission(w)
  \/ MemberUpsert(w) \/ MemberDelete(w) \/ ClientLink(w) \/ ClientUnlink(w)
  \/ AssetUpsert(w) \/ AssetDelete(w) \/ SkillUpsert(w) \/ MemberSkill(w)
  \/ AssignmentUpsert(w) \/ AssignmentAssets(w)
  \/ EamUpsert(w) \/ EamDelete(w)

\* Mutant of Delta: the table is replaced by what the worker has of it.
DeltaReplaces(stored, old, new) == new

\* Mutant of Delta: only the rows that the command changed are written.
DeltaOfChanges(stored, old, new) ==
  Written(Without(stored, DOMAIN old \ DOMAIN new),
          Restrict(new, {k \in DOMAIN new : k \notin DOMAIN old \/ new[k] # old[k]}))

\* save_payload_delta: rows that are gone are deleted, all others are written.
Delta(stored, old, new) == Written(Without(stored, DOMAIN old \ DOMAIN new), new)

Idle(w) ==
  /\ phase' = [phase EXCEPT ![w] = "idle"]
  /\ command' = [command EXCEPT ![w] = Nobody]
  /\ number' = [number EXCEPT ![w] = 0]
  /\ read' = [read EXCEPT ![w] = 0]
  /\ before' = [before EXCEPT ![w] = Empty]
  /\ core' = [core EXCEPT ![w] = Empty]
  /\ ok' = [ok EXCEPT ![w] = FALSE]

\* A request is saved when it was accepted, a message in any case.
Save(w) ==
  /\ phase[w] = "applied" /\ (ok[w] \/ w \in RadioWorkers)
  /\ store' = [t \in Tables |-> Delta(store[t], before[w][t], core[w][t])]
  /\ overlapped' = (overlapped \/ behind[w])
  /\ spilled' = (spilled \/ ~ok[w])
  /\ behind' = [v \in Workers |-> v # w /\ (behind[v] \/ read[v] > 0)]
  /\ Idle(w)
  /\ UNCHANGED <<traffic, commands>>

\* A refused request is answered and forgotten; a worker whose store fails, or
\* whose process dies, loses its command.
Lose(w) ==
  /\ phase[w] # "idle"
  /\ Idle(w)
  /\ behind' = [behind EXCEPT ![w] = FALSE]
  /\ UNCHANGED <<traffic, store, commands, overlapped, spilled>>

Next ==
  \E w \in Workers :
    \/ \E c \in Traffics[traffic].requests : Begin(w, c)
    \/ \E n \in DOMAIN Statements : Read(w, n)
    \/ Apply(w) \/ Save(w) \/ Lose(w)

Spec == Init /\ [][Next]_vars

--------------------------------------------------------------------------
(* Properties.                                                             *)

\* Type invariant: every table holds rows of the right form under keys of the
\* right form (save_registry_delta_tables).
TypeOK ==
  /\ traffic \in DOMAIN Traffics /\ TablesOK(store) /\ commands \in 0 .. MaxCommands
  /\ phase \in [Workers -> {"idle", "reading", "loaded", "applied"}]
  /\ command \in [Workers -> Traffics[traffic].requests \cup {Nobody}]
  /\ number \in [Workers -> 0 .. MaxCommands]
  /\ read \in [Workers -> 0 .. Len(Statements)]
  /\ \A w \in Workers : TablesOK(before[w]) /\ TablesOK(core[w])
  /\ ok \in [Workers -> BOOLEAN] /\ behind \in [Workers -> BOOLEAN]
  /\ overlapped \in BOOLEAN /\ spilled \in BOOLEAN

\* However saves overlap, the missions form a tree: no mission is its own ancestor,
\* though each worker looks for a cycle in what it has read only
\* (ensure_parent_chain_acyclic, save_payload_delta).
MissionsFormATree == Tree(store.missions)

\* Assignments and the links to their assets say the same, about assets that exist.
AssetsAgree(tables) ==
  \A x \in DOMAIN tables.assignments :
    /\ tables.assignments[x].assets \subseteq DOMAIN tables.assets
    /\ tables.assignments[x].assets = {a \in Assets : <<x, a>> \in DOMAIN tables.assetLinks}

\* Owners and teams of members exist; members and the links to their clients say the same.
MembersAgree(tables) ==
  /\ \A a \in DOMAIN tables.assets : tables.assets[a] \in DOMAIN tables.members \cup {None}
  /\ \A u \in DOMAIN tables.members :
       /\ tables.members[u].team \in DOMAIN tables.teams \cup {None}
       /\ tables.members[u].clients = ClientsOf(tables, u)
  /\ \A l \in DOMAIN tables.clientLinks : l[1] \in DOMAIN tables.members

\* Teams and the links to their missions say the same.
TeamsAgree(tables) ==
  /\ \A t \in DOMAIN tables.teams :
       /\ tables.teams[t].missions = MissionsOf(tables, t)
       /\ tables.teams[t].first \in Firsts(tables.teams[t].missions)
  /\ \A l \in DOMAIN tables.teamLinks : l[2] \in DOMAIN tables.teams

ASSUME StartsAgree ==
  \A t \in DOMAIN Traffics :
    LET start == Traffics[t].start
    IN  AssetsAgree(start) /\ MembersAgree(start) /\ TeamsAgree(start)

\* As long as no save overlaps another, a relation that is kept twice says the same
\* twice, and nothing points to what was deleted: assets of assignments, owners of
\* assets, clients and teams of members, and missions of teams - these unless a
\* message was refused after it had replaced the links (delete_team_from_args,
\* delete_team_member_from_args, delete_asset, set_assignment_asset_links,
\* set_team_mission_links).
RelationsAgree ==
  ~overlapped => /\ AssetsAgree(store) /\ MembersAgree(store)
                 /\ spilled \/ TeamsAgree(store)

\* As long as no save overlaps another, a callsign and a member have one status
\* snapshot at most that is not deleted (upsert_eam_from_args).
OneActiveSnapshot == ~overlapped => OneReport(store.eams)

\* The commands that may take rows out of a table; those about the assets of an
\* assignment replace all its links.
Removers ==
  [t \in Tables |->
    CASE t = "places"       -> {"place.delete"}
      [] t = "placeLinks"   -> {"place.unlink"}
      [] t = "teams"        -> {"team.delete"}
      [] t = "teamLinks"    -> {"team.delete", "team.upsert", "team.unlink"}
      [] t = "members"      -> {"member.delete"}
      [] t = "clientLinks"  -> {"member.delete", "client.unlink"}
      [] t = "memberSkills" -> {"member.delete"}
      [] t = "assets"       -> {"asset.delete"}
      [] t = "assetLinks"   -> {"asset.delete", "assets.set", "asset.link",
                                "asset.unlink", "assignment.upsert"}
      [] OTHER              -> {}]

\* However saves overlap, a row leaves the store only when a command saves that was
\* to remove rows of its table: what another worker has added meanwhile is not swept
\* away (save_payload_delta).
RemovedByItsCommandOnly ==
  [][\A t \in Tables :
       DOMAIN store[t] \subseteq DOMAIN store'[t]
       \/ \E w \in Workers : phase[w] = "applied" /\ command[w].op \in Removers[t]]_vars

===============================================================================

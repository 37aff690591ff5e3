-------------------------- MODULE MCMissionRegistry --------------------------
(* An instance of MissionRegistry for TLC: what the store holds at first and *)
(* which commands come, for each part of the registry.                      *)
EXTENDS MissionRegistry, TLC

CONSTANTS m1, m2, m3, t1, t2, u1, u2, i1, a1, a2, x1, p1, c1, c2, e1, e2, k1, s1

Mission == [parent |-> None, deleted |-> FALSE]
Member(team, clients) == [team |-> team, identity |-> i1, clients |-> clients]
Present(keys) == [k \in keys |-> "present"]

ParentSet(m, p) == [op |-> "parent.set", mission |-> m, parent |-> p]

\* Three missions that become each other's parents; a fourth for log entries.
Trees ==
  [start |-> [Empty EXCEPT !.missions = [m \in {m1, m2, m3} |-> Mission]],
   requests |->
     {ParentSet(m1, m2), ParentSet(m2, m3), ParentSet(m3, m1), ParentSet(m2, None),
      [op |-> "mission.patch", mission |-> m3, parent |-> Keep],
      [op |-> "log.upsert", entry |-> None, mission |-> None, content |-> FALSE,
       markers |-> {}]}]

\* Log entries and changes of missions.
Logs ==
  [start |-> [Empty EXCEPT !.missions = m1 :> Mission, !.places = Present({p1})],
   requests |->
     {[op |-> "mission.upsert", mission |-> m2, parent |-> m1],
      [op |-> "mission.delete", mission |-> m1],
      [op |-> "change.upsert", mission |-> m1, markers |-> {p1}],
      [op |-> "log.upsert", entry |-> e1, mission |-> m1, content |-> TRUE,
       markers |-> {p1}],
      [op |-> "place.delete", place |-> p1]}]

\* Places and their links to a mission.
PlacesAndLinks ==
  [start |-> [Empty EXCEPT !.missions = m1 :> Mission, !.places = Present({p1})],
   requests |->
     {[op |-> "rde.set", mission |-> m2], [op |-> "place.create"],
      [op |-> "place.patch", place |-> p1], [op |-> "place.delete", place |-> p1],
      [op |-> "place.link", mission |-> m1, place |-> p1],
      [op |-> "place.unlink", mission |-> m1, place |-> p1]}]

Team == [Empty EXCEPT
  !.missions = [m \in {m1, m2} |-> Mission],
  !.teams = t1 :> [missions |-> {m1}, first |-> m1], !.teamLinks = Present({<<m1, t1>>}),
  !.members = u1 :> Member(t1, {})]

\* A team and its missions; the message for a second team is refused.
TeamMissions ==
  [start |-> Team,
   requests |->
     {[op |-> "team.upsert", team |-> t1, missions |-> {m2}, valid |-> TRUE],
      [op |-> "team.upsert", team |-> t2, missions |-> {m1}, valid |-> FALSE],
      [op |-> "team.delete", team |-> t1],
      [op |-> "team.link", team |-> t1, mission |-> m2],
      [op |-> "team.unlink", team |-> t1, mission |-> m1]}]

\* A team, its member and the clients of the member.
TeamMembers ==
  [start |-> Team,
   requests |->
     {[op |-> "team.upsert", team |-> t1, missions |-> Keep, valid |-> TRUE],
      [op |-> "team.delete", team |-> t1],
      [op |-> "member.upsert", member |-> u1, identity |-> i1, team |-> t1, valid |-> TRUE],
      [op |-> "client.link", member |-> u1, client |-> k1],
      [op |-> "client.unlink", member |-> u1, client |-> k1]}]

Equipped1 == [Empty EXCEPT
  !.missions = m1 :> Mission,
  !.members = u1 :> Member(None, {k1}), !.clientLinks = Present({<<u1, k1>>}),
  !.assets = a1 :> u1 @@ a2 :> None,
  !.assignments = x1 :> [mission |-> m1, identity |-> i1, assets |-> {a1}],
  !.assetLinks = Present({<<x1, a1>>}), !.skills = Present({s1})]

\* A member, what it owns and what it knows.
Owners ==
  [start |-> Equipped1,
   requests |->
     {[op |-> "member.delete", member |-> u1],
      [op |-> "asset.upsert", asset |-> a2, owner |-> u1, valid |-> TRUE],
      [op |-> "skill.upsert", skill |-> s1],
      [op |-> "member.skill", identity |-> i1, skill |-> s1, valid |-> TRUE]}]

\* An assignment and its assets.
Equipment ==
  [start |-> Equipped1,
   requests |->
     {[op |-> "asset.delete", asset |-> a1],
      [op |-> "assignment.upsert", assignment |-> x1, mission |-> m1, identity |-> i1,
       assets |-> Keep, valid |-> TRUE],
      [op |-> "assets.set", assignment |-> x1, assets |-> {}],
      [op |-> "asset.link", assignment |-> x1, asset |-> a2],
      [op |-> "asset.unlink", assignment |-> x1, asset |-> a1]}]

Snapshot(e, c, u, source) ==
  [op |-> "eam.upsert", eam |-> e, callsign |-> c, member |-> u, team |-> t1,
   source |-> source, ttl |-> FALSE, valid |-> TRUE]

\* Two members who report under two callsigns; the team comes with a color.
Reports ==
  [start |-> Empty,
   requests |->
     {Snapshot(None, c1, u1, i1), Snapshot(None, c1, u2, i1), Snapshot(e1, c2, u1, i1),
      [Snapshot(e2, c1, u2, None) EXCEPT !.ttl = TRUE],
      [op |-> "eam.delete", callsign |-> c1]}]

AllTraffics ==
  [trees |-> Trees, logs |-> Logs, places |-> PlacesAndLinks, missions |-> TeamMissions,
   members |-> TeamMembers, owners |-> Owners, equipment |-> Equipment,
   reports |-> Reports]
===============================================================================

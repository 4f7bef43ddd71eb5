---------------------------- MODULE Pathfinding ----------------------------
(***************************************************************************)
(* The graph of points that armies and navies travel (pathfinding/         *)
(* PointMap.cpp) and the searches over it (PathingBase.hpp,                *)
(* AStarPathing.cpp, FringePathing.cpp).                                   *)
(*                                                                         *)
(* Points live in one vector; removing one moves the last into its place.  *)
(* A search keeps an entry per point it has met, with a pointer to the     *)
(* point, and refers to entries by iterators of a vector of its own.       *)
(* A pointer that no longer points to its point, or an iterator into a     *)
(* vector that has grown, leaves the search undefined.  Heaps are sets     *)
(* from which any of the best may come first.                              *)
(***************************************************************************)
EXTENDS Integers, FiniteSets, SequencesExt

CONSTANTS
  Id,
  Distance,     \* what _estimate_cost gives for two points
  Weights,      \* the weight scales a point may have
  Togglable,    \* the points that may be disabled
  Searcher,     \* "astar" and "fringe", the searches that are registered
  FixedMax,     \* fixed_point_t::max
  NoPoint,
  MaxCalls      \* bound on the calls of one behaviour

ASSUME PathAssumption ==
  /\ NoPoint \notin Id
  /\ \A a, b, c \in Id : Distance[a][b] >= 0 /\ Distance[a][a] = 0 /\ Distance[a][c] <= Distance[a][b] + Distance[b][c]

VARIABLES
  points,     \* the vector: sequence of [id, weight, enabled, neighbors, unlinked]
  capacity,   \* of that vector
  segments,   \* the directions of all segments: pairs <<from, to>>
  search,     \* for every searcher: [entries: id -> address, room, abs: id -> abs_f_score]
  solve,      \* the search under way, or the last one that ended
  calls       \* how many calls have been made

pathVars == <<points, capacity, segments, search, solve, calls>>

Ids == {points[i].id : i \in DOMAIN points}
AddressOf(id) == CHOOSE i \in DOMAIN points : points[i].id = id
PointOf(id) == points[AddressOf(id)]
Nothing == [pc |-> "none"]

(* The map is changed, and searches begin, between searches. *)
Calls == solve.pc \in {"none", "done"} /\ calls < MaxCalls /\ calls' = calls + 1
Changes == Calls /\ solve' = Nothing

-----------------------------------------------------------------------------
(* point_invalidated and points_pointers_invalidated, as the searches hear *)
(* them.                                                                   *)
NewSearch(room) == [entries |-> [id \in {} |-> 0], room |-> room, abs |-> [id \in Id |-> 0]]
ForgetPoint(id) ==
  search' = [s \in Searcher |-> [search[s] EXCEPT !.entries = [i \in DOMAIN @ \ {id} |-> @[i]],
                                                  !.abs = [@ EXCEPT ![id] = 0]]]
ResetSearches(count) ==
  search' = [s \in Searcher |-> NewSearch(IF count > search[s].room THEN count ELSE search[s].room)]

NewPoint(id, w) == [id |-> id, weight |-> w, enabled |-> TRUE, neighbors |-> {}, unlinked |-> {}]

(* add_point *)
add_point(id, w) ==
  /\ Changes
  /\ IF id \in Ids
     THEN points' = [points EXCEPT ![AddressOf(id)].weight = w] /\ UNCHANGED <<capacity, search>>
     ELSE /\ points' = Append(points, NewPoint(id, w))
          /\ IF Len(points) < capacity THEN UNCHANGED <<capacity, search>>
             ELSE capacity' = 2 * Len(points) + (IF points = <<>> THEN 1 ELSE 0) /\ ResetSearches(Len(points) + 1)
  /\ UNCHANGED segments

(* connect_points: a segment that leads both ways has no unlinked end. *)
connect_points(id, with, bidirectional) ==
  LET added == {<<id, with>>} \cup IF bidirectional THEN {<<with, id>>} ELSE {}
      known == <<id, with>> \in segments \/ <<with, id>> \in segments
      both == known /\ {<<id, with>>, <<with, id>>} \subseteq segments \cup added
      Ends(p) ==
        CASE p.id = id ->
               [p EXCEPT !.neighbors = @ \cup {with}, !.unlinked = IF both THEN @ \ {with} ELSE @]
          [] p.id = with /\ bidirectional ->
               [p EXCEPT !.neighbors = @ \cup {id}, !.unlinked = IF both THEN @ \ {id} ELSE @]
          [] p.id = with /\ ~bidirectional ->
               [p EXCEPT !.unlinked = IF both THEN @ \ {id} ELSE @ \cup {id}]
          [] OTHER -> p
  IN  /\ Changes /\ {id, with} \subseteq Ids /\ id # with
      /\ points' = [i \in DOMAIN points |-> Ends(points[i])]
      /\ segments' = segments \cup added
      /\ UNCHANGED <<capacity, search>>

(* Mutant of FromEnd: the other direction is not noted as unlinked. *)
FromEndForgotten(p, with, left) == [p EXCEPT !.neighbors = @ \ {with}]

(* The point that a one-way disconnection starts from: what is left of the *)
(* segment leads to it.                                                    *)
FromEnd(p, with, left) ==
  [p EXCEPT !.neighbors = @ \ {with}, !.unlinked = IF left = {} THEN @ ELSE @ \cup {with}]

(* disconnect_points *)
disconnect_points(id, with, bidirectional) ==
  LET known == segments \cap {<<id, with>>, <<with, id>>}
      left == IF bidirectional THEN {} ELSE known \ {<<id, with>>}
      oneWay == Cardinality(known) = 1
      Apart(p, q) ==
        [p EXCEPT !.neighbors = @ \ {q}, !.unlinked = IF oneWay THEN @ \ {q} ELSE @]
      Ends(p) ==
        CASE p.id \in {id, with} /\ bidirectional -> Apart(p, IF p.id = id THEN with ELSE id)
          [] p.id = id /\ ~bidirectional -> FromEnd(p, with, left)
          [] p.id = with /\ ~bidirectional /\ left = {} -> [p EXCEPT !.unlinked = @ \ {id}]
          [] OTHER -> p
  IN  /\ Changes /\ {id, with} \subseteq Ids /\ id # with
      /\ known # {}
      /\ points' = [i \in DOMAIN points |-> Ends(points[i])]
      /\ segments' = (segments \ known) \cup left
      /\ UNCHANGED <<capacity, search>>

(* remove_point: the last point moves into the gap, and only the point     *)
(* that went is announced.                                                 *)
remove_point(id) ==
  /\ Changes /\ id \in Ids
  /\ LET p == PointOf(id)
         others == p.neighbors \cup p.unlinked
         Without(q) == IF q.id \in others THEN [q EXCEPT !.neighbors = @ \ {id}, !.unlinked = @ \ {id}] ELSE q
         rest == [i \in DOMAIN points |-> Without(points[i])]
     IN  /\ points' = [i \in 1 .. Len(points) - 1 |-> IF i = AddressOf(id) THEN Last(rest) ELSE rest[i]]
         /\ segments' = segments \ UNION {{<<id, q>>, <<q, id>>} : q \in others}
  /\ ForgetPoint(id)
  /\ UNCHANGED capacity

set_point_disabled(id, disabled) ==
  /\ Changes /\ id \in Ids \cap Togglable
  /\ points' = [points EXCEPT ![AddressOf(id)].enabled = ~disabled]
  /\ UNCHANGED <<capacity, segments, search>>

-----------------------------------------------------------------------------
(* The entry of a point, made when it is met for the first time, and the   *)
(* room of the vector that the entries are in.                             *)
Met(entries, ids) ==
  [i \in DOMAIN entries \cup ids |-> IF i \in DOMAIN entries THEN entries[i] ELSE AddressOf(i)]
Fits(s, entries) == Cardinality(DOMAIN entries) <= search[s].room
RoomFor(s, entries) == IF Fits(s, entries) THEN search[s].room ELSE 2 * search[s].room + 1

Stale(entries, ids) == \E i \in ids : entries[i] > Len(points) \/ points[entries[i]].id # i
Enabled(id) == PointOf(id).enabled

Answer(path, found) == [pc |-> "done", path |-> path, found |-> found]
Undefined == [pc |-> "undefined"]

(* A search with its first point.  The A* search does not mark it as open, *)
(* and the fringe search does not set its abs_f_score.                     *)
Started(s, from, to) ==
  [pc |-> "run", open |-> {from}, opened |-> IF s = "astar" THEN {} ELSE {from}, closed |-> {},
   g |-> [i \in {from} |-> 0], f |-> [i \in {from} |-> Distance[from][to]],
   prev |-> [i \in {from} |-> NoPoint], closest |-> NoPoint, limit |-> Distance[from][to]]

(* get_id_path, up to the loop of _solve.  The iterator to the first point *)
(* is kept while the second is looked up.                                  *)
Begin(s, from, to, partial) ==
  /\ Calls /\ {from, to} \subseteq Ids /\ from # to
  /\ LET one == Met(search[s].entries, {from})
         two == Met(one, {to})
         refused == ~Stale(one, {from}) /\ ~Enabled(from)
         query == [of |-> s, from |-> from, to |-> to, partial |-> partial]
     IN  /\ search' = [search EXCEPT ![s].entries = IF refused THEN one ELSE two,
                                     ![s].room = RoomFor(s, IF refused THEN one ELSE two),
                                     ![s].abs[from] = IF s = "astar" THEN Distance[from][to] ELSE @]
         /\ solve' = query @@
              CASE refused -> Answer(<<>>, FALSE)
                [] Stale(two, {from, to}) \/ (Fits(s, one) /\ ~Fits(s, two)) -> Undefined
                [] ~refused /\ ~Stale(two, {to}) /\ ~Enabled(to) /\ ~partial -> Answer(<<>>, FALSE)
                [] OTHER -> Started(s, from, to)
  /\ UNCHANGED <<points, capacity, segments>>

(* The best of the heap: the lowest f_score, among equals the one farthest *)
(* from the start.                                                         *)
Best(p) ==
  \A q \in solve.open :
    solve.f[p] < solve.f[q] \/ (solve.f[p] = solve.f[q] /\ solve.g[p] >= solve.g[q])

(* "Find point closer to end_point, or same distance to end_point but      *)
(* closer to begin_point."                                                 *)
Closest(p) ==
  LET c == solve.closest
      abs == search[solve.of].abs
  IN  IF c = NoPoint \/ abs[c] > abs[p] \/ (abs[c] >= abs[p] /\ solve.g[c] > solve.g[p]) THEN p ELSE c

(* generate_path_result *)
PathTo(target) ==
  LET trail[i \in DOMAIN solve.prev] ==
        IF i = solve.from THEN <<i>> ELSE Append(trail[solve.prev[i]], i)
  IN  trail[target]

Solving(s) == solve.pc = "run" /\ solve.of = s
Finish(answer) == solve' = [of |-> solve.of, from |-> solve.from, to |-> solve.to, partial |-> solve.partial] @@ answer

(* The end is the best of the heap, or the heap is empty. *)
Arrive(s) ==
  /\ Solving(s) /\ solve.to \in solve.open /\ Best(solve.to)
  /\ s = "fringe" => solve.f[solve.to] <= solve.limit
  /\ Finish(Answer(PathTo(solve.to), TRUE))
  /\ UNCHANGED <<points, capacity, segments, search, calls>>

GiveUp(s) ==
  /\ Solving(s) /\ solve.open = {}
  /\ Finish(Answer(IF solve.partial THEN PathTo(solve.closest) ELSE <<>>, FALSE))
  /\ UNCHANGED <<points, capacity, segments, search, calls>>

(* fringe: next_f_limit is the maximum when the limit is first raised. *)
RaiseLimit(s) ==
  /\ Solving(s) /\ s = "fringe"
  /\ \E p \in solve.open : Best(p) /\ solve.f[p] > solve.limit
  /\ solve' = [solve EXCEPT !.limit = FixedMax]
  /\ UNCHANGED <<points, capacity, segments, search, calls>>

Tentative(p, e) == solve.g[p] + Distance[p][e] * PointOf(e).weight

(* abs_f_score of a neighbor: A* estimates the way to the end, fringe the  *)
(* step to the neighbor.                                                   *)
Estimated(s, p, e) ==
  IF s = "astar" THEN Distance[e][solve.to]
  ELSE IF e \notin solve.opened THEN Distance[p][e]
  ELSE solve.f[e] - solve.g[e]

(* Mutant of Better: a point that is open keeps its first way. *)
FirstWay(p, e) == e \notin solve.opened

(* The way over p to its neighbor e is the first or the shorter one. *)
Better(p, e) == e \notin solve.opened \/ Tentative(p, e) < solve.g[e]

Overlaid(f, g) == [i \in DOMAIN f \cup DOMAIN g |-> IF i \in DOMAIN g THEN g[i] ELSE f[i]]

(* One pass of the loop over a point that is not the end. *)
Visit(s, p) ==
  /\ Solving(s) /\ p \in solve.open /\ p # solve.to /\ Best(p)
  /\ s = "fringe" => solve.f[p] <= solve.limit
  /\ LET near == PointOf(p).neighbors
         entries == Met(search[s].entries, near)
         better == {e \in near : Enabled(e) /\ e \notin solve.closed \cup {p} /\ Better(p, e)}
         g == [e \in better |-> Tentative(p, e)]
         abs == [e \in better |-> Estimated(s, p, e)]
     IN  IF Stale(entries, near \cup {p}) \/ ~Fits(s, entries)
         THEN Finish(Undefined) /\ UNCHANGED search
         ELSE /\ search' = [search EXCEPT ![s].entries = entries, ![s].abs = Overlaid(@, abs)]
              /\ solve' = [solve EXCEPT !.open = (@ \ {p}) \cup better, !.opened = @ \cup better,
                                        !.closed = @ \cup {p}, !.closest = Closest(p),
                                        !.g = Overlaid(@, g), !.f = Overlaid(@, [e \in better |-> g[e] + abs[e]]),
                                        !.prev = Overlaid(@, [e \in better |-> p])]
  /\ UNCHANGED <<points, capacity, segments, calls>>

-----------------------------------------------------------------------------
PathNext ==
  \/ \E id \in Id, w \in Weights : add_point(id, w)
  \/ \E id, with \in Id, bidirectional \in BOOLEAN :
       connect_points(id, with, bidirectional) \/ disconnect_points(id, with, bidirectional)
  \/ \E id \in Id : remove_point(id)
  \/ \E id \in Id, disabled \in BOOLEAN : set_point_disabled(id, disabled)
  \/ \E s \in Searcher :
       \/ \E from, to \in Id, partial \in BOOLEAN : Begin(s, from, to, partial)
       \/ Arrive(s) \/ GiveUp(s) \/ RaiseLimit(s)
       \/ \E p \in Id : Visit(s, p)

PathInit ==
  /\ points = <<>> /\ capacity = 0 /\ segments = {}
  /\ search = [s \in Searcher |-> NewSearch(0)]
  /\ solve = Nothing /\ calls = 0

PathSpec == PathInit /\ [][PathNext]_pathVars

-----------------------------------------------------------------------------
(* The three books of the graph agree after any calls: a point is a        *)
(* neighbor where a segment leads to it, and an unlinked neighbor where    *)
(* the segment leads only the other way; none names a point that is gone.  *)
SegmentsAgree ==
  /\ segments \subseteq Ids \X Ids
  /\ \A a \in Ids :
       /\ PointOf(a).neighbors = {b \in Id : <<a, b>> \in segments}
       /\ PointOf(a).unlinked = {b \in Id : <<b, a>> \in segments /\ <<a, b>> \notin segments}

(* The least cost of a way from a over enabled points, by relaxing every   *)
(* segment as often as there are points.                                   *)
Costs(a) ==
  LET Least(S) == CHOOSE x \in S : \A y \in S : x <= y
      Relax(cost, k) ==
        [b \in Ids |-> Least({cost[b]} \cup
          {cost[p] + Distance[p][b] * PointOf(b).weight :
             p \in {q \in Ids : cost[q] < FixedMax /\ <<q, b>> \in segments /\ Enabled(b)}})]
  IN  FoldLeft(Relax, [b \in Ids |-> IF b = a THEN 0 ELSE FixedMax], [k \in 1 .. Cardinality(Ids) |-> k])

IsWay(path) ==
  \A k \in 1 .. Len(path) - 1 : <<path[k], path[k + 1]>> \in segments /\ Enabled(path[k + 1])
CostOf(path) ==
  FoldLeft(LAMBDA sum, k : sum + Distance[path[k]][path[k + 1]] * PointOf(path[k + 1]).weight,
           0, [k \in 1 .. Len(path) - 1 |-> k])

(* A search finds a way when there is one; A* finds a cheapest one (for    *)
(* weights of at least one) and, when there is none, leads as near to the  *)
(* end as can be reached, by a cheapest way.  Fringe promises neither: it  *)
(* weighs a point by the step to it.                                       *)
SearchesAnswer ==
  solve.pc = "done" /\ Enabled(solve.from) =>
    LET cost == Costs(solve.from)
        Near(i) == Distance[i][solve.to]
        reached == {i \in Ids : cost[i] < FixedMax}
    IN  /\ solve.found <=> solve.to \in reached
        /\ IsWay(solve.path)
        /\ solve.found => Last(solve.path) = solve.to
        /\ solve.of = "astar" /\ solve.path # <<>> =>
             /\ CostOf(solve.path) = cost[Last(solve.path)]
             /\ \A i \in reached : Near(Last(solve.path)) <= Near(i)

(* The map the searches walk and what they find there, whatever calls came *)
(* before (connect_points, remove_point, get_id_path).                     *)
PathsSound == SegmentsAgree /\ SearchesAnswer
=============================================================================

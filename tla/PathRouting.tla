----------------------------- MODULE PathRouting -----------------------------
(***************************************************************************)
(* How domain/live-map.ts draws the robot's trail: drawRobotRuntime takes  *)
(* the projected poses two by two and draws a straight line where no wall  *)
(* is in the way, else the route an A* search finds, else nothing.  One    *)
(* step is one pair of poses, or one point taken from the search's queue.  *)
(* Lengths are in thousandths of a pixel, those of steps rounded up and    *)
(* those of the heuristic rounded down.                                    *)
(***************************************************************************)
EXTENDS Integers, Sequences, FiniteSets, FiniteSetsExt, SequencesExt

CONSTANTS
    Width, Height,    \* of the map
    Floors,           \* the sets of pixels isTraversableMapPixel may accept
    Trails,           \* the sequences of projected poses to draw
    MaxLength2,       \* MAX_PATH_SEGMENT_DISTANCE_SQUARED
    Padding,          \* ROUTED_PATH_PADDING_PIXELS
    MaxCells          \* MAX_ROUTED_PATH_CELLS

Pixels == (0..Width - 1) \X (0..Height - 1)

ASSUME SizeAssumption == Width \in Nat \ {0} /\ Height \in Nat \ {0} /\ Padding \in Nat
ASSUME TrailAssumption == Floors \subseteq SUBSET Pixels /\ Trails \subseteq Seq(Int \X Int)

VARIABLES
    floor,            \* the pixels it accepts
    trail, index,     \* the poses, and the one the next segment ends at
    search,           \* a search is under way
    from, to,         \* its ends, kept until the next pair of poses
    distance, previous,
    queue,            \* points to expand, with their scores
    routes,           \* of each pair of poses: the route drawn, <<>> if it was skipped
    painted           \* the pixels in the colour of the trail

searchVars == <<search, from, to, distance, previous, queue>>
vars == <<floor, trail, index, searchVars, routes, painted>>

absolute(n) == IF n < 0 THEN -n ELSE n
sign(n) == IF n < 0 THEN -1 ELSE IF n > 0 THEN 1 ELSE 0
distanceSquared(p, q) == (p[1] - q[1]) * (p[1] - q[1]) + (p[2] - q[2]) * (p[2] - q[2])
Root == [n \in 0..Width * Width + Height * Height |->
            CHOOSE r \in 0..1000 * (Width + Height) :
                r * r <= 1000000 * n /\ (r + 1) * (r + 1) > 1000000 * n]
heuristic(p, q) == Root[distanceSquared(p, q)]
Straight == 1000
Diagonal == 1415
None == <<-1, -1>>

\* forEachLinePoint, and the loop of drawLineWithPixelColor: Bresenham's algorithm.
linePoints(p, q) ==
    LET dx == absolute(q[1] - p[1])
        dy == -absolute(q[2] - p[2])
        step[n \in 0..Max({dx, -dy})] ==
            IF n = 0 THEN [x |-> p[1], y |-> p[2], error |-> dx + dy]
            ELSE LET s == step[n - 1]
                     right == 2 * s.error >= dy
                     down == 2 * s.error <= dx
                 IN [x |-> IF right THEN s.x + (IF p[1] < q[1] THEN 1 ELSE -1) ELSE s.x,
                     y |-> IF down THEN s.y + (IF p[2] < q[2] THEN 1 ELSE -1) ELSE s.y,
                     error |-> s.error + (IF right THEN dy ELSE 0) + (IF down THEN dx ELSE 0)]
    IN [n \in 1..Max({dx, -dy}) + 1 |-> <<step[n - 1].x, step[n - 1].y>>]

\* drawAdaptivePathLine with drawLineNeighbors: a line, and the four next to it.
brush(p, q) ==
    floor \cap
    UNION {ToSet(linePoints(<<p[1] + d[1], p[2] + d[2]>>, <<q[1] + d[1], q[2] + d[2]>>)) :
               d \in {<<0, 0>>, <<0, 1>>, <<1, 0>>, <<0, -1>>, <<-1, 0>>}}

isDirectPathTraversable(p, q) == ToSet(linePoints(p, q)) \subseteq floor

\* Mutant: the far end is snapped in the other order.
nearestToTheRight(p) ==
    IF p \in floor THEN p
    ELSE IF <<p[1] + 1, p[2]>> \in floor /\ index = 2 THEN <<p[1] + 1, p[2]>>
    ELSE IF floor = {} THEN None ELSE CHOOSE q \in floor : TRUE

\* The point itself, or of the smallest square around it the first pixel that is floor.
nearestTraversablePoint(p) ==
    LET around(r) == {q \in floor : absolute(q[1] - p[1]) <= r /\ absolute(q[2] - p[2]) <= r}
        near == {r \in 0..3 : around(r) # {}}
        before(q, r) == q[2] < r[2] \/ (q[2] = r[2] /\ q[1] <= r[1])
    IN IF near = {} THEN None
       ELSE CHOOSE q \in around(Min(near)) : \A r \in around(Min(near)) : before(q, r)

\* Where a search between p and q looks.
box(p, q) ==
    {c \in Pixels : \A i \in 1..2 : /\ c[i] >= Min({p[i], q[i]}) - Padding
                                    /\ c[i] <= Max({p[i], q[i]}) + Padding}

\* Mutant: no diagonal moves.
besides(c) == {n \in floor \cap box(from, to) : distanceSquared(n, c) = 1}

neighbours(c) == {n \in floor \cap box(from, to) : distanceSquared(n, c) \in {1, 2}}
edge(c, n) == IF distanceSquared(n, c) = 2 THEN Diagonal ELSE Straight

\* restoreRoutedPath: from the end back to the point nothing was before.
restored(last) ==
    LET path[c \in Pixels] ==
            IF c \in DOMAIN previous THEN Append(path[previous[c]], c) ELSE <<c>>
    IN path[last]

direction(p, q) == <<sign(q[1] - p[1]), sign(q[2] - p[2])>>

\* Mutant: only a change of columns counts as a turn.
simplifyCoarsely(points) ==
    LET turns(i) == direction(points[i - 1], points[i])[1] # direction(points[i], points[i + 1])[1]
        corners[i \in 1..Len(points) - 1] ==
            IF i = 1 THEN <<points[1]>>
            ELSE IF turns(i) THEN Append(corners[i - 1], points[i]) ELSE corners[i - 1]
    IN IF Len(points) <= 2 THEN points
       ELSE Append(corners[Len(points) - 1], points[Len(points)])

simplifyPath(points) ==
    LET turns(i) == direction(points[i - 1], points[i]) # direction(points[i], points[i + 1])
        corners[i \in 1..Len(points) - 1] ==
            IF i = 1 THEN <<points[1]>>
            ELSE IF turns(i) THEN Append(corners[i - 1], points[i]) ELSE corners[i - 1]
    IN IF Len(points) <= 2 THEN points
       ELSE Append(corners[Len(points) - 1], points[Len(points)])

Init ==
    /\ floor \in Floors /\ trail \in Trails /\ index = 2
    /\ search = FALSE /\ from = None /\ to = None
    /\ distance = <<>> /\ previous = <<>> /\ queue = {}
    /\ routes = <<>> /\ painted = {}

-----------------------------------------------------------------------------
\* drawAdaptivePathPolyline.
draw(route) ==
    /\ routes' = Append(routes, route) /\ index' = index + 1
    /\ painted' = painted \cup UNION {brush(route[k], route[k + 1]) : k \in 1..Len(route) - 1}

skip == routes' = Append(routes, <<>>) /\ index' = index + 1 /\ UNCHANGED painted

searchEnds == search' = FALSE /\ distance' = <<>> /\ previous' = <<>> /\ queue' = {}
              /\ UNCHANGED <<from, to>>
noSearch == from' = None /\ to' = None /\ UNCHANGED <<search, distance, previous, queue>>

AtPair == index <= Len(trail) /\ ~search
start == trail[index - 1]
end == trail[index]

\* MIN_PATH_SEGMENT_DISTANCE_SQUARED is 1.5 squared.
drawable(p, q) == 4 * distanceSquared(p, q) >= 9 /\ distanceSquared(p, q) <= MaxLength2

SkipsPair ==
    /\ AtPair /\ ~drawable(start, end) /\ skip
    /\ noSearch /\ UNCHANGED <<floor, trail>>

DrawsDirectly ==
    /\ AtPair /\ drawable(start, end) /\ isDirectPathTraversable(start, end)
    /\ draw(<<start, end>>)
    /\ noSearch /\ UNCHANGED <<floor, trail>>

mayRoute(p, q) == None \notin {p, q} /\ Cardinality(box(p, q)) <= MaxCells

findRoutedPath ==
    /\ AtPair /\ drawable(start, end) /\ ~isDirectPathTraversable(start, end)
    /\ LET s == nearestTraversablePoint(start)
           t == nearestTraversablePoint(end)
       IN IF mayRoute(s, t)
          THEN /\ search' = TRUE /\ from' = s /\ to' = t
               /\ distance' = [c \in {s} |-> 0] /\ previous' = <<>>
               /\ queue' = {[point |-> s, score |-> heuristic(s, t)]}
               /\ UNCHANGED <<index, routes, painted>>
          ELSE skip /\ noSearch
    /\ UNCHANGED <<floor, trail>>

\* The first of the sorted queue; scores that are equal up to rounding come in any order.
First(e) == search /\ e \in queue /\ \A f \in queue : e.score <= f.score

RouteFound(e) ==
    /\ First(e) /\ e.point = to
    /\ draw(simplifyPath(restored(to))) /\ searchEnds
    /\ UNCHANGED <<floor, trail>>

shorter(c, n) == n \notin DOMAIN distance \/ distance[c] + edge(c, n) < distance[n]

\* The entries of old, and those of new in their place.
over(new, old) ==
    [n \in DOMAIN new \cup DOMAIN old |-> IF n \in DOMAIN new THEN new[n] ELSE old[n]]

Expand(e) ==
    /\ First(e) /\ e.point # to
    /\ LET c == e.point
           better == {n \in neighbours(c) : shorter(c, n)}
           new == [n \in better |-> distance[c] + edge(c, n)]
       IN /\ distance' = over(new, distance)
          /\ previous' = over([n \in better |-> c], previous)
          /\ queue' = (queue \ {e})
                      \cup {[point |-> n, score |-> new[n] + heuristic(n, to)] : n \in better}
    /\ UNCHANGED <<floor, trail, index, search, from, to, routes, painted>>

NoRoute ==
    /\ search /\ queue = {}
    /\ skip /\ searchEnds
    /\ UNCHANGED <<floor, trail>>

Drawn == index > Len(trail) /\ UNCHANGED vars

Next ==
    \/ Drawn \/ SkipsPair \/ DrawsDirectly \/ findRoutedPath
    \/ \E e \in queue : RouteFound(e) \/ Expand(e)
    \/ NoRoute

Spec == Init /\ [][Next]_vars

-----------------------------------------------------------------------------
\* A route between two poses goes over floor pixels alone, as it is drawn: the corners that
\* simplifyPath keeps, joined by straight lines.  Nor does its brush paint a wall.
RoutesAreClear ==
    /\ painted \subseteq floor
    /\ \A i \in 1..Len(routes) :
        \A k \in 1..Len(routes[i]) - 1 :
            ToSet(linePoints(routes[i][k], routes[i][k + 1])) \subseteq floor

\* Two segments drawn one after the other meet, although each end may have been moved.
TrailConnected ==
    \A i \in 1..Len(routes) - 1 :
        routes[i] # <<>> /\ routes[i + 1] # <<>> => Last(routes[i]) = Head(routes[i + 1])

-----------------------------------------------------------------------------
(* Reference: the shortest walks *)

room == floor \cap box(from, to)
touches(c, n) == c # n /\ direction(c, n) = <<n[1] - c[1], n[2] - c[2]>>
cost(c, n) == IF 0 \in ToSet(direction(c, n)) THEN Straight ELSE Diagonal

\* Lengths of the shortest walks of one step more, if any are shorter.
further(w) ==
    LET ways(n) == {w[c] + cost(c, n) : c \in {c \in DOMAIN w : touches(c, n)}}
                   \cup {w[c] : c \in DOMAIN w \cap {n}}
        next == [n \in {n \in room : ways(n) # {}} |-> Min(ways(n))]
    IN IF next = w THEN w ELSE next

\* Of every pixel that a walk of so many steps reaches, the length of a shortest.
within[steps \in 0..Cardinality(room)] ==
    IF steps = 0 THEN [c \in {from} |-> 0] ELSE further(within[steps - 1])
shortest == within[Cardinality(room)]

leg(p, q) == Max({absolute(q[1] - p[1]), absolute(q[2] - p[2])}) * cost(p, q)
length(route) ==
    LET upTo[k \in 1..Len(route)] ==
            IF k = 1 THEN 0 ELSE upTo[k - 1] + leg(route[k - 1], route[k])
    IN upTo[Len(route)]

\* A search ends with a route as short as any in its box, and without one only where no
\* route exists.
SearchIsExact ==
    LET route == Last(routes) IN
    ~search /\ from # None =>
        IF route = <<>> THEN to \notin DOMAIN shortest
        ELSE to \in DOMAIN shortest /\ length(route) = shortest[to]
=============================================================================

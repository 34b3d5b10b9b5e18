------------------------------ MODULE Geometry ------------------------------
(* Adaptive key geometry (ferrokey-core/src/geometry.rs) over a view's keys   *)
(* (src/views.rs): the visible rectangles stay, the hit ellipses learn from   *)
(* where touches land.                                                        *)
(*                                                                            *)
(* Lengths are integers in 1/Unit of a logical pixel and fractions are in     *)
(* thousandths, where the code has f64.  The online mean and variance of      *)
(* Welford are kept as the sums they are computed from, relative to the       *)
(* middle of the key; frequency always equals the number of samples, and what *)
(* only explain() reports is left out.                                        *)
EXTENDS Integers, Sequences, FiniteSets

CONSTANTS
    Rows,           \* the view: per row the keys, [width, logo], widths in pixels
    MinSamples,     \* AdaptiveConfig, min_samples
    OptimizeEvery,  \* optimize_every
    Evidence        \* evidence_confidence squared, in thousandths

ASSUME ViewAssumption == Rows \in Seq(Seq([width : Nat, logo : BOOLEAN]))

VARIABLES
    hit,      \* the hit ellipse of each key
    stats,    \* per key the samples and their sums per axis
    since,    \* samples_since_optimize
    learning  \* config.adaptive: "off", "frozen" or "on"

geometryVars == <<hit, stats, since, learning>>

Unit == 4
Thousand == 1000
Axes == {"x", "y"}
KeyHeight == 52 * Unit
Spacing == 6 * Unit
ViewPad == 6 * Unit
MinKeyWidth == 24 * Unit

\* GeometryConstraints::default and AdaptiveConfig::default.
MaxCenter == [x |-> 12 * Unit, y |-> 8 * Unit]
MaxExpansion == [x |-> 10 * Unit, y |-> 6 * Unit]
MinRadius == [x |-> 10 * Unit, y |-> 12 * Unit]
MinProduct == (400 * Unit * Unit * 1000) \div 3141
OverlapShare == 250
Confidence == 120
MaxUpdate == 350
Hysteresis == 5

Least2(a, b) == IF a < b THEN a ELSE b
Most2(a, b) == IF a > b THEN a ELSE b
Clamp(v, lo, hi) == IF v < lo THEN lo ELSE IF v > hi THEN hi ELSE v

-----------------------------------------------------------------------------
(* The view: rectangles in row order, decorative keys left out of the basis. *)

KeyWidth(key) == Most2(key.width * Unit, MinKeyWidth)

\* The left edge of the key after each of a row, the first key's at 0.
Edges(r) ==
    LET x[c \in 0 .. Len(Rows[r])] ==
            IF c = 0 THEN ViewPad ELSE x[c - 1] + KeyWidth(Rows[r][c]) + Spacing
    IN  x

RectAt(r, c) ==
    [lo |-> [x |-> Edges(r)[c - 1], y |-> ViewPad + (r - 1) * (KeyHeight + Spacing)],
     len |-> [x |-> KeyWidth(Rows[r][c]), y |-> KeyHeight]]

\* adaptive_geometry_basis: the places of the interactive keys, row by row.
Interactive(r) ==
    LET upTo[c \in 0 .. Len(Rows[r])] ==
            IF c = 0 THEN <<>>
            ELSE IF Rows[r][c].logo THEN upTo[c - 1] ELSE Append(upTo[c - 1], <<r, c>>)
    IN  upTo[Len(Rows[r])]

Basis ==
    LET upTo[r \in 0 .. Len(Rows)] == IF r = 0 THEN <<>> ELSE upTo[r - 1] \o Interactive(r)
    IN  upTo[Len(Rows)]

Keys == DOMAIN Basis
Visual == [k \in Keys |-> RectAt(Basis[k][1], Basis[k][2])]
Middle == [k \in Keys |-> [a \in Axes |-> Visual[k].lo[a] + Visual[k].len[a] \div 2]]
Radius == [k \in Keys |-> [a \in Axes |-> Visual[k].len[a] \div 2]]

InRect(rect, p) == \A a \in Axes : p[a] >= rect.lo[a] /\ p[a] <= rect.lo[a] + rect.len[a]

\* Next in the row, or in an adjacent row and overlapping sideways.
Adjacent(i, j) ==
    LET vi == Visual[i]  vj == Visual[j]
        ri == Basis[i][1]  rj == Basis[j][1]
    IN  \/ ri = rj /\ (i = j + 1 \/ j = i + 1)
        \/ /\ ri = rj + 1 \/ rj = ri + 1
           /\ vi.lo.x < vj.lo.x + vj.len.x /\ vj.lo.x < vi.lo.x + vi.len.x

Neighbors == [i \in Keys |-> {j \in Keys : Adjacent(i, j)}]

\* key_at: the key drawn at a point, 0 without one (gaps and the logo).
KeyAt(p) == IF \E k \in Keys : InRect(Visual[k], p)
            THEN CHOOSE k \in Keys : InRect(Visual[k], p) ELSE 0

-----------------------------------------------------------------------------
(* Ellipses. *)

Baseline(k) == [c |-> Middle[k], r |-> Radius[k]]

\* Ellipse::distance, squared.
Distance(e, p) ==
    LET part(a) == ((p[a] - e.c[a]) * (p[a] - e.c[a]) * Thousand) \div (e.r[a] * e.r[a])
    IN  part("x") + part("y")

\* hit_test_confidence: the nearest ellipse around p, then the more frequent key,
\* then the first.
Closer(p, i, j) ==
    LET di == Distance(hit[i], p)  dj == Distance(hit[j], p)
    IN  \/ di < dj
        \/ di = dj /\ stats[i].n > stats[j].n
        \/ di = dj /\ stats[i].n = stats[j].n /\ i <= j

Reached(p) == {k \in Keys : Distance(hit[k], p) <= Thousand}

HitTest(p) == IF Reached(p) = {} THEN 0
              ELSE CHOOSE k \in Reached(p) : \A j \in Reached(p) : Closer(p, k, j)

\* The overlap of two bounding boxes beyond the share of the smaller box.
Excess(e, f) ==
    LET side(a) == Least2(e.c[a] + e.r[a], f.c[a] + f.r[a])
                     - Most2(e.c[a] - e.r[a], f.c[a] - f.r[a])
        small(a) == 2 * Least2(e.r[a], f.r[a])
        inter == IF side("x") > 0 /\ side("y") > 0 THEN side("x") * side("y") ELSE 0
    IN  inter - (OverlapShare * small("x") * small("y")) \div Thousand

Lerp(from, to, t) ==
    [f \in {"c", "r"} |->
        [a \in Axes |-> from[f][a] + ((to[f][a] - from[f][a]) * t) \div Thousand]]

\* Square root, rounded up: an area that is scaled to the minimum reaches it.
Root(n) == CHOOSE r \in 0 .. n : r * r >= n /\ (r = 0 \/ (r - 1) * (r - 1) < n)

-----------------------------------------------------------------------------
(* The optimizer. *)

Mean(k, a) == IF stats[k].n = 0 THEN 0 ELSE stats[k].sum[a] \div stats[k].n

Variance(k, a) ==
    LET s == stats[k]
    IN  IF s.n = 0 THEN 0 ELSE (s.n * s.sq[a] - s.sum[a] * s.sum[a]) \div (s.n * s.n)

\* candidate: the middle shifts by a bias that is well founded, the radii grow
\* with the spread.
Candidate(k) ==
    LET abs(v) == IF v < 0 THEN -v ELSE v
        sure(a) == /\ stats[k].n >= MinSamples
                   /\ abs(Mean(k, a)) * Thousand >= Confidence * Radius[k][a]
        bias(a) == IF sure(a) THEN Clamp(Mean(k, a), -MaxCenter[a], MaxCenter[a]) ELSE 0
    IN  [c |-> [a \in Axes |-> Middle[k][a] + bias(a)],
         r |-> [a \in Axes |-> Clamp(Radius[k][a] + Root(Variance(k, a)) \div 2,
                                     MinRadius[a], Radius[k][a] + MaxExpansion[a])]]

\* shrink_bbox
Shrink(e, amount) == [e EXCEPT !.r = [a \in Axes |-> Most2(e.r[a] - amount \div 2, 0)]]

\* competition: two candidates that overlap too much both shrink, by an amount that
\* is the excess area (in pixels) shared out by their narrower sides.
Compete(cand, i, j) ==
    LET e == cand[i]  f == cand[j]
        narrow(g) == 2 * Least2(g.r.x, g.r.y)
        total == narrow(e) + narrow(f)
        share(g) == (Excess(e, f) * narrow(g)) \div (Unit * total)
    IN  IF Excess(e, f) <= 0 \/ narrow(e) = 0 \/ narrow(f) = 0 THEN cand
        ELSE [cand EXCEPT ![i] = Shrink(e, share(e)), ![j] = Shrink(f, share(f))]

\* The mth pair of keys, in the order of the two nested loops.
PairAt(m) == <<((m - 1) \div Len(Basis)) + 1, ((m - 1) % Len(Basis)) + 1>>

Competition(cand) ==
    LET upTo[m \in 0 .. Len(Basis) * Len(Basis)] ==
            IF m = 0 THEN cand
            ELSE LET i == PairAt(m)[1]  j == PairAt(m)[2]
                 IN  IF i < j /\ j \in Neighbors[i] THEN Compete(upTo[m - 1], i, j)
                     ELSE upTo[m - 1]
    IN  upTo[Len(Basis) * Len(Basis)]

\* violated_by without the overlap: displacement, expansion, minimum size.  The radii
\* are the code's, cut to whole units, so the area they stand for may be almost a unit
\* larger on either axis; the code's own tolerance is 1e-9.
Within(k, e) ==
    /\ \A a \in Axes : /\ e.c[a] - Middle[k][a] \in -MaxCenter[a] .. MaxCenter[a]
                       /\ e.r[a] <= Radius[k][a] + MaxExpansion[a]
                       /\ e.r[a] >= MinRadius[a]
    /\ (e.r.x + 1) * (e.r.y + 1) >= MinProduct

Crowded(k, e) == \E j \in Neighbors[k] : Excess(e, hit[j]) > 0

\* The minimum area: both radii scale up.
Accessible(e) ==
    IF e.r.x * e.r.y >= MinProduct THEN e
    ELSE [e EXCEPT !.r = [x |-> Root((e.r.x * MinProduct) \div e.r.y + 1),
                          y |-> Root((e.r.y * MinProduct) \div e.r.x + 1)]]

\* A seeded fault: the radii have no lower limit.
ClampToAnySize(k, e) ==
    [c |-> [a \in Axes |-> Clamp(e.c[a], Middle[k][a] - MaxCenter[a],
                                         Middle[k][a] + MaxCenter[a])],
     r |-> [a \in Axes |-> Clamp(e.r[a], 1, Radius[k][a] + MaxExpansion[a])]]

\* clamp_to_constraints: against the neighbours' current ellipses; too much overlap
\* is pulled half way back.
ClampTo(k, e) ==
    LET box == [c |-> [a \in Axes |-> Clamp(e.c[a], Middle[k][a] - MaxCenter[a],
                                                    Middle[k][a] + MaxCenter[a])],
                r |-> [a \in Axes |-> Clamp(e.r[a], MinRadius[a],
                                            Radius[k][a] + MaxExpansion[a])]]
        out == Accessible(box)
    IN  IF Within(k, out) /\ Crowded(k, out) THEN Lerp(hit[k], out, 500) ELSE out

\* cost: the expected squared distance; the frequency cancels out of every use.
Cost(k, e) ==
    LET part(a) == LET d == Middle[k][a] + Mean(k, a) - e.c[a]
                   IN  ((Variance(k, a) + d * d) * Thousand) \div (e.r[a] * e.r[a])
    IN  IF stats[k].n = 0 THEN 0 ELSE part("x") + part("y")

\* evaluate_and_propose: keep, jump (no cost yet) or move part of the way.
Proposal(k, cand) ==
    LET cur == Cost(k, hit[k])
    IN  IF cand = hit[k] THEN hit[k]
        ELSE IF cur = 0 THEN ClampTo(k, cand)
        ELSE IF (cur - Cost(k, cand)) * Thousand > Hysteresis * cur
             THEN ClampTo(k, Lerp(hit[k], cand, MaxUpdate))
        ELSE hit[k]

Optimized ==
    LET cand == Competition([k \in Keys |-> Candidate(k)])
    IN  [k \in Keys |-> Proposal(k, ClampTo(k, cand[k]))]

-----------------------------------------------------------------------------
(* AdaptiveGeometry::new, record_hit, optimize when it is due. *)

GeometryInit ==
    /\ hit = [k \in Keys |-> Baseline(k)]
    /\ stats = [k \in Keys |-> [n |-> 0, sum |-> [a \in Axes |-> 0], sq |-> [a \in Axes |-> 0]]]
    /\ since = 0
    /\ learning \in {"off", "frozen", "on"}

RecordHit(k, p) ==
    LET d(a) == p[a] - Middle[k][a]
    IN  /\ stats' = [stats EXCEPT ![k] =
                [n |-> @.n + 1, sum |-> [a \in Axes |-> @.sum[a] + d(a)],
                 sq |-> [a \in Axes |-> @.sq[a] + d(a) * d(a)]]]
        /\ since' = since + 1

\* touch_key_at: the drawn key without adaptation; a hit well inside its ellipse is
\* evidence.
TouchKeyAt(p) == IF learning = "off" THEN KeyAt(p) ELSE HitTest(p)

Learn(p) ==
    LET k == HitTest(p)
    IN  /\ IF learning # "off" /\ k # 0 /\ Distance(hit[k], p) <= Evidence
           THEN RecordHit(k, p) ELSE UNCHANGED <<stats, since>>
        /\ UNCHANGED <<hit, learning>>

\* tick_adaptive: a frozen geometry is evaluated and not changed, and stays due.
TickAdaptive ==
    /\ IF since >= OptimizeEvery /\ learning = "on"
       THEN hit' = Optimized /\ since' = 0
       ELSE UNCHANGED <<hit, since>>
    /\ UNCHANGED <<stats, learning>>

=============================================================================

-------------------------------- MODULE Joins --------------------------------
(***************************************************************************)
(* The joins of join.c over two inputs, the bigger one first.  An input is *)
(* a position vector s and the values v that were fetched for it; a join   *)
(* answers with pairs of positions.  The arrays are sequences here, and    *)
(* "behind" is what a read past the end of one finds.                      *)
(*                                                                         *)
(* A join that the code cannot finish has ok = FALSE: it wrote past the    *)
(* room of the answer, read before its hash table, ran away or never ends. *)
(***************************************************************************)
EXTENDS Integers, Sequences

CONSTANT Partitions     \* slots of a table for MAX_PARTITIONS elements

ASSUME PartitionsAssumption == Partitions \in Nat \ {0}

At(s, i, behind) == IF i \in DOMAIN s THEN s[i] ELSE behind

Lost == [ok |-> FALSE, pairs |-> << >>]
Paired(pairs) == [ok |-> TRUE, pairs |-> pairs]

(* Nested loops *)

\* The partners of one row of the bigger input.
Partners(key, pos, v2, s2, behind) ==
    LET match[j \in 0..Len(s2)] ==
            IF j = 0 THEN << >>
            ELSE IF At(v2, j, behind) = key THEN Append(match[j - 1], <<pos, s2[j]>>)
            ELSE match[j - 1]
    IN  match[Len(s2)]

AllPartners(v1, s1, v2, s2, behind) ==
    LET all[i \in 0..Len(s1)] ==
            IF i = 0 THEN << >>
            ELSE all[i - 1] \o Partners(At(v1, i, behind), s1[i], v2, s2, behind)
    IN  all[Len(s1)]

\* The answer has room for one pair per row of the bigger input.
NestedJoinInt(v1, s1, v2, s2, behind) ==
    LET fitting(pairs) == IF Len(pairs) > Len(s1) THEN Lost ELSE Paired(pairs)
    IN  fitting(AllPartners(v1, s1, v2, s2, behind))

DefectNestedJoinLong(v1, s1, v2, s2, behind) ==
    LET pairs == AllPartners(v1, s1, v2, s2, behind)
    IN  IF Len(pairs) + Len(s2) > Len(s1) THEN Lost ELSE Paired(pairs)
\* Every pair is written, one that does not match is overwritten; the room
\* may double before each row.
NestedJoinLong(v1, s1, v2, s2, behind) ==
    LET next(a, i) ==
            LET pairs == a.pairs \o Partners(At(v1, i, behind), s1[i], v2, s2, behind)
                room == IF Len(a.pairs) + Len(s2) > a.room THEN 2 * a.room ELSE a.room
            IN  [pairs |-> pairs, room |-> room, ok |-> a.ok /\ Len(a.pairs) + Len(s2) <= room]
        rows[i \in 0..Len(s1)] ==
            IF i = 0 THEN [pairs |-> << >>, room |-> Len(s1), ok |-> TRUE]
            ELSE next(rows[i - 1], i)
        finished(a) == IF a.ok THEN Paired(a.pairs) ELSE Lost
    IN  finished(rows[Len(s1)])

(* Hash tables: the positions of a key in the order of the puts. *)

Matches(v, s, key, behind) ==
    LET match[i \in 0..Len(s)] ==
            IF i = 0 THEN << >>
            ELSE IF At(v, i, behind) = key THEN Append(match[i - 1], s[i]) ELSE match[i - 1]
    IN  match[Len(s)]

\* The slots of a table for n elements: get takes the remainder of a negative
\* key, which is negative, for its slot.
SlotsFor(n) == 2 ^ (CHOOSE e \in 0..n : 2 ^ e > n /\ \A d \in 0..(e - 1) : 2 ^ d <= n) - 1
ReadsBefore(key, slots) == key < 0 /\ (-key) % slots # 0

DefectHashJoinInt(v1, s1, v2, s2, behind) ==
    LET next(a, key, pos) ==
            LET found == Matches(v1, s1, key, behind)
            IN  IF found = << >> THEN a
                ELSE [a EXCEPT !.pairs = Append(@, <<0, pos>>)]
        probes[j \in 0..Len(s2)] ==
            IF j = 0 THEN Paired(<< >>)
            ELSE next(probes[j - 1], At(v2, j, behind), s2[j])
    IN  probes[Len(s2)]
\* The table holds the bigger input.  values has room for one position, and
\* get leaves it alone when there are more: then the last one is used again.
HashJoinInt(v1, s1, v2, s2, behind) ==
    LET next(a, key, pos) ==
            LET found == Matches(v1, s1, key, behind)
                value == IF Len(found) = 1 THEN found[1] ELSE a.value
            IN  IF ~ a.ok \/ ReadsBefore(key, SlotsFor(Len(s1))) THEN [a EXCEPT !.ok = FALSE]
                ELSE IF found = << >> THEN a
                ELSE [a EXCEPT !.value = value, !.pairs = Append(@, <<value, pos>>)]
        probes[j \in 0..Len(s2)] ==
            IF j = 0 THEN [ok |-> TRUE, pairs |-> << >>, value |-> 0]
            ELSE next(probes[j - 1], At(v2, j, behind), s2[j])
        finished(a) == IF a.ok THEN Paired(a.pairs) ELSE Lost
    IN  finished(probes[Len(s2)])

\* It goes on while one of the inputs has a row left, and reads behind the
\* other: it is lost when it takes a step there.
SortJoinInt(v1, s1, v2, s2, behind) ==
    LET with(pair, a) == IF a.ok THEN Paired(<<pair>> \o a.pairs) ELSE Lost
        merge[p \in (1..(Len(s1) + 2)) \X (1..(Len(s2) + 2))] ==
            LET i == p[1]
                j == p[2]
            IN  IF i > Len(s1) + 1 \/ j > Len(s2) + 1 THEN Lost
                ELSE IF i > Len(s1) /\ j > Len(s2) THEN Paired(<< >>)
                ELSE IF At(v1, i, behind) < At(v2, j, behind) THEN merge[<<i + 1, j>>]
                ELSE IF At(v1, i, behind) > At(v2, j, behind) THEN merge[<<i, j + 1>>]
                ELSE IF i > Len(s1) \/ j > Len(s2) THEN Lost
                ELSE with(<<s1[i], s2[j]>>, merge[<<i + 1, j + 1>>])
    IN  merge[<<1, 1>>]

(* db_grace_join_i *)

Abs(n) == IF n < 0 THEN -n ELSE n
\* The rows of an input in one partition.
Partition(v, s, slot, behind) ==
    LET part[i \in 0..Len(s)] ==
            IF i = 0 THEN << >>
            ELSE IF Abs(At(v, i, behind)) % Partitions = slot
            THEN Append(part[i - 1], <<At(v, i, behind), s[i]>>) ELSE part[i - 1]
    IN  part[Len(s)]

Keys(part) == [i \in DOMAIN part |-> part[i][1]]
Poss(part) == [i \in DOMAIN part |-> part[i][2]]

\* ~bval is -1 or -2 where 0 or 1 was meant.
GracePair(bval, cur, value) ==
    LET no == -bval - 1
    IN  <<bval * cur + value * no, bval * value + cur * no>>

\* A row of the bigger partition asks the table of the smaller one.  Without
\* an answer it asks again, for ever.
GraceProbe(a, bval, part, key, cur, behind) ==
    LET found == Matches(Keys(part), Poss(part), key, behind)
        n == Len(found)
        values == [k \in 1..(IF n > Len(a.values) THEN n ELSE Len(a.values)) |->
                       IF n <= Len(a.values) /\ k <= n THEN found[k] ELSE At(a.values, k, behind)]
    IN  IF ~ a.ok \/ ReadsBefore(key, SlotsFor(Len(part))) \/ n = 0 \/ Len(a.pairs) + n > a.room
        THEN [a EXCEPT !.ok = FALSE]
        ELSE [a EXCEPT !.values = values,
                       !.pairs = @ \o [k \in 1..n |-> GracePair(bval, cur, values[k])]]

GracePartition(a, part1, part2, behind) ==
    LET bval == IF Len(part1) > Len(part2) THEN 1 ELSE 0
        small == IF bval = 1 THEN part2 ELSE part1
        big == IF bval = 1 THEN part1 ELSE part2
        start == IF Len(a.pairs) + Len(part1) > a.room THEN [a EXCEPT !.room = 2 * @] ELSE a
        probes[i \in 0..Len(big)] ==
            IF i = 0 THEN start
            ELSE GraceProbe(probes[i - 1], bval, small, big[i][1], big[i][2], behind)
    IN  IF part1 = << >> \/ part2 = << >> THEN a ELSE probes[Len(big)]

GraceJoinInt(v1, s1, v2, s2, behind) ==
    LET slots[k \in 0..Partitions] ==
            IF k = 0 THEN [ok |-> TRUE, pairs |-> << >>, values |-> <<0>>, room |-> Len(s1)]
            ELSE GracePartition(slots[k - 1], Partition(v1, s1, k - 1, behind),
                                Partition(v2, s2, k - 1, behind), behind)
        finished(a) == IF a.ok THEN Paired(a.pairs) ELSE Lost
    IN  finished(slots[Partitions])
===============================================================================

--------------------------- MODULE MultipartyDpf ---------------------------
(* Key generation of the N-party point function, its evaluation over a       *)
(* universe and the combination of the shares: multiparty_fss/keygen.py,      *)
(* evaluate.py, parity.py, params.py and projection.py.                       *)
(*                                                                            *)
(* An element of the output group GF(2)^64 is the set of its one bits, so     *)
(* that XOR is "held by an odd number"; a column of a parity array is the set *)
(* of the parties that hold its seed.  The operating system's random source   *)
(* is a choice from a set, the PRG an unspecified operator.                   *)
EXTENDS Naturals, FiniteSets

CONSTANTS EvaluatorCount,       \* evaluators, N
          UniverseSizes,    \* sizes of the shared universe that are tried
          Bits,             \* bits of an output word that are told apart
          Blocks,           \* blocks of 128 bits the random source may return
          ZeroBlock,        \* the block of zeros: "seed not held"
          Expand(_, _),     \* word number c of the PRG's stream for a seed
          WordVectors(_),   \* vectors of mu words the random source may return
          Shuffles(_),      \* orders in which a set of columns may be shuffled
          Slots,            \* candidate slots of the projection
          Routed(_)         \* slots the point of a given rank is routed to

ASSUME PartiesAssumption == EvaluatorCount \in Nat /\ EvaluatorCount >= 3
ASSUME SizesAssumption == UniverseSizes \subseteq Nat \ {0}
ASSUME BlocksAssumption == ZeroBlock \in Blocks

VARIABLES size,       \* points of the universe
          params,     \* its domain bits and the grid's rows (nu) and cells a row (mu)
          alpha,      \* rank that is looked up, 0 if the point is not in it
          beta,       \* value at alpha, the empty word if it is not in it
          stage,      \* step of generate that comes next
          arrays,     \* row |-> order of its columns
          seeds,      \* row |-> seed number |-> block
          words       \* correction words

keyVars == <<size, params, alpha, beta, stage, arrays, seeds, words>>

Evaluators == 0 .. EvaluatorCount - 1
Word == SUBSET Bits
Xor(f) == {b \in Bits : Cardinality({x \in DOMAIN f : b \in f[x]}) % 2 = 1}

----------------------------------------------------------------------------
(* Parameters: the domain of ranks is laid out as nu rows of mu cells.        *)

SeedsPerRow == 2 ^ (EvaluatorCount - 1)

DomainBits(n) == CHOOSE d \in 1 .. n : /\ n <= 2 ^ d
                                       /\ \A k \in 1 .. d - 1 : n > 2 ^ k
MuFor(bits) == LET square == 2 ^ (bits + EvaluatorCount - 1) IN
               CHOOSE m \in 1 .. square : m * m >= square /\ (m - 1) * (m - 1) < square

\* Mutant: the number of rows is rounded down.
NuRoundedDown(bits) == 2 ^ bits \div MuFor(bits)
NuFor(bits) == (2 ^ bits + MuFor(bits) - 1) \div MuFor(bits)
ParamsFor(n) == LET bits == DomainBits(n) IN
                [domainBits |-> bits, mu |-> MuFor(bits), nu |-> NuFor(bits)]

Row(x) == x \div params.mu
Column(x) == x % params.mu

RowSet == 0 .. params.nu - 1
SeedSet == 0 .. SeedsPerRow - 1
ColumnSet == 0 .. params.mu - 1

ParityColumns(odd) == {c \in SUBSET Evaluators : (Cardinality(c) % 2 = 1) = odd}
PartyHolds(row, j, i) == i \in arrays[row][j]

\* A shuffle puts every column into one place; a random vector has mu words.
ASSUME ShufflesAssumption ==
  \A odd \in BOOLEAN : \A order \in Shuffles(ParityColumns(odd)) :
    /\ order \in [SeedSet -> ParityColumns(odd)]
    /\ ParityColumns(odd) \subseteq {order[j] : j \in SeedSet}
ASSUME WordsAssumption ==
  \A n \in UniverseSizes : LET mu == ParamsFor(n).mu IN
    WordVectors(mu) \subseteq [0 .. mu - 1 -> Word]

----------------------------------------------------------------------------
(* Key generation.                                                            *)

KeyInit == /\ size \in UniverseSizes
        /\ params = ParamsFor(size)
        /\ \/ alpha \in 0 .. size - 1 /\ beta \in Word
           \/ alpha = 0 /\ beta = {}
        /\ stage = "arrays"
        /\ arrays = <<>> /\ seeds = <<>> /\ words = <<>>

SampleArrays ==
  /\ stage = "arrays"
  /\ arrays' \in {a \in [RowSet -> UNION {Shuffles(ParityColumns(odd)) : odd \in BOOLEAN}] :
                    \A row \in RowSet : a[row] \in Shuffles(ParityColumns(row = Row(alpha)))}
  /\ stage' = "seeds"
  /\ UNCHANGED <<size, params, alpha, beta, seeds, words>>

\* Mutant: a block of zeros is kept.
AnySeed == Blocks
RandomSeed == Blocks \ {ZeroBlock}

DrawSeeds ==
  /\ stage = "seeds"
  /\ seeds' \in [RowSet -> [SeedSet -> RandomSeed]]
  /\ stage' = "words"
  /\ UNCHANGED <<size, params, alpha, beta, arrays, words>>

\* The last word makes the words and the special row's streams add up to beta
\* in alpha's column and to nothing in the others.
LastWord(drawn) ==
  [c \in ColumnSet |->
     LET target == IF c = Column(alpha) THEN beta ELSE {}
         streams == Xor([j \in SeedSet |-> Expand(seeds[Row(alpha)][j], c)])
         partial == Xor([j \in DOMAIN drawn |-> drawn[j][c]])
     IN Xor(<<target, streams, partial>>)]

DrawWords ==
  /\ stage = "words"
  /\ \E drawn \in [0 .. SeedsPerRow - 2 -> WordVectors(params.mu)] :
       words' = [j \in SeedSet |-> IF j < SeedsPerRow - 1 THEN drawn[j] ELSE LastWord(drawn)]
  /\ stage' = "shares"
  /\ UNCHANGED <<size, params, alpha, beta, arrays, seeds>>

Sigma(i) == [row \in RowSet |-> [j \in SeedSet |->
               IF PartyHolds(row, j, i) THEN seeds[row][j] ELSE ZeroBlock]]

----------------------------------------------------------------------------
(* Evaluation at party i, from its key share alone: Sigma(i) and the words.   *)

HeldSeeds(i, row) == {j \in SeedSet : Sigma(i)[row][j] # ZeroBlock}

RowVector(i, row) ==
  [c \in ColumnSet |->
     Xor([t \in HeldSeeds(i, row) \X {"word", "stream"} |->
            IF t[2] = "word" THEN words[t[1]][c] ELSE Expand(Sigma(i)[row][t[1]], c)])]

LastRow == (size - 1) \div params.mu

\* The row vectors one after the other, cut at the size of the universe.
EvaluateUniverse(i) ==
  LET rows == [row \in 0 .. LastRow |-> RowVector(i, row)]
  IN [x \in 0 .. size - 1 |-> rows[Row(x)][Column(x)]]

\* Mutant: a slot keeps the share of one of its points.
ProjectOnePoint(shares) ==
  [s \in Slots |-> IF \E x \in DOMAIN shares : s \in Routed(x)
                    THEN shares[CHOOSE x \in DOMAIN shares : s \in Routed(x)] ELSE {}]
Project(shares) ==
  [s \in Slots |-> Xor([x \in {y \in DOMAIN shares : s \in Routed(y)} |-> shares[x]])]

CombineShares(vector) ==
  [x \in DOMAIN vector[0] |-> Xor([i \in Evaluators |-> vector[i][x]])]

Done == stage = "shares" /\ UNCHANGED keyVars

KeyNext == SampleArrays \/ DrawSeeds \/ DrawWords \/ Done

KeySpec == KeyInit /\ [][KeyNext]_keyVars

----------------------------------------------------------------------------
\* What is drawn has the shape its stage gives it, and every point of the
\* universe has a cell of its own in the grid.
KeyTypeOK ==
  /\ size \in UniverseSizes /\ size <= 2 ^ params.domainBits /\ alpha \in 0 .. size - 1 /\ beta \in Word
  /\ stage \in {"arrays", "seeds", "words", "shares"}
  /\ stage # "arrays" =>
       \A row \in RowSet : LET order == arrays[row] IN
          {order[j] : j \in SeedSet} = ParityColumns(row = Row(alpha))
  /\ stage \in {"words", "shares"} => seeds \in [RowSet -> [SeedSet -> Blocks]]
  /\ stage = "shares" => words \in [SeedSet -> [ColumnSet -> Word]]
  /\ \A x, y \in 0 .. size - 1 :
       Row(x) \in RowSet /\ (<<Row(x), Column(x)>> = <<Row(y), Column(y)>> => x = y)

\* The evaluators' answers add up to beta at alpha and to nothing at every
\* other point of the universe (evaluate_universe, MpFssCoordinator.combine),
\* whatever was drawn: seeds of other rows cancel, those of alpha's row do not.
PointFunction ==
  stage = "shares" =>
    LET shares == [i \in Evaluators |-> EvaluateUniverse(i)] IN
    CombineShares(shares) = [x \in 0 .. size - 1 |-> IF x = alpha THEN beta ELSE {}]

\* Projected answers add up to beta in exactly the slots alpha's point is
\* routed to (XorCandidateProjection.project at each evaluator, then combine).
SlotsExact ==
  stage = "shares" =>
    LET shares == [i \in Evaluators |-> Project(EvaluateUniverse(i))] IN
    CombineShares([i \in Evaluators |-> shares[i]]) =
      [s \in Slots |-> IF s \in Routed(alpha) THEN beta ELSE {}]
=============================================================================

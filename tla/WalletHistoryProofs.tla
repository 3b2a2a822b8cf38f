------------------------ MODULE WalletHistoryProofs -------------------------
(* What a wallet is shown of the past: of its transactions, for every      *)
(* ledger, any instructions and however many of them a transaction has;    *)
(* and of its SKR stake, for every owner, position and number of payouts,  *)
(* stakes and days.                                                        *)
EXTENDS WalletServicesProofs

(* Two sums that differ in two places, or in one.                          *)
LEMMA SumAtTwo ==
  ASSUME NEW S, IsFiniteSet(S), NEW w, NEW v, \A x \in S : w[x] \in Int /\ v[x] \in Int,
         NEW x \in S, NEW y \in S, x # y, \A z \in S : z # x /\ z # y => v[z] = w[z]
  PROVE  SumFunctionOnSet(v, S) = SumFunctionOnSet(w, S) + (v[x] - w[x]) + (v[y] - w[y])
<1> DEFINE R == S \ {x}
           Q == R \ {y}
<1>1. IsFiniteSet(R) /\ IsFiniteSet(Q) /\ y \in R /\ R \subseteq S /\ Q \subseteq S
  BY FS_Subset
<1>2. \A z \in Q : v[z] = w[z]
  OBVIOUS
<1>3. SumFunctionOnSet(v, Q) = SumFunctionOnSet(w, Q)
  BY <1>1, <1>2, SumOfSame
<1>4. SumFunctionOnSet(w, S) = w[x] + SumFunctionOnSet(w, R) /\ SumFunctionOnSet(v, S) = v[x] + SumFunctionOnSet(v, R)
  BY SumOfOneMore
<1>5. SumFunctionOnSet(w, R) = w[y] + SumFunctionOnSet(w, Q) /\ SumFunctionOnSet(v, R) = v[y] + SumFunctionOnSet(v, Q)
  BY <1>1, SumOfOneMore
<1>6. SumFunctionOnSet(w, Q) \in Int
  BY <1>1, SumOfInts
<1> HIDE DEF R, Q
<1> QED BY <1>3, <1>4, <1>5, <1>6

LEMMA SumAtOne ==
  ASSUME NEW S, IsFiniteSet(S), NEW w, NEW v, \A x \in S : w[x] \in Int /\ v[x] \in Int,
         NEW x \in S, \A z \in S : z # x => v[z] = w[z]
  PROVE  SumFunctionOnSet(v, S) = SumFunctionOnSet(w, S) + (v[x] - w[x])
<1> DEFINE R == S \ {x}
<1>1. IsFiniteSet(R) /\ R \subseteq S
  BY FS_Subset
<1>3. SumFunctionOnSet(v, R) = SumFunctionOnSet(w, R)
  BY <1>1, SumOfSame
<1>4. SumFunctionOnSet(w, S) = w[x] + SumFunctionOnSet(w, R) /\ SumFunctionOnSet(v, S) = v[x] + SumFunctionOnSet(v, R)
  BY SumOfOneMore
<1>6. SumFunctionOnSet(w, R) \in Int
  BY <1>1, SumOfInts
<1> HIDE DEF R
<1> QED BY <1>3, <1>4, <1>6

(* A difference of sums is the sum of the differences.                     *)
LEMMA SumOfDifferences ==
  ASSUME NEW S, IsFiniteSet(S), NEW w, NEW v, NEW d, \A x \in S : w[x] \in Int /\ v[x] \in Int /\ d[x] = v[x] - w[x]
  PROVE  SumFunctionOnSet(d, S) = SumFunctionOnSet(v, S) - SumFunctionOnSet(w, S)
<1> DEFINE W(s) == SumFunctionOnSet(w, s)
           V(s) == SumFunctionOnSet(v, s)
           D(s) == SumFunctionOnSet(d, s)
           Bad == {n \in Nat : \E s \in SUBSET S : Cardinality(s) = n /\ D(s) # V(s) - W(s)}
<1>1. ASSUME NEW s \in SUBSET S PROVE IsFiniteSet(s) /\ W(s) \in Int /\ V(s) \in Int /\ D(s) \in Int
  <2>1. IsFiniteSet(s) /\ \A x \in s : w[x] \in Int /\ v[x] \in Int /\ d[x] \in Int
    BY FS_Subset
  <2> QED BY <2>1, SumOfInts
<1>2. W({}) = 0 /\ V({}) = 0 /\ D({}) = 0
  BY SumOfNone
<1>3. ASSUME NEW s \in SUBSET S, NEW x \in s
      PROVE  W(s) = w[x] + W(s \ {x}) /\ V(s) = v[x] + V(s \ {x}) /\ D(s) = d[x] + D(s \ {x})
  <2>1. IsFiniteSet(s) /\ \A y \in s : w[y] \in Int /\ v[y] \in Int /\ d[y] \in Int
    BY FS_Subset
  <2> QED BY <2>1, SumOfOneMore
<1> HIDE DEF W, V, D
<1>4. ASSUME Bad # {} PROVE FALSE
  <2>1. PICK n \in Bad : \A k \in Bad : n <= k
    BY <1>4, LeastOf
  <2>2. PICK s \in SUBSET S : Cardinality(s) = n /\ D(s) # V(s) - W(s)
    BY <2>1
  <2>3. PICK x \in s : TRUE
    BY <1>2, <2>2
  <2>4. Cardinality(s \ {x}) = n - 1 /\ n - 1 \in Nat
    BY <2>2, <2>3, SmallerBy
  <2>5. D(s \ {x}) = V(s \ {x}) - W(s \ {x})
    <3>1. ~(n <= n - 1) /\ s \ {x} \in SUBSET S
      BY <2>1
    <3> QED BY <2>1, <2>4, <3>1
  <2>6. W(s \ {x}) \in Int /\ V(s \ {x}) \in Int /\ d[x] = v[x] - w[x] /\ w[x] \in Int /\ v[x] \in Int
    BY <1>1, <2>3
  <2> QED BY <1>3, <2>2, <2>3, <2>5, <2>6
<1>5. D(S) = V(S) - W(S)
  <2>1. Cardinality(S) \in Nat /\ S \in SUBSET S
    BY FS_CardinalityType
  <2> QED BY <1>4, <2>1
<1> QED BY <1>5 DEF D, V, W

-----------------------------------------------------------------------------
Keys == ToSet(Accounts)
Hands == Keys \cup {None} \cup {StartLedger.tokens[a].owner : a \in DOMAIN StartLedger.tokens}
         \cup {ix.wallet : ix \in Instructions} \cup {ix.newAuthority : ix \in Instructions}
Movements == [asset : Assets, from : Hands, to : Hands, amount : Int]
TokenRows == [owner : Hands, mint : Mints, amount : Nat]

TokensTyped(tokens) ==
  DOMAIN tokens \subseteq Keys \ Wallets /\ tokens \in [DOMAIN tokens -> TokenRows]

LedgerTyped ==
  /\ DOMAIN tx = {"keys", "fee", "pre", "post", "instrs", "logs"}
  /\ tx = [keys |-> tx.keys, fee |-> Fee, pre |-> StartLedger, post |-> tx.post, instrs |-> tx.instrs, logs |-> tx.logs]
  /\ tx.keys # <<>> /\ ToSet(tx.keys) = Keys /\ tx.keys \in Seq(Keys)
  /\ tx.post = [lamports |-> tx.post.lamports, tokens |-> tx.post.tokens]
  /\ tx.post.lamports \in [Keys -> Int] /\ TokensTyped(tx.post.tokens)
  /\ tx.instrs \in Seq(Instructions) /\ moves \in Seq(Movements)

(* The lamports and the tokens of a wallet are what it had at the start    *)
(* and what the instructions moved.                                        *)
LamportsTrue ==
  \A w \in Wallets :
    tx.post.lamports[w] - StartLedger.lamports[w] + (IF Head(tx.keys) = w THEN Fee ELSE 0) = Gained(w, SOL)

TokensTrue ==
  \A w \in Wallets, m \in Mints : Owned(tx.post, w, m) - Owned(StartLedger, w, m) = Gained(w, m)

-----------------------------------------------------------------------------
GainIn(list, w, a) == SumFunctionOnSet([i \in DOMAIN list |-> GainOf(list[i], w, a)], DOMAIN list)

LEMMA GainedIs == \A w, a : Gained(w, a) = GainIn(moves, w, a)
BY DEF Gained, GainIn, Sum, SumFunction

LEMMA GainTyped == ASSUME NEW mv \in Movements, NEW w, NEW a PROVE GainOf(mv, w, a) \in Int
BY DEF GainOf, Movements

LEMMA GainGrows ==
  ASSUME NEW list \in Seq(Movements), NEW mv \in Movements, NEW w, NEW a
  PROVE  /\ GainIn(list \o <<mv>>, w, a) = GainIn(list, w, a) + GainOf(mv, w, a)
         /\ GainIn(list, w, a) \in Int /\ list \o <<mv>> \in Seq(Movements)
<1> DEFINE long == list \o <<mv>>
           n == Len(list)
           f == [i \in DOMAIN list |-> GainOf(list[i], w, a)]
           g == [i \in DOMAIN long |-> GainOf(long[i], w, a)]
<1>1. /\ long \in Seq(Movements) /\ DOMAIN list = 1 .. n /\ DOMAIN long = 1 .. (n + 1) /\ n \in Nat
      /\ \A i \in 1 .. n : long[i] = list[i]
      /\ long[n + 1] = mv
  OBVIOUS
<1> HIDE DEF long, n
<1>2. IsFiniteSet(1 .. n) /\ IsFiniteSet(1 .. (n + 1))
  BY <1>1, FS_Interval
<1>3. \A i \in 1 .. (n + 1) : long[i] \in Movements
  BY <1>1
<1>4. \A i \in 1 .. (n + 1) : g[i] \in Int /\ g[i] = GainOf(long[i], w, a)
  BY <1>1, <1>3, GainTyped
<1>5. \A i \in 1 .. n : g[i] = f[i]
  BY <1>1
<1> HIDE DEF f, g
<1>6. (1 .. (n + 1)) \ {n + 1} = 1 .. n /\ n + 1 \in 1 .. (n + 1) /\ 1 .. n \subseteq 1 .. (n + 1)
  BY <1>1
<1>7. SumFunctionOnSet(g, 1 .. (n + 1)) = g[n + 1] + SumFunctionOnSet(g, 1 .. n)
  <2> DEFINE S == 1 .. (n + 1)
             T == 1 .. n
             x == n + 1
  <2>1. IsFiniteSet(S) /\ x \in S /\ S \ {x} = T /\ \A i \in S : g[i] \in Int
    BY <1>2, <1>4, <1>6
  <2> HIDE DEF S, T, x
  <2>2. SumFunctionOnSet(g, S) = g[x] + SumFunctionOnSet(g, S \ {x})
    BY <2>1, SumOfOneMore
  <2> QED BY <2>1, <2>2 DEF S, T, x
<1>8. SumFunctionOnSet(g, 1 .. n) = SumFunctionOnSet(f, 1 .. n) /\ SumFunctionOnSet(f, 1 .. n) \in Int
  <2> DEFINE T == 1 .. n
  <2>1. IsFiniteSet(T) /\ (\A i \in T : g[i] = f[i]) /\ (\A i \in T : f[i] \in Int)
    BY <1>2, <1>4, <1>5, <1>6
  <2> HIDE DEF T
  <2>2. SumFunctionOnSet(g, T) = SumFunctionOnSet(f, T) /\ SumFunctionOnSet(f, T) \in Int
    BY <2>1, SumOfSame, SumOfInts
  <2> QED BY <2>2 DEF T
<1>9. g[n + 1] = GainOf(mv, w, a) /\ g[n + 1] \in Int
  BY <1>1, <1>4, <1>6
<1>10. GainIn(list, w, a) = SumFunctionOnSet(f, 1 .. n) /\ GainIn(long, w, a) = SumFunctionOnSet(g, 1 .. (n + 1))
  BY <1>1 DEF GainIn, f, g
<1> QED BY <1>1, <1>7, <1>8, <1>9, <1>10 DEF long

(* What an account has of a mint for a wallet.                             *)
Share(tokens, a, w, m) ==
  IF a \in DOMAIN tokens /\ tokens[a].owner = w /\ tokens[a].mint = m THEN tokens[a].amount ELSE 0
Shares(tokens, w, m) == [a \in Keys |-> Share(tokens, a, w, m)]

LEMMA KeysFinite == IsFiniteSet(Keys)
<1>1. Accounts \in Seq(Keys)
  BY StartAssumption DEF Keys
<1>2. DOMAIN Accounts = 1 .. Len(Accounts) /\ Len(Accounts) \in Nat
  BY <1>1
<1>3. IsFiniteSet(DOMAIN Accounts)
  BY <1>2, FS_Interval
<1>4. Keys = {Accounts[i] : i \in DOMAIN Accounts}
  BY DEF Keys, ToSet
<1> DEFINE f == [i \in DOMAIN Accounts |-> Accounts[i]]
<1>5. f \in Surjection(DOMAIN Accounts, Keys)
  BY <1>4 DEF Surjection
<1> QED BY <1>3, <1>5, FS_Surjection

LEMMA SharesTyped ==
  ASSUME NEW tokens, TokensTyped(tokens), NEW w, NEW m
  PROVE  \A a \in Keys : Shares(tokens, w, m)[a] \in Int /\ Shares(tokens, w, m)[a] = Share(tokens, a, w, m)
BY DEF Shares, Share, TokensTyped, TokenRows

LEMMA OwnedIs ==
  ASSUME NEW side, TokensTyped(side.tokens), NEW w, NEW m
  PROVE  Owned(side, w, m) = SumFunctionOnSet(Shares(side.tokens, w, m), Keys) /\ Owned(side, w, m) \in Int
<1> DEFINE T == OwnedBy(side, w, m)
           s == Shares(side.tokens, w, m)
           f == [a \in T |-> side.tokens[a].amount]
<1>1. T \subseteq Keys /\ (\A a \in T : s[a] = f[a]) /\ (\A a \in Keys \ T : s[a] = 0) /\ (\A a \in Keys : s[a] \in Int)
  BY SharesTyped DEF OwnedBy, TokensTyped, Shares, Share
<1>2. Owned(side, w, m) = SumFunctionOnSet(f, T)
  BY DEF Owned, Sum, SumFunction
<1> HIDE DEF T, s, f
<1>3. IsFiniteSet(T)
  BY <1>1, KeysFinite, FS_Subset
<1>4. SumFunctionOnSet(s, T) = SumFunctionOnSet(f, T)
  BY <1>1, <1>3, SumOfSame
<1>5. SumFunctionOnSet(s, Keys) = SumFunctionOnSet(s, T) /\ SumFunctionOnSet(s, Keys) \in Int
  BY <1>1, KeysFinite, SumWithoutNothing, SumOfInts
<1> QED BY <1>2, <1>4, <1>5 DEF s

-----------------------------------------------------------------------------
(* Filters keep what passes.                                               *)
LEMMA Kept ==
  ASSUME NEW T, NEW s \in Seq(T), NEW S, S \subseteq DOMAIN s
  PROVE  /\ SelectAt(s, S) \in Seq(T)
         /\ \A k \in DOMAIN SelectAt(s, S) : \E i \in S : SelectAt(s, S)[k] = s[i]
         /\ \A i \in S : \E k \in DOMAIN SelectAt(s, S) : SelectAt(s, S)[k] = s[i]
         /\ SelectAt(s, S) = <<>> <=> S = {}
<1> DEFINE q == SelectAt(s, S)
<1>1. /\ IsFiniteSet(S) /\ S \subseteq Int /\ Cardinality(S) \in Nat /\ q \in Seq(T) /\ Len(q) = Cardinality(S)
      /\ \A k \in 1 .. Cardinality(S) : Nth(S, k) \in S /\ q[k] = s[Nth(S, k)]
  BY Selected
<1>2. \A i \in S : \E k \in 1 .. Cardinality(S) : Nth(S, k) = i
  BY <1>1, NthOnto
<1> HIDE DEF q
<1>3. DOMAIN q = 1 .. Cardinality(S)
  BY <1>1
<1>4. \A k \in DOMAIN q : \E i \in S : q[k] = s[i]
  BY <1>1, <1>3
<1>5. \A i \in S : \E k \in DOMAIN q : q[k] = s[i]
  BY <1>1, <1>2, <1>3
<1>6. q = <<>> <=> Cardinality(S) = 0
  BY <1>1
<1>7. Cardinality(S) = 0 <=> S = {}
  BY <1>1, FS_EmptySet
<1> QED BY <1>1, <1>4, <1>5, <1>6, <1>7 DEF q

-----------------------------------------------------------------------------
(* The start.                                                              *)

LEMMA KeysOfPayer ==
  ASSUME NEW payer \in Wallets
  PROVE  LET keys == <<payer>> \o Where(Accounts, LAMBDA a : a # payer)
         IN  keys # <<>> /\ keys \in Seq(Keys) /\ ToSet(keys) = Keys /\ Head(keys) = payer
<1> DEFINE S == {k \in DOMAIN Accounts : Accounts[k] # payer}
           q == SelectAt(Accounts, S)
           keys == <<payer>> \o q
<1>1. Where(Accounts, LAMBDA a : a # payer) = q
  BY DEF Where
<1>2. Accounts \in Seq(Keys) /\ payer \in Keys /\ S \subseteq DOMAIN Accounts
  BY StartAssumption DEF Keys
<1> HIDE DEF S
<1>3. /\ q \in Seq(Keys)
      /\ \A k \in DOMAIN q : \E i \in S : q[k] = Accounts[i]
      /\ \A i \in S : \E k \in DOMAIN q : q[k] = Accounts[i]
  BY <1>2, Kept
<1>4. Keys = {Accounts[i] : i \in DOMAIN Accounts}
  BY DEF Keys, ToSet
<1> HIDE DEF q
<1>5. keys \in Seq(Keys) /\ keys # <<>> /\ Head(keys) = payer /\ Len(keys) = Len(q) + 1 /\ keys[1] = payer
  BY <1>2, <1>3
<1>6. \A k \in DOMAIN q : k + 1 \in DOMAIN keys /\ keys[k + 1] = q[k]
  BY <1>2, <1>3
<1>7. \A a \in Keys : a \in ToSet(keys)
  <2> TAKE a \in Keys
  <2>1. CASE a = payer
    BY <1>5, <2>1 DEF ToSet
  <2>2. CASE a # payer
    <3>1. PICK i \in S : a = Accounts[i]
      BY <1>4, <2>2 DEF S
    <3>2. PICK k \in DOMAIN q : q[k] = a
      BY <1>3, <3>1
    <3> QED BY <1>6, <3>2 DEF ToSet
  <2> QED BY <2>1, <2>2
<1>8. ToSet(keys) \subseteq Keys
  BY <1>5 DEF ToSet
<1> QED BY <1>1, <1>5, <1>7, <1>8

LEMMA StartTyped ==
  /\ StartLedger = [lamports |-> StartLedger.lamports, tokens |-> StartLedger.tokens]
  /\ StartLedger.lamports \in [Keys -> Int] /\ TokensTyped(StartLedger.tokens)
<1>1. TokensTyped(StartLedger.tokens)
  <2> DEFINE t == StartLedger.tokens
  <2>1. t = [a \in DOMAIN t |-> t[a]]
    BY StartAssumption
  <2>2. \A a \in DOMAIN t : t[a] \in TokenRows
    BY StartAssumption DEF TokenRows, Hands
  <2>3. DOMAIN t \subseteq Keys \ Wallets
    BY StartAssumption DEF Keys
  <2> HIDE DEF t
  <2> QED BY <2>1, <2>2, <2>3 DEF t, TokensTyped
<1>2. StartLedger = [lamports |-> StartLedger.lamports, tokens |-> StartLedger.tokens] /\ StartLedger.lamports \in [Keys -> Int]
  BY StartAssumption DEF Keys
<1> QED BY <1>1, <1>2

(* One more instruction, what it made of the ledger, and what it moved.    *)
SideTyped(side) ==
  /\ side = [lamports |-> side.lamports, tokens |-> side.tokens]
  /\ side.lamports \in [Keys -> Int] /\ TokensTyped(side.tokens)

LEMMA Ledgered ==
  ASSUME NEW k, NEW f, NEW a, NEW b, NEW i, NEW l, NEW b2, NEW i2, NEW l2
  PROVE  [[keys |-> k, fee |-> f, pre |-> a, post |-> b, instrs |-> i, logs |-> l] EXCEPT !.post = b2, !.instrs = i2, !.logs = l2]
           = [keys |-> k, fee |-> f, pre |-> a, post |-> b2, instrs |-> i2, logs |-> l2]
<1> DEFINE t0 == [keys |-> k, fee |-> f, pre |-> a, post |-> b, instrs |-> i, logs |-> l]
           t1 == [keys |-> k, fee |-> f, pre |-> a, post |-> b2, instrs |-> i, logs |-> l]
           t2 == [keys |-> k, fee |-> f, pre |-> a, post |-> b2, instrs |-> i2, logs |-> l]
           t3 == [keys |-> k, fee |-> f, pre |-> a, post |-> b2, instrs |-> i2, logs |-> l2]
<1>1. [t0 EXCEPT !.post = b2] = t1
  OBVIOUS
<1>2. [t1 EXCEPT !.instrs = i2] = t2
  OBVIOUS
<1>3. [t2 EXCEPT !.logs = l2] = t3
  OBVIOUS
<1> HIDE DEF t0, t1, t2, t3
<1>4. [t0 EXCEPT !.post = b2, !.instrs = i2, !.logs = l2] = [[[t0 EXCEPT !.post = b2] EXCEPT !.instrs = i2] EXCEPT !.logs = l2]
  OBVIOUS
<1>5. [t0 EXCEPT !.post = b2, !.instrs = i2, !.logs = l2] = t3
  BY <1>1, <1>2, <1>3, <1>4
<1> QED BY <1>5 DEF t0, t3

LEMMA StepTyped ==
  ASSUME LedgerTyped, NEW ix \in Instructions, NEW side, SideTyped(side), NEW moved \in Seq(Movements), Executed(ix, side, moved)
  PROVE  LedgerTyped' /\ tx'.post = side /\ tx'.keys = tx.keys /\ tx'.pre = StartLedger /\ moves' = moves \o moved
<1>1. tx' = [tx EXCEPT !.post = side, !.instrs = Append(@, ix), !.logs = IF ix.program = "bubblegum" THEN Append(@, ix.op) ELSE @]
      /\ moves' = moves \o moved
  BY DEF Executed
<1>2. /\ tx = [keys |-> tx.keys, fee |-> Fee, pre |-> StartLedger, post |-> tx.post, instrs |-> tx.instrs, logs |-> tx.logs]
      /\ tx.instrs \in Seq(Instructions) /\ moves \in Seq(Movements) /\ tx.keys # <<>> /\ ToSet(tx.keys) = Keys /\ tx.keys \in Seq(Keys)
  BY DEF LedgerTyped
<1> DEFINE noted == IF ix.program = "bubblegum" THEN Append(tx.logs, ix.op) ELSE tx.logs
<1>a. tx' = [tx EXCEPT !.post = side, !.instrs = Append(tx.instrs, ix), !.logs = noted]
  BY <1>1
<1> HIDE DEF noted
<1>b. tx' = [keys |-> tx.keys, fee |-> Fee, pre |-> StartLedger, post |-> side, instrs |-> Append(tx.instrs, ix), logs |-> noted]
  <2> DEFINE was == [keys |-> tx.keys, fee |-> Fee, pre |-> StartLedger, post |-> tx.post, instrs |-> tx.instrs, logs |-> tx.logs]
  <2>1. tx' = [was EXCEPT !.post = side, !.instrs = Append(tx.instrs, ix), !.logs = noted]
    BY <1>a, <1>2, Zenon
  <2> QED BY <2>1, Ledgered, Zenon
<1>3. /\ tx' = [keys |-> tx'.keys, fee |-> Fee, pre |-> StartLedger, post |-> tx'.post, instrs |-> tx'.instrs, logs |-> tx'.logs]
      /\ tx'.keys = tx.keys /\ tx'.post = side /\ tx'.instrs = Append(tx.instrs, ix) /\ tx'.pre = StartLedger
  BY <1>b
<1>4. tx'.instrs \in Seq(Instructions) /\ moves' \in Seq(Movements)
  BY <1>1, <1>2, <1>3
<1>5. TokensTyped(tx'.post.tokens) /\ tx'.post = [lamports |-> tx'.post.lamports, tokens |-> tx'.post.tokens]
      /\ tx'.post.lamports \in [Keys -> Int]
  BY <1>3 DEF SideTyped
<1>6. DOMAIN tx' = {"keys", "fee", "pre", "post", "instrs", "logs"}
  BY <1>3
<1>7. TokensTyped(tx.post.tokens)' /\ Keys' = Keys
  BY <1>5 DEF TokensTyped, Keys, TokenRows, Hands
<1>8. Movements' = Movements
  BY DEF Movements, Hands, Keys, Assets
<1> QED BY <1>1, <1>2, <1>3, <1>4, <1>5, <1>6, <1>7, <1>8 DEF LedgerTyped

LEMMA StepTrue ==
  ASSUME LedgerTyped, LamportsTrue, TokensTrue,
         NEW ix \in Instructions, NEW side, SideTyped(side), NEW mv \in Movements, Executed(ix, side, <<mv>>),
         \A w \in Wallets : side.lamports[w] = tx.post.lamports[w] + GainOf(mv, w, SOL),
         \A w \in Wallets, m \in Mints : Owned(side, w, m) = Owned(tx.post, w, m) + GainOf(mv, w, m)
  PROVE  LedgerTyped' /\ LamportsTrue' /\ TokensTrue'
<1>1. LedgerTyped' /\ tx'.post = side /\ tx'.keys = tx.keys /\ moves' = moves \o <<mv>>
  <2>1. <<mv>> \in Seq(Movements)
    OBVIOUS
  <2> QED BY <2>1, StepTyped
<1>2. \A w, a : Gained(w, a)' = GainIn(moves', w, a)
  BY DEF Gained, GainIn, Sum, SumFunction
<1>3. moves \in Seq(Movements) /\ SideTyped(tx.post)
  BY DEF LedgerTyped, SideTyped
<1>4. \A w, a : Gained(w, a)' = Gained(w, a) + GainOf(mv, w, a) /\ Gained(w, a) \in Int /\ GainOf(mv, w, a) \in Int
  BY <1>1, <1>2, <1>3, GainGrows, GainedIs, GainTyped
<1>5. Wallets \subseteq Keys /\ \A w \in Wallets : tx.post.lamports[w] \in Int /\ StartLedger.lamports[w] \in Int
  BY <1>3, StartTyped, StartAssumption DEF SideTyped, Keys
<1>6. Fee \in Int
  BY LedgerAssumption
<1>7. LamportsTrue'
  <2> SUFFICES ASSUME NEW w \in Wallets
               PROVE  tx'.post.lamports[w] - StartLedger.lamports[w] + (IF Head(tx'.keys) = w THEN Fee ELSE 0) = Gained(w, SOL)'
    BY DEF LamportsTrue, SOL
  <2>1. tx.post.lamports[w] - StartLedger.lamports[w] + (IF Head(tx.keys) = w THEN Fee ELSE 0) = Gained(w, SOL)
    BY DEF LamportsTrue
  <2>2. tx'.post.lamports[w] = tx.post.lamports[w] + GainOf(mv, w, SOL)
    BY <1>1
  <2> QED BY <1>1, <1>4, <1>5, <1>6, <2>1, <2>2
<1>8. TokensTrue'
  <2> SUFFICES ASSUME NEW w \in Wallets, NEW m \in Mints
               PROVE  Owned(tx'.post, w, m) - Owned(StartLedger, w, m) = Gained(w, m)'
    BY DEF TokensTrue, Owned, OwnedBy, Sum, SumFunction
  <2>1. Owned(tx.post, w, m) - Owned(StartLedger, w, m) = Gained(w, m)
    BY DEF TokensTrue
  <2>2. Owned(tx.post, w, m) \in Int /\ Owned(StartLedger, w, m) \in Int
    BY <1>3, StartTyped, OwnedIs DEF SideTyped
  <2> QED BY <1>1, <1>4, <2>1, <2>2
<1> QED BY <1>1, <1>7, <1>8

(* What a wallet holds of a mint, when one account changes, or two.        *)
LEMMA OwnedSame ==
  ASSUME NEW side, NEW after, TokensTyped(side.tokens), after.tokens = side.tokens, NEW w, NEW m
  PROVE  Owned(after, w, m) = Owned(side, w, m)
BY DEF Owned, OwnedBy

LEMMA OwnedAtOne ==
  ASSUME NEW side, NEW after, TokensTyped(side.tokens), TokensTyped(after.tokens), NEW w, NEW m, NEW x \in Keys,
         \A a \in Keys : a # x => Share(after.tokens, a, w, m) = Share(side.tokens, a, w, m)
  PROVE  Owned(after, w, m) = Owned(side, w, m) + (Share(after.tokens, x, w, m) - Share(side.tokens, x, w, m))
<1> DEFINE s == Shares(side.tokens, w, m)
           t == Shares(after.tokens, w, m)
<1>1. \A a \in Keys : s[a] \in Int /\ t[a] \in Int /\ s[a] = Share(side.tokens, a, w, m) /\ t[a] = Share(after.tokens, a, w, m)
  BY SharesTyped
<1>2. Owned(side, w, m) = SumFunctionOnSet(s, Keys) /\ Owned(after, w, m) = SumFunctionOnSet(t, Keys)
  BY OwnedIs
<1> HIDE DEF s, t
<1>3. \A a \in Keys : a # x => t[a] = s[a]
  BY <1>1
<1>4. SumFunctionOnSet(t, Keys) = SumFunctionOnSet(s, Keys) + (t[x] - s[x])
  BY <1>1, <1>3, KeysFinite, SumAtOne
<1> QED BY <1>1, <1>2, <1>4

LEMMA OwnedAtTwo ==
  ASSUME NEW side, NEW after, TokensTyped(side.tokens), TokensTyped(after.tokens), NEW w, NEW m,
         NEW x \in Keys, NEW y \in Keys, x # y,
         \A a \in Keys : a # x /\ a # y => Share(after.tokens, a, w, m) = Share(side.tokens, a, w, m)
  PROVE  Owned(after, w, m) = Owned(side, w, m) + (Share(after.tokens, x, w, m) - Share(side.tokens, x, w, m))
                              + (Share(after.tokens, y, w, m) - Share(side.tokens, y, w, m))
<1> DEFINE s == Shares(side.tokens, w, m)
           t == Shares(after.tokens, w, m)
<1>1. \A a \in Keys : s[a] \in Int /\ t[a] \in Int /\ s[a] = Share(side.tokens, a, w, m) /\ t[a] = Share(after.tokens, a, w, m)
  BY SharesTyped
<1>2. Owned(side, w, m) = SumFunctionOnSet(s, Keys) /\ Owned(after, w, m) = SumFunctionOnSet(t, Keys)
  BY OwnedIs
<1> HIDE DEF s, t
<1>3. \A a \in Keys : a # x /\ a # y => t[a] = s[a]
  BY <1>1
<1>4. SumFunctionOnSet(t, Keys) = SumFunctionOnSet(s, Keys) + (t[x] - s[x]) + (t[y] - s[y])
  BY <1>1, <1>3, KeysFinite, SumAtTwo
<1> QED BY <1>1, <1>2, <1>4

(* What a payment makes of the lamports.                                   *)
Flow(from, to, n, a) == (IF to = a THEN n ELSE 0) - (IF from = a THEN n ELSE 0)

LEMMA PayIs ==
  ASSUME NEW side, SideTyped(side), NEW from \in Keys, NEW to \in Keys, NEW n \in Int,
         NEW after, after = Pay(side, from, to, n)
  PROVE  /\ SideTyped(after) /\ after.tokens = side.tokens
         /\ \A a \in Keys : after.lamports[a] = side.lamports[a] + Flow(from, to, n, a)
<1> DEFINE l == side.lamports
           t == side.tokens
           l2 == [a \in DOMAIN l |-> l[a] + (IF a = to THEN n ELSE 0) - (IF a = from THEN n ELSE 0)]
<1>1. side = [lamports |-> l, tokens |-> t] /\ l \in [Keys -> Int] /\ TokensTyped(t)
  BY DEF SideTyped
<1>2. after = [side EXCEPT !.lamports = l2]
  BY DEF Pay
<1> HIDE DEF l, t
<1>3. l2 \in [Keys -> Int] /\ \A a \in Keys : l2[a] = l[a] + Flow(from, to, n, a)
  BY <1>1 DEF Flow
<1> HIDE DEF l2
<1>4. after = [lamports |-> l2, tokens |-> t]
  BY <1>1, <1>2
<1> QED BY <1>1, <1>3, <1>4 DEF SideTyped, l, t

LEMMA MoveIs == \A asset, from, to, n : Move(asset, from, to, n) = <<[asset |-> asset, from |-> from, to |-> to, amount |-> n]>>
BY DEF Move

LEMMA Payments ==
  ASSUME LedgerTyped, LamportsTrue, TokensTrue, NEW ix \in Instructions, NEW from \in Keys, NEW to \in Keys, NEW n \in Int,
         Executed(ix, Pay(tx.post, from, to, n), Move(SOL, from, to, n))
  PROVE  LedgerTyped' /\ LamportsTrue' /\ TokensTrue'
<1> DEFINE side == Pay(tx.post, from, to, n)
           mv == [asset |-> SOL, from |-> from, to |-> to, amount |-> n]
<1>1. SideTyped(tx.post)
  BY DEF LedgerTyped, SideTyped
<1>2. /\ SideTyped(side) /\ side.tokens = tx.post.tokens
      /\ \A a \in Keys : side.lamports[a] = tx.post.lamports[a] + Flow(from, to, n, a)
  <2>1. side = Pay(tx.post, from, to, n)
    OBVIOUS
  <2> HIDE DEF side
  <2> QED BY <1>1, <2>1, PayIs
<1>3. mv \in Movements /\ Executed(ix, side, <<mv>>)
  BY MoveIs DEF Movements, Hands, Assets
<1>4. \A w \in Wallets : side.lamports[w] = tx.post.lamports[w] + GainOf(mv, w, SOL)
  BY <1>2, StartAssumption DEF GainOf, Keys, Flow
<1>5. \A w, m : Owned(side, w, m) = Owned(tx.post, w, m)
  BY <1>1, <1>2, OwnedSame DEF SideTyped
<1>6. \A w, m : m # SOL => GainOf(mv, w, m) = 0
  BY DEF GainOf
<1>7. \A w \in Wallets, m \in Mints : Owned(side, w, m) = Owned(tx.post, w, m) + GainOf(mv, w, m)
  <2> TAKE w \in Wallets, m \in Mints
  <2>1. m # SOL
    BY LedgerAssumption
  <2>2. Owned(tx.post, w, m) \in Int
    BY <1>1, OwnedIs DEF SideTyped
  <2> QED BY <1>5, <1>6, <2>1, <2>2
<1> HIDE DEF side, mv
<1> QED BY <1>2, <1>3, <1>4, <1>7, StepTrue

LEMMA PaysTrue ==
  ASSUME LedgerTyped, LamportsTrue, TokensTrue, NEW ix \in Instructions, SystemTransfer(ix) \/ DirectPay(ix)
  PROVE  LedgerTyped' /\ LamportsTrue' /\ TokensTrue'
<1>1. CASE SystemTransfer(ix)
  <2>1. ix.source \in Keys /\ ix.destination \in Keys /\ ix.lamports \in Int
    BY <1>1, InstructionAssumption DEF SystemTransfer, Keys
  <2> QED BY <1>1, <2>1, Payments DEF SystemTransfer
<1>2. CASE DirectPay(ix)
  <2>1. ix.from \in Keys /\ ix.to \in Keys /\ ix.lamports \in Int
    BY <1>2, InstructionAssumption DEF DirectPay, Keys
  <2> QED BY <1>2, <2>1, Payments DEF DirectPay
<1> QED BY <1>1, <1>2

(* Where the tokens change, and no lamports do.                            *)
LEMMA TokensTouched ==
  ASSUME NEW side, SideTyped(side), NEW tokens, TokensTyped(tokens), NEW after, after = [side EXCEPT !.tokens = tokens]
  PROVE  SideTyped(after) /\ after.lamports = side.lamports /\ after.tokens = tokens
<1>1. side = [lamports |-> side.lamports, tokens |-> side.tokens]
  BY DEF SideTyped
<1>2. after = [lamports |-> side.lamports, tokens |-> tokens]
  BY <1>1
<1> QED BY <1>2 DEF SideTyped

LEMMA TokensStep ==
  ASSUME LedgerTyped, LamportsTrue, TokensTrue, NEW ix \in Instructions, NEW tokens, TokensTyped(tokens),
         NEW m \in Mints, NEW from \in Hands, NEW to \in Hands, NEW n \in Int,
         Executed(ix, [tx.post EXCEPT !.tokens = tokens], Move(m, from, to, n)),
         \A side : side.tokens = tokens => \A w \in Wallets, o \in Mints :
           Owned(side, w, o) = Owned(tx.post, w, o) + GainOf([asset |-> m, from |-> from, to |-> to, amount |-> n], w, o)
  PROVE  LedgerTyped' /\ LamportsTrue' /\ TokensTrue'
<1> DEFINE side == [tx.post EXCEPT !.tokens = tokens]
           mv == [asset |-> m, from |-> from, to |-> to, amount |-> n]
<1>1. SideTyped(tx.post)
  BY DEF LedgerTyped, SideTyped
<1>2. SideTyped(side) /\ side.lamports = tx.post.lamports /\ side.tokens = tokens
  BY <1>1, TokensTouched
<1>3. mv \in Movements /\ Executed(ix, side, <<mv>>)
  BY MoveIs DEF Movements, Assets
<1>4. \A w \in Wallets : side.lamports[w] = tx.post.lamports[w] + GainOf(mv, w, SOL)
  <2> TAKE w \in Wallets
  <2>1. GainOf(mv, w, SOL) = 0
    BY LedgerAssumption DEF GainOf
  <2>2. tx.post.lamports[w] \in Int
    BY <1>1, StartAssumption DEF SideTyped, Keys
  <2> QED BY <1>2, <2>1, <2>2
<1>7. \A w \in Wallets, o \in Mints : Owned(side, w, o) = Owned(tx.post, w, o) + GainOf(mv, w, o)
  BY <1>2
<1> HIDE DEF side, mv
<1> QED BY <1>2, <1>3, <1>4, <1>7, StepTrue

LEMMA MarkTrue ==
  ASSUME LedgerTyped, LamportsTrue, TokensTrue, NEW ix \in Instructions, Mark(ix)
  PROVE  LedgerTyped' /\ LamportsTrue' /\ TokensTrue'
<1>1. Executed(ix, tx.post, <<>>) /\ SideTyped(tx.post) /\ moves \in Seq(Movements)
  BY DEF Mark, LedgerTyped, SideTyped
<1>0. <<>> \in Seq(Movements)
  OBVIOUS
<1>2. LedgerTyped' /\ tx'.post = tx.post /\ tx'.keys = tx.keys /\ moves' = moves \o <<>>
  BY <1>0, <1>1, StepTyped
<1>3. moves' = moves
  BY <1>1, <1>2
<1>4. \A w, a : Gained(w, a)' = Gained(w, a)
  BY <1>3 DEF Gained, Sum, SumFunction
<1>5. LamportsTrue'
  BY <1>2, <1>4 DEF LamportsTrue, SOL
<1>6. \A w, m : Owned(tx.post, w, m)' = Owned(tx.post, w, m)
  BY <1>2 DEF Owned, OwnedBy, Sum, SumFunction
<1>7. TokensTrue'
  <2> SUFFICES ASSUME NEW w \in Wallets, NEW m \in Mints
               PROVE  Owned(tx.post, w, m)' - Owned(StartLedger, w, m) = Gained(w, m)'
    BY DEF TokensTrue, Owned, OwnedBy, Sum, SumFunction
  <2> QED BY <1>4, <1>6 DEF TokensTrue
<1> QED BY <1>2, <1>5, <1>7

(* A row of the token accounts replaced.                                   *)
LEMMA RowReplaced ==
  ASSUME NEW side, SideTyped(side), NEW a \in DOMAIN side.tokens, NEW row \in TokenRows, NEW after,
         after = [side EXCEPT !.tokens[a] = row]
  PROVE  /\ SideTyped(after) /\ after.lamports = side.lamports /\ DOMAIN after.tokens = DOMAIN side.tokens
         /\ after = [side EXCEPT !.tokens = after.tokens]
         /\ \A b \in DOMAIN side.tokens : after.tokens[b] = IF b = a THEN row ELSE side.tokens[b]
<1> DEFINE l == side.lamports
           t == side.tokens
           t2 == [t EXCEPT ![a] = row]
<1>1. side = [lamports |-> l, tokens |-> t] /\ l \in [Keys -> Int] /\ TokensTyped(t) /\ a \in DOMAIN t
  BY DEF SideTyped
<1>2. after = [lamports |-> l, tokens |-> t2]
  BY <1>1
<1>3. DOMAIN t2 = DOMAIN t /\ t2 = [b \in DOMAIN t |-> IF b = a THEN row ELSE t[b]]
  BY <1>1 DEF TokensTyped
<1> HIDE DEF t2, t, l
<1>4. \A b \in DOMAIN t : t2[b] = IF b = a THEN row ELSE t[b]
  BY <1>3
<1>5. t2 \in [DOMAIN t2 -> TokenRows] /\ DOMAIN t2 \subseteq Keys \ Wallets
  BY <1>1, <1>3, <1>4 DEF TokensTyped
<1>6. SideTyped(after)
  BY <1>1, <1>2, <1>5 DEF SideTyped, TokensTyped
<1>7. after.tokens = t2 /\ after.lamports = l
  BY <1>2
<1>8. [side EXCEPT !.tokens = t2] = after
  BY <1>1, <1>2
<1> QED BY <1>3, <1>4, <1>6, <1>7, <1>8 DEF t, l

LEMMA CreditIs ==
  ASSUME NEW side, SideTyped(side), NEW a \in DOMAIN side.tokens, NEW n \in Int, side.tokens[a].amount + n >= 0,
         NEW after, after = Credit(side, a, n), NEW row, row = side.tokens[a]
  PROVE  /\ SideTyped(after) /\ after = [side EXCEPT !.tokens = after.tokens] /\ DOMAIN after.tokens = DOMAIN side.tokens
         /\ after.tokens[a] = [owner |-> row.owner, mint |-> row.mint, amount |-> row.amount + n]
         /\ row = [owner |-> row.owner, mint |-> row.mint, amount |-> row.amount]
         /\ row.owner \in Hands /\ row.mint \in Mints /\ row.amount \in Nat
         /\ \A b \in DOMAIN side.tokens : b # a => after.tokens[b] = side.tokens[b]
<1> DEFINE more == [owner |-> row.owner, mint |-> row.mint, amount |-> row.amount + n]
<1>1. row \in TokenRows
  BY DEF SideTyped, TokensTyped
<1>2. row = [owner |-> row.owner, mint |-> row.mint, amount |-> row.amount] /\ row.owner \in Hands /\ row.mint \in Mints /\ row.amount \in Nat
  BY <1>1 DEF TokenRows
<1>3. after = [side EXCEPT !.tokens[a] = [row EXCEPT !.amount = row.amount + n]]
  BY DEF Credit
<1>4. [row EXCEPT !.amount = row.amount + n] = more
  BY <1>2
<1>5. more \in TokenRows
  BY <1>2 DEF TokenRows
<1>6. after = [side EXCEPT !.tokens[a] = more]
  BY <1>3, <1>4
<1> HIDE DEF more
<1>7. /\ SideTyped(after) /\ after.lamports = side.lamports /\ DOMAIN after.tokens = DOMAIN side.tokens
      /\ after = [side EXCEPT !.tokens = after.tokens]
      /\ \A b \in DOMAIN side.tokens : after.tokens[b] = IF b = a THEN more ELSE side.tokens[b]
  BY <1>5, <1>6, RowReplaced
<1> QED BY <1>2, <1>7 DEF more

LEMMA MintsTrue ==
  ASSUME LedgerTyped, LamportsTrue, TokensTrue, NEW ix \in Instructions, NEW n \in Int, NEW a \in DOMAIN tx.post.tokens,
         tx.post.tokens[a].amount + n >= 0, NEW from \in Hands, NEW to \in Hands, NEW q \in Int,
         Executed(ix, Credit(tx.post, a, n), Move(tx.post.tokens[a].mint, from, to, q)),
         \A w \in Wallets : (IF to = w THEN q ELSE 0) - (IF from = w THEN q ELSE 0) = IF tx.post.tokens[a].owner = w THEN n ELSE 0
  PROVE  LedgerTyped' /\ LamportsTrue' /\ TokensTrue'
<1> DEFINE side == tx.post
           after == Credit(side, a, n)
           tokens == after.tokens
           row == side.tokens[a]
           mv == [asset |-> row.mint, from |-> from, to |-> to, amount |-> q]
<1>1. SideTyped(side) /\ a \in DOMAIN side.tokens /\ side.tokens[a].amount + n >= 0
  BY DEF LedgerTyped, SideTyped
<1> HIDE DEF side
<1>2. /\ SideTyped(after) /\ after = [side EXCEPT !.tokens = tokens] /\ DOMAIN tokens = DOMAIN side.tokens
      /\ tokens[a] = [owner |-> row.owner, mint |-> row.mint, amount |-> row.amount + n]
      /\ row.owner \in Hands /\ row.mint \in Mints /\ row.amount \in Nat
      /\ \A b \in DOMAIN side.tokens : b # a => tokens[b] = side.tokens[b]
  <2>1. after = Credit(side, a, n) /\ row = side.tokens[a]
    OBVIOUS
  <2> HIDE DEF after, row
  <2> QED BY <1>1, <2>1, CreditIs
<1>3. TokensTyped(tokens) /\ a \in Keys /\ TokensTyped(side.tokens) /\ a \in DOMAIN side.tokens
  BY <1>1, <1>2 DEF SideTyped, TokensTyped
<1>e. Executed(ix, [tx.post EXCEPT !.tokens = tokens], Move(row.mint, from, to, q))
  BY <1>2 DEF side
<1> HIDE DEF after, tokens, side
<1>4. ASSUME NEW other, other.tokens = tokens, NEW w \in Wallets, NEW o \in Mints
      PROVE  Owned(other, w, o) = Owned(side, w, o) + GainOf(mv, w, o)
  <2>1. \A b \in Keys : b # a => Share(other.tokens, b, w, o) = Share(side.tokens, b, w, o)
    BY <1>2, <1>4 DEF Share
  <2>2. Owned(other, w, o) = Owned(side, w, o) + (Share(other.tokens, a, w, o) - Share(side.tokens, a, w, o))
    BY <1>3, <1>4, <2>1, OwnedAtOne
  <2>3. Share(other.tokens, a, w, o) = IF row.owner = w /\ row.mint = o THEN row.amount + n ELSE 0
    BY <1>2, <1>3, <1>4 DEF Share
  <2>4. Share(side.tokens, a, w, o) = IF row.owner = w /\ row.mint = o THEN row.amount ELSE 0
    BY <1>3 DEF Share
  <2>5. GainOf(mv, w, o) = IF row.owner = w /\ row.mint = o THEN n ELSE 0
    <3>1. (IF to = w THEN q ELSE 0) - (IF from = w THEN q ELSE 0) = IF row.owner = w THEN n ELSE 0
      BY DEF side
    <3> QED BY <3>1 DEF GainOf
  <2> HIDE DEF row, mv
  <2> QED BY <1>2, <2>2, <2>3, <2>4, <2>5
<1>5. \A other : other.tokens = tokens => \A w \in Wallets, o \in Mints : Owned(other, w, o) = Owned(side, w, o) + GainOf(mv, w, o)
  BY <1>4
<1> HIDE DEF row
<1> QED BY <1>2, <1>3, <1>5, <1>e, TokensStep DEF side

LEMMA MintToTrue ==
  ASSUME LedgerTyped, LamportsTrue, TokensTrue, NEW ix \in Instructions, MintTo(ix) \/ BurnTokens(ix)
  PROVE  LedgerTyped' /\ LamportsTrue' /\ TokensTrue'
<1> DEFINE a == ix.account
           row == tx.post.tokens[a]
<1>1. ix.amount \in Nat /\ a \in DOMAIN tx.post.tokens /\ row.mint = ix.mint
  BY InstructionAssumption DEF MintTo, BurnTokens, Open
<1>2. row.amount \in Nat /\ row.owner \in Hands /\ None \in Hands
  BY <1>1 DEF LedgerTyped, TokensTyped, TokenRows, Hands
<1>3. \A w \in Wallets : w # None
  BY LedgerAssumption
<1>4. CASE MintTo(ix)
  <2>1. Executed(ix, Credit(tx.post, a, ix.amount), Move(row.mint, None, row.owner, ix.amount))
    BY <1>1, <1>4 DEF MintTo
  <2>2. row.amount + ix.amount >= 0 /\ ix.amount \in Int
    BY <1>1, <1>2
  <2>3. \A w \in Wallets : (IF row.owner = w THEN ix.amount ELSE 0) - (IF None = w THEN ix.amount ELSE 0) = IF row.owner = w THEN ix.amount ELSE 0
    BY <1>1, <1>3
  <2> HIDE DEF a
  <2> QED BY <1>1, <1>2, <2>1, <2>2, <2>3, MintsTrue
<1>5. CASE BurnTokens(ix)
  <2>1. Executed(ix, Credit(tx.post, a, -ix.amount), Move(row.mint, row.owner, None, ix.amount))
    BY <1>1, <1>5 DEF BurnTokens
  <2>2. row.amount + (-ix.amount) >= 0 /\ ix.amount \in Int /\ -ix.amount \in Int
    BY <1>1, <1>2, <1>5 DEF BurnTokens
  <2>3. \A w \in Wallets : (IF None = w THEN ix.amount ELSE 0) - (IF row.owner = w THEN ix.amount ELSE 0) = IF row.owner = w THEN -ix.amount ELSE 0
    BY <1>1, <1>3
  <2> HIDE DEF a
  <2> QED BY <1>1, <1>2, <2>1, <2>2, <2>3, MintsTrue
<1> QED BY <1>4, <1>5

LEMMA TokenMoveTrue ==
  ASSUME LedgerTyped, LamportsTrue, TokensTrue, NEW ix \in Instructions, TokenMove(ix)
  PROVE  LedgerTyped' /\ LamportsTrue' /\ TokensTrue'
<1> DEFINE side == tx.post
           a == ix.source
           b == ix.destination
           n == ix.amount
           s == side.tokens[a]
           d == side.tokens[b]
           one == Credit(side, a, -n)
           two == Credit(one, b, n)
           mv == [asset |-> s.mint, from |-> s.owner, to |-> d.owner, amount |-> n]
<1>1. /\ n \in Nat /\ a \in DOMAIN side.tokens /\ b \in DOMAIN side.tokens /\ a # b
      /\ s.mint = d.mint /\ s.amount >= n /\ Executed(ix, two, Move(s.mint, s.owner, d.owner, n))
  BY InstructionAssumption DEF TokenMove, Open
<1>2. SideTyped(side)
  BY DEF LedgerTyped, SideTyped
<1>3. s.amount \in Nat /\ d.amount \in Nat /\ s.owner \in Hands /\ d.owner \in Hands /\ s.mint \in Mints
  BY <1>1, <1>2 DEF SideTyped, TokensTyped, TokenRows
<1>4. s.amount + (-n) >= 0 /\ -n \in Int /\ d.amount + n >= 0 /\ n \in Int
  BY <1>1, <1>3
<1>d. one = Credit(side, a, -n) /\ s = side.tokens[a] /\ two = Credit(one, b, n) /\ d = side.tokens[b]
  OBVIOUS
<1> HIDE DEF side, a, b, n, s, d, one, two
<1>5. /\ SideTyped(one) /\ one = [side EXCEPT !.tokens = one.tokens] /\ DOMAIN one.tokens = DOMAIN side.tokens
      /\ one.tokens[a] = [owner |-> s.owner, mint |-> s.mint, amount |-> s.amount + (-n)]
      /\ \A c \in DOMAIN side.tokens : c # a => one.tokens[c] = side.tokens[c]
  BY <1>1, <1>2, <1>4, <1>d, CreditIs
<1>6. b \in DOMAIN one.tokens /\ one.tokens[b] = d /\ one.tokens[b].amount + n >= 0
  BY <1>1, <1>4, <1>5, <1>d
<1>7. /\ SideTyped(two) /\ two = [one EXCEPT !.tokens = two.tokens] /\ DOMAIN two.tokens = DOMAIN side.tokens
      /\ two.tokens[b] = [owner |-> d.owner, mint |-> d.mint, amount |-> d.amount + n]
      /\ \A c \in DOMAIN side.tokens : c # b => two.tokens[c] = one.tokens[c]
  BY <1>4, <1>5, <1>6, <1>d, CreditIs
<1> DEFINE tokens == two.tokens
<1>8. two = [side EXCEPT !.tokens = tokens]
  <2>1. side = [lamports |-> side.lamports, tokens |-> side.tokens]
    BY <1>2 DEF SideTyped
  <2>2. one = [lamports |-> side.lamports, tokens |-> one.tokens]
    BY <1>5, <2>1
  <2>3. two = [lamports |-> side.lamports, tokens |-> two.tokens]
    BY <1>7, <2>2
  <2> QED BY <2>1, <2>3
<1>9. TokensTyped(tokens) /\ TokensTyped(side.tokens) /\ a \in Keys /\ b \in Keys
  BY <1>1, <1>2, <1>7 DEF SideTyped, TokensTyped
<1>10. DOMAIN tokens = DOMAIN side.tokens /\ tokens[b] = [owner |-> d.owner, mint |-> d.mint, amount |-> d.amount + n]
       /\ tokens[a] = [owner |-> s.owner, mint |-> s.mint, amount |-> s.amount + (-n)]
       /\ \A c \in DOMAIN side.tokens : c # a /\ c # b => tokens[c] = side.tokens[c]
  BY <1>1, <1>5, <1>7
<1> HIDE DEF tokens
<1>11. ASSUME NEW other, other.tokens = tokens, NEW w \in Wallets, NEW o \in Mints
       PROVE  Owned(other, w, o) = Owned(side, w, o) + GainOf(mv, w, o)
  <2>1. \A c \in Keys : c # a /\ c # b => Share(other.tokens, c, w, o) = Share(side.tokens, c, w, o)
    BY <1>10, <1>11 DEF Share
  <2>2. Owned(other, w, o) = Owned(side, w, o) + (Share(other.tokens, a, w, o) - Share(side.tokens, a, w, o))
                              + (Share(other.tokens, b, w, o) - Share(side.tokens, b, w, o))
    BY <1>1, <1>9, <1>11, <2>1, OwnedAtTwo
  <2>3. Share(other.tokens, a, w, o) = (IF s.owner = w /\ s.mint = o THEN s.amount + (-n) ELSE 0)
        /\ Share(side.tokens, a, w, o) = (IF s.owner = w /\ s.mint = o THEN s.amount ELSE 0)
    BY <1>1, <1>10, <1>11, <1>d DEF Share
  <2>4. Share(other.tokens, b, w, o) = (IF d.owner = w /\ d.mint = o THEN d.amount + n ELSE 0)
        /\ Share(side.tokens, b, w, o) = (IF d.owner = w /\ d.mint = o THEN d.amount ELSE 0)
    BY <1>1, <1>10, <1>11, <1>d DEF Share
  <2>5. GainOf(mv, w, o) = IF s.mint = o THEN (IF d.owner = w THEN n ELSE 0) - (IF s.owner = w THEN n ELSE 0) ELSE 0
    BY DEF GainOf
  <2> HIDE DEF mv
  <2>6. Owned(side, w, o) \in Int
    BY <1>2, OwnedIs DEF SideTyped
  <2> QED BY <1>1, <1>3, <1>4, <2>2, <2>3, <2>4, <2>5, <2>6
<1>12. \A other : other.tokens = tokens => \A w \in Wallets, o \in Mints : Owned(other, w, o) = Owned(side, w, o) + GainOf(mv, w, o)
  BY <1>11
<1> QED BY <1>1, <1>3, <1>4, <1>8, <1>9, <1>12, TokensStep DEF side

LEMMA SetOwnerTrue ==
  ASSUME LedgerTyped, LamportsTrue, TokensTrue, NEW ix \in Instructions, SetOwner(ix)
  PROVE  LedgerTyped' /\ LamportsTrue' /\ TokensTrue'
<1> DEFINE side == tx.post
           a == ix.account
           row == side.tokens[a]
           held == [owner |-> ix.newAuthority, mint |-> row.mint, amount |-> row.amount]
           after == [side EXCEPT !.tokens[a].owner = ix.newAuthority]
           mv == [asset |-> row.mint, from |-> row.owner, to |-> ix.newAuthority, amount |-> row.amount]
<1>1. a \in DOMAIN side.tokens /\ Executed(ix, after, Move(row.mint, row.owner, ix.newAuthority, row.amount))
  BY DEF SetOwner, Open
<1>2. SideTyped(side)
  BY DEF LedgerTyped, SideTyped
<1>3. row \in TokenRows /\ ix.newAuthority \in Hands
  BY <1>1, <1>2 DEF SideTyped, TokensTyped, Hands
<1>4. row = [owner |-> row.owner, mint |-> row.mint, amount |-> row.amount] /\ row.owner \in Hands /\ row.mint \in Mints /\ row.amount \in Nat
  BY <1>3 DEF TokenRows
<1>5. [row EXCEPT !.owner = ix.newAuthority] = held
  <2> HIDE DEF row
  <2> QED BY <1>4
<1>6. held \in TokenRows
  <2> HIDE DEF row
  <2> QED BY <1>3, <1>4 DEF TokenRows
<1>7. after = [side EXCEPT !.tokens[a] = [row EXCEPT !.owner = ix.newAuthority]]
  OBVIOUS
<1>8. after = [side EXCEPT !.tokens[a] = held]
  BY <1>5, <1>7
<1>d. row = side.tokens[a]
  OBVIOUS
<1> HIDE DEF side, a, row, after
<1>9. /\ SideTyped(after) /\ after.lamports = side.lamports /\ DOMAIN after.tokens = DOMAIN side.tokens
      /\ after = [side EXCEPT !.tokens = after.tokens]
      /\ \A b \in DOMAIN side.tokens : after.tokens[b] = IF b = a THEN held ELSE side.tokens[b]
  <2> HIDE DEF held
  <2> QED BY <1>1, <1>2, <1>6, <1>8, RowReplaced
<1> DEFINE tokens == after.tokens
<1>10. TokensTyped(tokens) /\ TokensTyped(side.tokens) /\ a \in Keys /\ tokens[a] = held
  BY <1>1, <1>2, <1>9 DEF SideTyped, TokensTyped
<1>11. DOMAIN tokens = DOMAIN side.tokens /\ \A b \in DOMAIN side.tokens : b # a => tokens[b] = side.tokens[b]
  BY <1>9
<1>12. after = [side EXCEPT !.tokens = tokens]
  BY <1>9
<1> HIDE DEF tokens
<1>13. ASSUME NEW other, other.tokens = tokens, NEW w \in Wallets, NEW o \in Mints
       PROVE  Owned(other, w, o) = Owned(side, w, o) + GainOf(mv, w, o)
  <2>1. \A b \in Keys : b # a => Share(other.tokens, b, w, o) = Share(side.tokens, b, w, o)
    BY <1>11, <1>13 DEF Share
  <2>2. Owned(other, w, o) = Owned(side, w, o) + (Share(other.tokens, a, w, o) - Share(side.tokens, a, w, o))
    BY <1>10, <1>13, <2>1, OwnedAtOne
  <2>3. Share(other.tokens, a, w, o) = IF ix.newAuthority = w /\ row.mint = o THEN row.amount ELSE 0
    BY <1>1, <1>10, <1>11, <1>13 DEF Share
  <2>4. Share(side.tokens, a, w, o) = IF row.owner = w /\ row.mint = o THEN row.amount ELSE 0
    BY <1>1, <1>d DEF Share
  <2>5. GainOf(mv, w, o) = IF row.mint = o THEN (IF ix.newAuthority = w THEN row.amount ELSE 0) - (IF row.owner = w THEN row.amount ELSE 0) ELSE 0
    BY DEF GainOf
  <2> HIDE DEF mv
  <2> QED BY <1>4, <2>2, <2>3, <2>4, <2>5
<1>14. \A other : other.tokens = tokens => \A w \in Wallets, o \in Mints : Owned(other, w, o) = Owned(side, w, o) + GainOf(mv, w, o)
  BY <1>13
<1>15. row.amount \in Int
  BY <1>4
<1> QED BY <1>1, <1>3, <1>4, <1>10, <1>12, <1>14, <1>15, TokensStep DEF side

(* An account opened or closed, with its rent.                             *)
LEMMA RentStep ==
  ASSUME LedgerTyped, LamportsTrue, TokensTrue, NEW ix \in Instructions, NEW from \in Keys, NEW to \in Keys, NEW n \in Int,
         NEW f \in Hands, NEW t \in Hands, NEW tokens, TokensTyped(tokens),
         NEW settled, SideTyped(settled), \A b \in Keys : settled.lamports[b] = tx.post.lamports[b] + Flow(from, to, n, b),
         Executed(ix, [settled EXCEPT !.tokens = tokens], Move(SOL, f, t, n)),
         \A w \in Wallets : (f = w <=> from = w) /\ (t = w <=> to = w),
         NEW a \in Keys, \A b \in Keys : b # a => (b \in DOMAIN tokens <=> b \in DOMAIN tx.post.tokens),
         \A b \in DOMAIN tokens : b # a => tokens[b] = tx.post.tokens[b],
         \A w, m : Share(tokens, a, w, m) = 0 /\ Share(tx.post.tokens, a, w, m) = 0
  PROVE  LedgerTyped' /\ LamportsTrue' /\ TokensTrue'
<1> DEFINE side == [settled EXCEPT !.tokens = tokens]
           mv == [asset |-> SOL, from |-> f, to |-> t, amount |-> n]
<1>1. SideTyped(tx.post)
  BY DEF LedgerTyped, SideTyped
<1>3. mv \in Movements /\ Executed(ix, side, <<mv>>)
  BY MoveIs DEF Movements, Assets
<1>4. SideTyped(side) /\ side.lamports = settled.lamports /\ side.tokens = tokens
  BY TokensTouched
<1> HIDE DEF side
<1>5. \A w \in Wallets : side.lamports[w] = tx.post.lamports[w] + GainOf(mv, w, SOL)
  BY <1>4, StartAssumption DEF GainOf, Keys, Flow
<1>6. ASSUME NEW w \in Wallets, NEW m \in Mints
      PROVE  Owned(side, w, m) = Owned(tx.post, w, m) + GainOf(mv, w, m)
  <2>1. GainOf(mv, w, m) = 0
    BY LedgerAssumption DEF GainOf
  <2>2. \A b \in Keys : b # a => Share(side.tokens, b, w, m) = Share(tx.post.tokens, b, w, m)
    BY <1>4 DEF Share
  <2>3. Share(side.tokens, a, w, m) = 0 /\ Share(tx.post.tokens, a, w, m) = 0
    BY <1>4
  <2>4. TokensTyped(side.tokens) /\ TokensTyped(tx.post.tokens)
    BY <1>1, <1>4 DEF SideTyped
  <2>5. Owned(side, w, m) = Owned(tx.post, w, m) + (Share(side.tokens, a, w, m) - Share(tx.post.tokens, a, w, m))
    BY <2>2, <2>4, OwnedAtOne
  <2>6. Owned(tx.post, w, m) \in Int
    BY <2>4, OwnedIs
  <2> QED BY <2>1, <2>3, <2>5, <2>6
<1> HIDE DEF mv
<1> QED BY <1>3, <1>4, <1>5, <1>6, StepTrue

LEMMA CreateTrue ==
  ASSUME LedgerTyped, LamportsTrue, TokensTrue, NEW ix \in Instructions, Create(ix)
  PROVE  LedgerTyped' /\ LamportsTrue' /\ TokensTrue'
<1> DEFINE a == ix.account
           row == [owner |-> ix.wallet, mint |-> ix.mint, amount |-> 0]
           old == tx.post.tokens
           settled == Pay(tx.post, ix.source, a, Rent)
           tokens == [b \in DOMAIN old \cup {a} |-> IF b = a THEN row ELSE old[b]]
<1>1. a \in Keys /\ a \notin Wallets /\ ix.source \in Keys /\ ix.mint \in Mints
  BY InstructionAssumption DEF Create, Derived, Keys, InitializeOps
<1>2. SideTyped(tx.post) /\ Rent \in Int /\ None \in Hands /\ ix.source \in Hands
  BY <1>1, LedgerAssumption DEF LedgerTyped, SideTyped, Hands
<1>3. settled.tokens = old /\ SideTyped(settled) /\ \A b \in Keys : settled.lamports[b] = tx.post.lamports[b] + Flow(ix.source, a, Rent, b)
  <2>1. settled = Pay(tx.post, ix.source, a, Rent)
    OBVIOUS
  <2> HIDE DEF settled, a
  <2> QED BY <1>1, <1>2, <2>1, PayIs
<1>4. Executed(ix, [settled EXCEPT !.tokens = tokens], Move(SOL, ix.source, None, Rent)) /\ a \notin DOMAIN old
  BY <1>3 DEF Create, Open
<1>5. row \in TokenRows
  BY <1>1 DEF TokenRows, Hands
<1>6. old \in [DOMAIN old -> TokenRows] /\ DOMAIN old \subseteq Keys \ Wallets
  BY <1>2 DEF SideTyped, TokensTyped
<1>a. row.amount = 0
  OBVIOUS
<1> HIDE DEF row, settled, old
<1>7. DOMAIN tokens = DOMAIN old \cup {a} /\ tokens[a] = row /\ \A b \in DOMAIN old : b # a => tokens[b] = old[b]
  OBVIOUS
<1>8. tokens \in [DOMAIN tokens -> TokenRows]
  BY <1>5, <1>6
<1> HIDE DEF tokens, a
<1>9. TokensTyped(tokens)
  BY <1>1, <1>6, <1>7, <1>8 DEF TokensTyped
<1>10. \A w, m : Share(tokens, a, w, m) = 0 /\ Share(old, a, w, m) = 0
  BY <1>4, <1>7, <1>a DEF Share
<1>11. \A w \in Wallets : (ix.source = w <=> ix.source = w) /\ (None = w <=> a = w)
  BY <1>1, LedgerAssumption
<1>12. \A b \in Keys : b # a => (b \in DOMAIN tokens <=> b \in DOMAIN old)
  BY <1>7
<1>13. \A b \in DOMAIN tokens : b # a => tokens[b] = old[b]
  BY <1>7
<1> QED BY <1>1, <1>2, <1>3, <1>4, <1>9, <1>10, <1>11, <1>12, <1>13, RentStep DEF old

LEMMA CloseTrue ==
  ASSUME LedgerTyped, LamportsTrue, TokensTrue, NEW ix \in Instructions, CloseAccount(ix)
  PROVE  LedgerTyped' /\ LamportsTrue' /\ TokensTrue'
<1> DEFINE a == ix.account
           n == tx.post.lamports[a]
           old == tx.post.tokens
           settled == Pay(tx.post, a, ix.destination, n)
           tokens == [b \in DOMAIN old \ {a} |-> old[b]]
<1>2. SideTyped(tx.post)
  BY DEF LedgerTyped, SideTyped
<1>1. a \in DOMAIN old /\ ix.destination \in Keys /\ old[a].amount = 0
  BY InstructionAssumption DEF CloseAccount, Keys, Open
<1>6. old \in [DOMAIN old -> TokenRows] /\ DOMAIN old \subseteq Keys \ Wallets /\ a \in Keys /\ a \notin Wallets
  BY <1>1, <1>2 DEF SideTyped, TokensTyped
<1>0. n \in Int /\ None \in Hands /\ ix.destination \in Hands
  BY <1>1, <1>2, <1>6 DEF SideTyped, Hands
<1>3. settled.tokens = old /\ SideTyped(settled) /\ \A b \in Keys : settled.lamports[b] = tx.post.lamports[b] + Flow(a, ix.destination, n, b)
  <2>1. settled = Pay(tx.post, a, ix.destination, n)
    OBVIOUS
  <2> HIDE DEF a, n, settled
  <2>2. n \in Int /\ a \in Keys /\ ix.destination \in Keys /\ SideTyped(tx.post)
    BY <1>0, <1>1, <1>2, <1>6
  <2>3. SideTyped(settled) /\ settled.tokens = tx.post.tokens
    BY <2>1, <2>2, PayIs
  <2>4. \A b \in Keys : settled.lamports[b] = tx.post.lamports[b] + Flow(a, ix.destination, n, b)
    BY <2>1, <2>2, PayIs
  <2> QED BY <2>3, <2>4
<1>4. Executed(ix, [settled EXCEPT !.tokens = tokens], Move(SOL, None, ix.destination, n))
  BY <1>3 DEF CloseAccount, Lamports
<1> HIDE DEF settled, old, n
<1>7. DOMAIN tokens = DOMAIN old \ {a} /\ \A b \in DOMAIN tokens : tokens[b] = old[b]
  OBVIOUS
<1>8. tokens \in [DOMAIN tokens -> TokenRows]
  BY <1>6
<1> HIDE DEF tokens, a
<1>9. TokensTyped(tokens)
  BY <1>6, <1>7, <1>8 DEF TokensTyped
<1>10. \A w, m : Share(tokens, a, w, m) = 0 /\ Share(old, a, w, m) = 0
  BY <1>1, <1>7 DEF Share
<1>11. \A w \in Wallets : (None = w <=> a = w) /\ (ix.destination = w <=> ix.destination = w)
  BY <1>6, LedgerAssumption
<1>12. \A b \in Keys : b # a => (b \in DOMAIN tokens <=> b \in DOMAIN old)
  BY <1>7
<1>13. \A b \in DOMAIN tokens : b # a => tokens[b] = old[b]
  BY <1>7
<1> QED BY <1>0, <1>1, <1>3, <1>6, <1>4, <1>9, <1>10, <1>11, <1>12, <1>13, RentStep DEF old

LEMMA LedgerStarts ==
  ASSUME NEW P, P \subseteq Wallets, PaidBy(P)
  PROVE  LedgerTyped /\ LamportsTrue /\ TokensTrue
<1>1. PICK payer \in P : tx = [keys |-> <<payer>> \o Where(Accounts, LAMBDA a : a # payer), fee |-> Fee, pre |-> StartLedger,
             post |-> [StartLedger EXCEPT !.lamports[payer] = @ - Fee], instrs |-> <<>>, logs |-> <<>>]
  BY DEF PaidBy
<1> DEFINE keys == <<payer>> \o Where(Accounts, LAMBDA a : a # payer)
           side == [StartLedger EXCEPT !.lamports[payer] = @ - Fee]
           l2 == [StartLedger.lamports EXCEPT ![payer] = @ - Fee]
<1>2. payer \in Wallets /\ moves = <<>>
  BY DEF PaidBy
<1>3. keys # <<>> /\ keys \in Seq(Keys) /\ ToSet(keys) = Keys /\ Head(keys) = payer
  BY <1>2, KeysOfPayer
<1>4. tx = [keys |-> keys, fee |-> Fee, pre |-> StartLedger, post |-> side, instrs |-> <<>>, logs |-> <<>>]
  BY <1>1
<1> HIDE DEF keys
<1>5. side = [lamports |-> l2, tokens |-> StartLedger.tokens]
  BY StartTyped
<1>6. payer \in Keys /\ Wallets \subseteq Keys
  BY <1>2, StartAssumption DEF Keys
<1>7. l2 \in [Keys -> Int] /\ \A w \in Keys : l2[w] = IF w = payer THEN StartLedger.lamports[w] - Fee ELSE StartLedger.lamports[w]
  BY <1>6, StartTyped, LedgerAssumption
<1> HIDE DEF side, l2
<1>8. tx.keys = keys /\ tx.post = side /\ tx.instrs = <<>> /\ tx.logs = <<>> /\ DOMAIN tx = {"keys", "fee", "pre", "post", "instrs", "logs"}
      /\ tx = [keys |-> tx.keys, fee |-> Fee, pre |-> StartLedger, post |-> tx.post, instrs |-> tx.instrs, logs |-> tx.logs]
  BY <1>4
<1>9. side.lamports = l2 /\ side.tokens = StartLedger.tokens /\ side = [lamports |-> side.lamports, tokens |-> side.tokens]
  BY <1>5
<1>10. LedgerTyped
  BY <1>2, <1>3, <1>7, <1>8, <1>9, StartTyped DEF LedgerTyped
<1>11. \A w, a : Gained(w, a) = 0
  <2> TAKE w, a
  <2>1. DOMAIN moves = {}
    BY <1>2
  <2>2. Gained(w, a) = SumFunctionOnSet([i \in DOMAIN moves |-> GainOf(moves[i], w, a)], {})
    BY <2>1 DEF Gained, Sum, SumFunction
  <2> QED BY <2>2, SumOfNone
<1>12. LamportsTrue
  <2> SUFFICES ASSUME NEW w \in Wallets
               PROVE  tx.post.lamports[w] - StartLedger.lamports[w] + (IF Head(tx.keys) = w THEN Fee ELSE 0) = Gained(w, SOL)
    BY DEF LamportsTrue
  <2>1. StartLedger.lamports[w] \in Int /\ Fee \in Int
    BY <1>6, StartTyped, LedgerAssumption
  <2> QED BY <1>3, <1>6, <1>7, <1>8, <1>9, <1>11, <2>1
<1>13. TokensTrue
  <2> SUFFICES ASSUME NEW w \in Wallets, NEW m \in Mints
               PROVE  Owned(tx.post, w, m) - Owned(StartLedger, w, m) = Gained(w, m)
    BY DEF TokensTrue
  <2>1. Owned(tx.post, w, m) = Owned(StartLedger, w, m)
    BY <1>8, <1>9, StartTyped, OwnedSame
  <2>2. Owned(StartLedger, w, m) \in Int
    BY StartTyped, OwnedIs
  <2> QED BY <1>11, <2>1, <2>2
<1> QED BY <1>10, <1>12, <1>13

LEMMA LedgerMoves ==
  ASSUME LedgerTyped, LamportsTrue, TokensTrue, [LedgerNext]_ledgerVars
  PROVE  LedgerTyped' /\ LamportsTrue' /\ TokensTrue'
<1>1. CASE LedgerNext
  <2>1. PICK ix \in Instructions : Execute(ix)
    BY <1>1 DEF LedgerNext
  <2> QED BY <2>1, PaysTrue, TokenMoveTrue, MintToTrue, CreateTrue, CloseTrue, SetOwnerTrue, MarkTrue DEF Execute
<1>2. CASE UNCHANGED ledgerVars
  <2>1. tx' = tx /\ moves' = moves
    BY <1>2 DEF ledgerVars
  <2>2. LedgerTyped'
    BY <2>1 DEF LedgerTyped, Keys, Hands, Movements, Assets, TokensTyped, TokenRows
  <2>3. \A w, a : Gained(w, a)' = Gained(w, a) /\ Owned(tx.post, w, a)' = Owned(tx.post, w, a)
    BY <2>1 DEF Gained, Owned, OwnedBy, Sum, SumFunction
  <2>4. LamportsTrue'
    BY <2>1, <2>3 DEF LamportsTrue, SOL
  <2>5. TokensTrue'
    <3> SUFFICES ASSUME NEW w \in Wallets, NEW m \in Mints
                 PROVE  Owned(tx.post, w, m)' - Owned(StartLedger, w, m) = Gained(w, m)'
      BY DEF TokensTrue, Owned, OwnedBy, Sum, SumFunction
    <3> QED BY <2>3 DEF TokensTrue
  <2> QED BY <2>2, <2>4, <2>5
<1> QED BY <1>1, <1>2

-----------------------------------------------------------------------------
(* The net change of both mappers is what the instructions moved.          *)

LEMMA RpcDeltaTrue ==
  ASSUME LedgerTyped, LamportsTrue, TokensTrue, NEW w \in Wallets
  PROVE  ComputeRpcWalletDelta(tx, w) = [a \in Assets |-> Gained(w, a)]
<1>1. tx.post.lamports \in [Keys -> Int] /\ tx.pre = StartLedger /\ tx.fee = Fee /\ w \in Keys
  BY StartAssumption DEF LedgerTyped, Keys
<1>2. DOMAIN tx.post.lamports = Keys /\ DOMAIN tx.pre.lamports = Keys
  BY <1>1, StartTyped
<1>3. tx.post.lamports[w] - tx.pre.lamports[w] + (IF Head(tx.keys) = w THEN tx.fee ELSE 0) = Gained(w, SOL)
  BY <1>1 DEF LamportsTrue
<1>4. \A a \in Mints : Owned(tx.post, w, a) - Owned(tx.pre, w, a) = Gained(w, a)
  BY <1>1 DEF TokensTrue
<1>5. ASSUME NEW a \in Assets
      PROVE  (IF a = SOL THEN tx.post.lamports[w] - tx.pre.lamports[w] + (IF Head(tx.keys) = w THEN tx.fee ELSE 0)
              ELSE Owned(tx.post, w, a) - Owned(tx.pre, w, a)) = Gained(w, a)
  BY <1>3, <1>4 DEF Assets
<1>6. ComputeRpcWalletDelta(tx, w)
        = [a \in Assets |-> IF a = SOL THEN tx.post.lamports[w] - tx.pre.lamports[w] + (IF Head(tx.keys) = w THEN tx.fee ELSE 0)
                            ELSE Owned(tx.post, w, a) - Owned(tx.pre, w, a)]
  BY <1>1, <1>2 DEF ComputeRpcWalletDelta
<1> QED BY <1>5, <1>6

LEMMA Parsed ==
  LET p == ParseTransaction(tx)
  IN  /\ p.accountData = CollectAccountData(tx) /\ p.feePayer = Head(tx.keys) /\ p.fee = tx.fee
      /\ p.type = DeriveType(tx) /\ p.memo = Memo(tx)
      /\ p.nativeTransfers = NativeTransfers(tx) /\ p.tokenTransfers = TokenTransfers(tx)
BY DEF ParseTransaction

LEMMA SumOfSingle ==
  ASSUME NEW x, NEW f, f[x] \in Int
  PROVE  SumFunctionOnSet(f, {x}) = f[x]
<1>1. IsFiniteSet({x}) /\ {x} \ {x} = {}
  BY FS_Singleton
<1>2. SumFunctionOnSet(f, {x}) = f[x] + SumFunctionOnSet(f, {x} \ {x})
  BY <1>1, SumOfOneMore
<1> QED BY <1>1, <1>2, SumOfNone

LEMMA NativeIs ==
  ASSUME LedgerTyped, NEW w \in Wallets, NEW p, p.accountData = CollectAccountData(tx)
  PROVE  NativeOf(p, w) = tx.post.lamports[w] - tx.pre.lamports[w]
<1> DEFINE row == AccountRow(tx, w)
           R == {r \in p.accountData : r.account = w}
           f == [r \in R |-> r.native]
<1>1. row.native = tx.post.lamports[w] - tx.pre.lamports[w] /\ row.account = w
  BY DEF AccountRow
<1>2. row.native \in Int
  BY <1>1, StartTyped, StartAssumption DEF LedgerTyped, Keys
<1>3. \A a : AccountRow(tx, a).account = a
  BY DEF AccountRow
<1>4. w \in ToSet(tx.keys)
  BY StartAssumption DEF LedgerTyped, Keys
<1>5. (R = {} /\ row.native = 0) \/ R = {row}
  BY <1>1, <1>3, <1>4 DEF CollectAccountData
<1>6. NativeOf(p, w) = SumFunctionOnSet(f, R)
  BY DEF NativeOf, Sum, SumFunction
<1> HIDE DEF row, R
<1>7. CASE R = {} /\ row.native = 0
  BY <1>1, <1>6, <1>7, SumOfNone
<1>8. CASE R = {row}
  <2>1. f[row] = row.native
    BY <1>8
  <2> HIDE DEF f
  <2>2. SumFunctionOnSet(f, {row}) = f[row]
    BY <1>2, <2>1, SumOfSingle
  <2> QED BY <1>1, <1>6, <1>8, <2>1, <2>2
<1> QED BY <1>5, <1>7, <1>8

(* A change of a token account, for the wallet or not.                     *)
Ours(w, m) == {a \in Keys : Change(tx, a, m) # 0 /\ Holder(tx, a, m) = w}

LEMMA ChangeTyped ==
  ASSUME LedgerTyped, NEW a, NEW m
  PROVE  /\ Change(tx, a, m) \in Int /\ Amount(tx.post, a, m) \in Int /\ Amount(tx.pre, a, m) \in Int
         /\ Change(tx, a, m) = Amount(tx.post, a, m) - Amount(tx.pre, a, m)
BY StartTyped DEF Change, Amount, Holds, LedgerTyped, TokensTyped, TokenRows

LEMMA ChangeIsShare ==
  ASSUME LedgerTyped, KeptInHand, NEW w, NEW m, NEW a \in Keys
  PROVE  (IF a \in Ours(w, m) THEN Change(tx, a, m) ELSE 0)
           = Share(tx.post.tokens, a, w, m) - Share(tx.pre.tokens, a, w, m)
<1> DEFINE post == tx.post.tokens
           pre == tx.pre.tokens
<1>1. (a \in DOMAIN post => post[a].amount \in Int) /\ (a \in DOMAIN pre => pre[a].amount \in Int)
  BY StartTyped DEF LedgerTyped, TokensTyped, TokenRows
<1>2. Change(tx, a, m) = (IF a \in DOMAIN post /\ post[a].mint = m THEN post[a].amount ELSE 0)
                           - (IF a \in DOMAIN pre /\ pre[a].mint = m THEN pre[a].amount ELSE 0)
  BY DEF Change, Amount, Holds
<1>3. a \in DOMAIN post /\ post[a].mint = m => Holder(tx, a, m) = post[a].owner
  BY DEF Holder, Holds
<1>4. ~(a \in DOMAIN post /\ post[a].mint = m) => Holder(tx, a, m) = pre[a].owner
  BY DEF Holder, Holds
<1>5. a \in DOMAIN pre /\ a \in DOMAIN post /\ pre[a].mint = m /\ post[a].mint = m => pre[a].owner = post[a].owner \/ pre[a].amount = 0
  BY DEF KeptInHand
<1>6. a \in Ours(w, m) <=> Change(tx, a, m) # 0 /\ Holder(tx, a, m) = w
  BY DEF Ours
<1>7. Share(post, a, w, m) = (IF a \in DOMAIN post /\ post[a].owner = w /\ post[a].mint = m THEN post[a].amount ELSE 0)
      /\ Share(pre, a, w, m) = (IF a \in DOMAIN pre /\ pre[a].owner = w /\ pre[a].mint = m THEN pre[a].amount ELSE 0)
  BY DEF Share
<1> HIDE DEF post, pre
<1> DEFINE after  == a \in DOMAIN post /\ post[a].mint = m
           before == a \in DOMAIN pre /\ pre[a].mint = m
           n == post[a].amount
           k == pre[a].amount
<1>8. /\ after => n \in Int
      /\ before => k \in Int
      /\ Change(tx, a, m) = (IF after THEN n ELSE 0) - (IF before THEN k ELSE 0)
      /\ Share(post, a, w, m) = (IF after /\ post[a].owner = w THEN n ELSE 0)
      /\ Share(pre, a, w, m) = (IF before /\ pre[a].owner = w THEN k ELSE 0)
      /\ after => Holder(tx, a, m) = post[a].owner
      /\ ~after => Holder(tx, a, m) = pre[a].owner
      /\ before /\ after => pre[a].owner = post[a].owner \/ k = 0
  BY <1>1, <1>2, <1>3, <1>4, <1>5, <1>7
<1> HIDE DEF after, before, n, k
<1>9. CASE after /\ before
  BY <1>6, <1>8, <1>9 DEF post, pre
<1>10. CASE after /\ ~before
  BY <1>6, <1>8, <1>10 DEF post, pre
<1>11. CASE ~after /\ before
  BY <1>6, <1>8, <1>11 DEF post, pre
<1>12. CASE ~after /\ ~before
  BY <1>6, <1>8, <1>12 DEF post, pre
<1> QED BY <1>9, <1>10, <1>11, <1>12

LEMMA ChangesAre ==
  ASSUME LedgerTyped, NEW w \in Wallets, NEW m \in Mints, NEW p, p.accountData = CollectAccountData(tx)
  PROVE  ChangesOf(p, w, m) = {<<a, Change(tx, a, m)>> : a \in Ours(w, m)}
<1>1. ToSet(tx.keys) = Keys
  BY DEF LedgerTyped
<1>2. \A a : AccountRow(tx, a).account = a /\ AccountRow(tx, a).tokens = TokenBalanceChanges(tx, a)
  BY DEF AccountRow
<1>3. \A a, t : t \in TokenBalanceChanges(tx, a) /\ t.owner = w /\ t.mint = m
                  <=> Change(tx, a, m) # 0 /\ Holder(tx, a, m) = w /\ t = [owner |-> w, mint |-> m, amount |-> Change(tx, a, m)]
  BY DEF TokenBalanceChanges
<1>4. \A a \in Keys : a \in Ours(w, m) => AccountRow(tx, a) \in p.accountData
  <2> TAKE a \in Keys
  <2> HAVE a \in Ours(w, m)
  <2>1. [owner |-> w, mint |-> m, amount |-> Change(tx, a, m)] \in TokenBalanceChanges(tx, a)
    BY <1>3 DEF Ours
  <2> QED BY <1>1, <1>2, <2>1 DEF CollectAccountData
<1>5. \A r \in p.accountData : \E a \in Keys : r = AccountRow(tx, a)
  BY <1>1 DEF CollectAccountData
<1>6. ASSUME NEW c \in ChangesOf(p, w, m) PROVE \E a \in Ours(w, m) : c = <<a, Change(tx, a, m)>>
  <2>1. PICK r \in p.accountData : c \in {<<r.account, t.amount>> : t \in {u \in r.tokens : u.owner = w /\ u.mint = m}}
    BY DEF ChangesOf
  <2>2. PICK t \in r.tokens : t.owner = w /\ t.mint = m /\ c = <<r.account, t.amount>>
    BY <2>1
  <2>3. PICK a \in Keys : r = AccountRow(tx, a)
    BY <1>5
  <2>4. Change(tx, a, m) # 0 /\ Holder(tx, a, m) = w /\ t = [owner |-> w, mint |-> m, amount |-> Change(tx, a, m)]
    BY <1>2, <1>3, <2>2, <2>3
  <2> QED BY <1>2, <2>2, <2>3, <2>4 DEF Ours
<1>7. ASSUME NEW a \in Ours(w, m) PROVE <<a, Change(tx, a, m)>> \in ChangesOf(p, w, m)
  <2> DEFINE r == AccountRow(tx, a)
             t == [owner |-> w, mint |-> m, amount |-> Change(tx, a, m)]
  <2>1. r \in p.accountData /\ r.account = a /\ t \in r.tokens /\ t.owner = w /\ t.mint = m /\ t.amount = Change(tx, a, m)
    BY <1>2, <1>3, <1>4 DEF Ours
  <2> HIDE DEF r, t
  <2> QED BY <2>1 DEF ChangesOf
<1> QED BY <1>6, <1>7

LEMMA DeltaTrue ==
  ASSUME LedgerTyped, LamportsTrue, TokensTrue, KeptInHand, NEW w \in Wallets, NEW p,
         p.accountData = CollectAccountData(tx), p.feePayer = Head(tx.keys), p.fee = tx.fee
  PROVE  ComputeWalletDelta(p, w) = [a \in Assets |-> Gained(w, a)]
<1>1. ASSUME NEW m \in Mints PROVE Sum(LAMBDA c : c[2], ChangesOf(p, w, m)) = Gained(w, m)
  <2> DEFINE A == Ours(w, m)
             C == ChangesOf(p, w, m)
             f == [a \in A |-> <<a, Change(tx, a, m)>>]
             v == [a \in A |-> Change(tx, a, m)]
             d == [a \in Keys |-> IF a \in A THEN Change(tx, a, m) ELSE 0]
             g == [c \in C |-> c[2]]
             s == Shares(tx.pre.tokens, w, m)
             t == Shares(tx.post.tokens, w, m)
  <2>1. C = {<<a, Change(tx, a, m)>> : a \in A}
    BY ChangesAre
  <2>2. A \subseteq Keys /\ IsFiniteSet(A)
    BY KeysFinite, FS_Subset DEF Ours
  <2>3. \A a \in A : f[a] \in C /\ v[a] = g[f[a]] /\ v[a] \in Int
    BY <2>1, ChangeTyped
  <2>4. \A a, b \in A : f[a] = f[b] => a = b
    OBVIOUS
  <2>5. \A c \in C : \E a \in A : f[a] = c
    BY <2>1
  <2>6. Sum(LAMBDA c : c[2], C) = SumFunctionOnSet(g, C)
    BY DEF Sum, SumFunction
  <2>7. \A a \in Keys : s[a] \in Int /\ t[a] \in Int /\ d[a] = t[a] - s[a]
    <3> TAKE a \in Keys
    <3>1. TokensTyped(tx.pre.tokens) /\ TokensTyped(tx.post.tokens)
      BY StartTyped DEF LedgerTyped
    <3>2. s[a] \in Int /\ s[a] = Share(tx.pre.tokens, a, w, m) /\ t[a] \in Int /\ t[a] = Share(tx.post.tokens, a, w, m)
      BY <3>1, SharesTyped
    <3> QED BY <3>2, ChangeIsShare
  <2>8. \A a \in A : d[a] = v[a] /\ d[a] \in Int
    BY <2>2, <2>3
  <2>9. \A a \in Keys \ A : d[a] = 0
    OBVIOUS
  <2>10. f \in [A -> C]
    BY <2>3
  <2>11. Owned(tx.post, w, m) = SumFunctionOnSet(t, Keys) /\ Owned(tx.pre, w, m) = SumFunctionOnSet(s, Keys)
    BY StartTyped, OwnedIs DEF LedgerTyped
  <2>12. Owned(tx.post, w, m) - Owned(tx.pre, w, m) = Gained(w, m)
    BY DEF TokensTrue, LedgerTyped
  <2> HIDE DEF A, C, f, v, d, g, s, t
  <2>13. f \in Bijection(A, C)
    BY <2>4, <2>5, <2>10, IsBijection
  <2>14. IsFiniteSet(C)
    <3>1. f \in Surjection(A, C)
      BY <2>13 DEF Bijection
    <3> QED BY <2>2, <3>1, FS_Surjection
  <2>15. SumFunctionOnSet(v, A) = SumFunctionOnSet(g, C)
    BY <2>2, <2>3, <2>13, <2>14, SumRenamed DEF Renames
  <2>16. SumFunctionOnSet(d, A) = SumFunctionOnSet(v, A)
    BY <2>2, <2>8, SumOfSame
  <2>17. \A a \in Keys : d[a] \in Int
    BY <2>7
  <2>18. SumFunctionOnSet(d, Keys) = SumFunctionOnSet(d, A)
    BY <2>2, <2>9, <2>17, KeysFinite, SumWithoutNothing
  <2>19. SumFunctionOnSet(d, Keys) = SumFunctionOnSet(t, Keys) - SumFunctionOnSet(s, Keys)
    BY <2>7, KeysFinite, SumOfDifferences
  <2> QED BY <2>6, <2>11, <2>12, <2>15, <2>16, <2>18, <2>19 DEF C
<1>2. NativeOf(p, w) + (IF p.feePayer = w THEN p.fee ELSE 0) = Gained(w, SOL)
  <2>1. NativeOf(p, w) = tx.post.lamports[w] - tx.pre.lamports[w]
    BY NativeIs
  <2>2. tx.pre = StartLedger /\ tx.fee = Fee
    BY DEF LedgerTyped
  <2> QED BY <2>1, <2>2 DEF LamportsTrue
<1> DEFINE h(a) == IF a = SOL THEN NativeOf(p, w) + (IF p.feePayer = w THEN p.fee ELSE 0) ELSE Sum(LAMBDA c : c[2], ChangesOf(p, w, a))
<1>3. ASSUME NEW a \in Assets PROVE h(a) = Gained(w, a)
  <2>1. CASE a = SOL
    BY <1>2, <2>1
  <2>2. CASE a # SOL
    <3>1. a \in Mints
      BY <2>2 DEF Assets
    <3> QED BY <1>1, <2>2, <3>1
  <2> QED BY <2>1, <2>2
<1>4. ComputeWalletDelta(p, w) = [a \in Assets |-> h(a)]
  BY DEF ComputeWalletDelta
<1> HIDE DEF h
<1> QED BY <1>3, <1>4

-----------------------------------------------------------------------------
(* What is shown.                                                          *)

LEMMA GainedInt == ASSUME LedgerTyped, NEW w, NEW a PROVE Gained(w, a) \in Int
<1> DEFINE S == DOMAIN moves
           f == [i \in S |-> GainOf(moves[i], w, a)]
<1>1. moves \in Seq(Movements)
  BY DEF LedgerTyped
<1>2. S = 1 .. Len(moves) /\ Len(moves) \in Nat /\ \A i \in S : moves[i] \in Movements
  BY <1>1
<1>3. IsFiniteSet(S)
  BY <1>2, FS_Interval
<1>4. \A i \in S : f[i] \in Int
  BY <1>2, GainTyped
<1>5. Gained(w, a) = SumFunctionOnSet(f, S)
  BY DEF Gained, Sum, SumFunction
<1> HIDE DEF f, S
<1> QED BY <1>3, <1>4, <1>5, SumOfInts

(* The legs of an item are those of the change, each once.                 *)
Legged(item, legs, delta, nfts) ==
  /\ \A leg \in item.inputs  : leg.asset \in legs.inputs  /\ leg.amount = IF leg.asset \in nfts THEN 1 ELSE Abs(delta[leg.asset])
  /\ \A leg \in item.outputs : leg.asset \in legs.outputs /\ leg.amount = IF leg.asset \in nfts THEN 1 ELSE Abs(delta[leg.asset])
  /\ \A a \in legs.inputs  : \E leg \in item.inputs  : leg.asset = a
  /\ \A a \in legs.outputs : \E leg \in item.outputs : leg.asset = a

LEMMA ShownIs ==
  ASSUME LedgerTyped, NEW w, NEW delta, delta = [a \in Assets |-> Gained(w, a)], NEW nfts, NEW item, Legged(item, BuildLegs(delta), delta, nfts)
  PROVE  Shown(item) = ToShow(w, nfts)
<1> DEFINE legs == BuildLegs(delta)
           tokens == {m \in Mints : Gained(w, m) # 0}
           native == IF Gained(w, SOL) # 0 /\ (tokens = {} \/ Abs(Gained(w, SOL)) >= SideLegMin) THEN {SOL} ELSE {}
           amount(a) == IF a \notin nfts THEN Gained(w, a) ELSE IF Gained(w, a) < 0 THEN -1 ELSE 1
           moved == tokens \cup native
<1>1. \A a : Gained(w, a) \in Int
  BY GainedInt
<1>2. \A a \in Assets : delta[a] = Gained(w, a)
  OBVIOUS
<1>3. Mints \subseteq Assets /\ SOL \in Assets
  BY DEF Assets
<1>4. moved \subseteq Assets
  BY <1>3
<1>5. legs.inputs = {a \in moved : Gained(w, a) > 0} /\ legs.outputs = {a \in moved : Gained(w, a) < 0}
  <2>1. {m \in Mints : delta[m] # 0} = tokens
    BY <1>2, <1>3
  <2>2. (IF delta[SOL] # 0 /\ ({m \in Mints : delta[m] # 0} = {} \/ Abs(delta[SOL]) >= SideLegMin) THEN {SOL} ELSE {}) = native
    BY <1>2, <1>3, <2>1
  <2>3. legs.inputs = {a \in moved : delta[a] > 0} /\ legs.outputs = {a \in moved : delta[a] < 0}
    BY <2>1, <2>2 DEF BuildLegs
  <2> HIDE DEF legs, moved
  <2> QED BY <1>2, <1>4, <2>3
<1>6. ToShow(w, nfts) = {<<a, amount(a)>> : a \in moved}
  BY DEF ToShow
<1>7. Shown(item) = {<<leg.asset, leg.amount>> : leg \in item.inputs} \cup {<<leg.asset, -leg.amount>> : leg \in item.outputs}
  BY DEF Shown
<1>8. /\ \A leg \in item.inputs  : leg.asset \in legs.inputs  /\ leg.amount = IF leg.asset \in nfts THEN 1 ELSE Abs(delta[leg.asset])
      /\ \A leg \in item.outputs : leg.asset \in legs.outputs /\ leg.amount = IF leg.asset \in nfts THEN 1 ELSE Abs(delta[leg.asset])
      /\ \A a \in legs.inputs  : \E leg \in item.inputs  : leg.asset = a
      /\ \A a \in legs.outputs : \E leg \in item.outputs : leg.asset = a
  BY DEF Legged
<1>9. \A a \in moved : Gained(w, a) # 0
  OBVIOUS
<1> HIDE DEF legs, tokens, native, moved
<1>10. \A a \in moved : delta[a] = Gained(w, a)
  BY <1>2, <1>4
<1>11. ASSUME NEW leg \in item.inputs PROVE leg.asset \in moved /\ leg.amount = amount(leg.asset)
  BY <1>1, <1>5, <1>8, <1>10 DEF Abs
<1>12. ASSUME NEW leg \in item.outputs PROVE leg.asset \in moved /\ -leg.amount = amount(leg.asset)
  BY <1>1, <1>5, <1>8, <1>10 DEF Abs
<1>13. ASSUME NEW a \in moved
       PROVE  (\E leg \in item.inputs : leg.asset = a) \/ (\E leg \in item.outputs : leg.asset = a)
  <2>1. a \in legs.inputs \/ a \in legs.outputs
    BY <1>1, <1>5, <1>9
  <2> QED BY <1>8, <2>1
<1> HIDE DEF amount
<1> QED BY <1>6, <1>7, <1>11, <1>12, <1>13

LEMMA ShapeLegged ==
  ASSUME NEW w, NEW delta, NEW nfts, NEW item,
         \/ item = TransformTransaction(ParseTransaction(tx), w) /\ delta = ComputeWalletDelta(ParseTransaction(tx), w) /\ nfts = NftMints(ParseTransaction(tx))
         \/ item = BuildResource(tx, w) /\ delta = ComputeRpcWalletDelta(tx, w) /\ nfts = {}
  PROVE  Legged(item, BuildLegs(delta), delta, nfts)
<1> DEFINE p == ParseTransaction(tx)
           legs == BuildLegs(delta)
<1>1. CASE item = TransformTransaction(ParseTransaction(tx), w) /\ delta = ComputeWalletDelta(p, w) /\ nfts = NftMints(p)
  <2> DEFINE type == ResolveType(p, w, legs)
             in(a) == IF type = "receive" THEN CounterpartyFor(p, w, a, FALSE) ELSE None
             out(a) == IF type = "send" THEN CounterpartyFor(p, w, a, TRUE) ELSE None
  <2>1. /\ item.inputs = {[asset |-> a, amount |-> IF a \in nfts THEN 1 ELSE Abs(delta[a]), other |-> in(a)] : a \in legs.inputs}
        /\ item.outputs = {[asset |-> a, amount |-> IF a \in nfts THEN 1 ELSE Abs(delta[a]), other |-> out(a)] : a \in legs.outputs}
    BY <1>1 DEF TransformTransaction, Shaped
  <2> HIDE DEF in, out, legs
  <2>2. ASSUME NEW leg \in item.inputs
        PROVE  leg.asset \in legs.inputs  /\ leg.amount = IF leg.asset \in nfts THEN 1 ELSE Abs(delta[leg.asset])
    <3>1. PICK a \in legs.inputs : leg = [asset |-> a, amount |-> IF a \in nfts THEN 1 ELSE Abs(delta[a]), other |-> in(a)]
      BY <2>1
    <3> QED BY <3>1
  <2>3. ASSUME NEW leg \in item.outputs
        PROVE  leg.asset \in legs.outputs  /\ leg.amount = IF leg.asset \in nfts THEN 1 ELSE Abs(delta[leg.asset])
    <3>1. PICK a \in legs.outputs : leg = [asset |-> a, amount |-> IF a \in nfts THEN 1 ELSE Abs(delta[a]), other |-> out(a)]
      BY <2>1
    <3> QED BY <3>1
  <2>4. ASSUME NEW a \in legs.inputs PROVE \E leg \in item.inputs : leg.asset = a
    <3> DEFINE leg == [asset |-> a, amount |-> IF a \in nfts THEN 1 ELSE Abs(delta[a]), other |-> in(a)]
    <3>1. leg \in item.inputs /\ leg.asset = a
      BY <2>1
    <3> QED BY <3>1
  <2>5. ASSUME NEW a \in legs.outputs PROVE \E leg \in item.outputs : leg.asset = a
    <3> DEFINE leg == [asset |-> a, amount |-> IF a \in nfts THEN 1 ELSE Abs(delta[a]), other |-> out(a)]
    <3>1. leg \in item.outputs /\ leg.asset = a
      BY <2>1
    <3> QED BY <3>1
  <2> QED BY <2>2, <2>3, <2>4, <2>5 DEF Legged, legs
<1>2. CASE item = BuildResource(tx, w) /\ delta = ComputeRpcWalletDelta(tx, w) /\ nfts = {}
  <2> DEFINE type == ResolveRpcType(tx, w, legs)
             in(a) == IF type = "receive" THEN CounterpartyForLeg(tx, w, a, FALSE) ELSE None
             out(a) == IF type = "send" THEN CounterpartyForLeg(tx, w, a, TRUE) ELSE None
  <2>1. /\ item.inputs = {[asset |-> a, amount |-> IF a \in nfts THEN 1 ELSE Abs(delta[a]), other |-> in(a)] : a \in legs.inputs}
        /\ item.outputs = {[asset |-> a, amount |-> IF a \in nfts THEN 1 ELSE Abs(delta[a]), other |-> out(a)] : a \in legs.outputs}
    BY <1>2 DEF BuildResource, Shaped
  <2> HIDE DEF in, out, legs
  <2>2. ASSUME NEW leg \in item.inputs
        PROVE  leg.asset \in legs.inputs  /\ leg.amount = IF leg.asset \in nfts THEN 1 ELSE Abs(delta[leg.asset])
    <3>1. PICK a \in legs.inputs : leg = [asset |-> a, amount |-> IF a \in nfts THEN 1 ELSE Abs(delta[a]), other |-> in(a)]
      BY <2>1
    <3> QED BY <3>1
  <2>3. ASSUME NEW leg \in item.outputs
        PROVE  leg.asset \in legs.outputs  /\ leg.amount = IF leg.asset \in nfts THEN 1 ELSE Abs(delta[leg.asset])
    <3>1. PICK a \in legs.outputs : leg = [asset |-> a, amount |-> IF a \in nfts THEN 1 ELSE Abs(delta[a]), other |-> out(a)]
      BY <2>1
    <3> QED BY <3>1
  <2>4. ASSUME NEW a \in legs.inputs PROVE \E leg \in item.inputs : leg.asset = a
    <3> DEFINE leg == [asset |-> a, amount |-> IF a \in nfts THEN 1 ELSE Abs(delta[a]), other |-> in(a)]
    <3>1. leg \in item.inputs /\ leg.asset = a
      BY <2>1
    <3> QED BY <3>1
  <2>5. ASSUME NEW a \in legs.outputs PROVE \E leg \in item.outputs : leg.asset = a
    <3> DEFINE leg == [asset |-> a, amount |-> IF a \in nfts THEN 1 ELSE Abs(delta[a]), other |-> out(a)]
    <3>1. leg \in item.outputs /\ leg.asset = a
      BY <2>1
    <3> QED BY <3>1
  <2> QED BY <2>2, <2>3, <2>4, <2>5 DEF Legged, legs
<1> QED BY <1>1, <1>2

LEMMA LegsTrue ==
  ASSUME LedgerTyped, LamportsTrue, TokensTrue
  PROVE  LegsExact
<1> SUFFICES ASSUME NEW w \in Wallets
             PROVE  /\ KeptInHand => Shown(TransformTransaction(ParseTransaction(tx), w)) = ToShow(w, NftMints(ParseTransaction(tx)))
                    /\ Shown(BuildResource(tx, w)) = ToShow(w, {})
  BY DEF LegsExact
<1>1. ASSUME KeptInHand PROVE Shown(TransformTransaction(ParseTransaction(tx), w)) = ToShow(w, NftMints(ParseTransaction(tx)))
  <2> DEFINE p == ParseTransaction(tx)
             delta == ComputeWalletDelta(p, w)
  <2>1. delta = [a \in Assets |-> Gained(w, a)]
    BY <1>1, Parsed, DeltaTrue
  <2>2. Legged(TransformTransaction(ParseTransaction(tx), w), BuildLegs(delta), delta, NftMints(p))
    BY ShapeLegged
  <2> HIDE DEF delta, p
  <2>3. Shown(TransformTransaction(ParseTransaction(tx), w)) = ToShow(w, NftMints(p))
    BY <2>1, <2>2, ShownIs
  <2> QED BY <2>3 DEF p
<1>2. Shown(BuildResource(tx, w)) = ToShow(w, {})
  <2> DEFINE delta == ComputeRpcWalletDelta(tx, w)
  <2>1. delta = [a \in Assets |-> Gained(w, a)]
    BY RpcDeltaTrue
  <2>2. Legged(BuildResource(tx, w), BuildLegs(delta), delta, {})
    BY ShapeLegged
  <2> HIDE DEF delta
  <2> QED BY <2>1, <2>2, ShownIs
<1> QED BY <1>1, <1>2

-----------------------------------------------------------------------------
(* What is hidden.                                                         *)

LEMMA TypeKnown == DeriveType(tx) \in DOMAIN ProviderBucket
<1> DEFINE hints == Hints(tx)
           S == {k \in DOMAIN TypePrecedence : TypePrecedence[k][1] \in hints}
           told == SelectAt(TypePrecedence, S)
           Rows == {TypePrecedence[k] : k \in DOMAIN TypePrecedence}
           Known == DOMAIN ProviderBucket
<1>1. Known = {"TRANSFER", "COMPRESSED_NFT_TRANSFER", "TOKEN_MINT", "NFT_MINT", "COMPRESSED_NFT_MINT", "BURN", "BURN_NFT",
               "COMPRESSED_NFT_BURN", "STAKE_TOKEN", "UNSTAKE_TOKEN", "OFFER_LOAN", "UNKNOWN", "MEMO"}
  BY DEF ProviderBucket
<1>2. Len(TypePrecedence) = 11 /\ \A k \in 1 .. 11 : TypePrecedence[k][2] \in Known
  BY <1>1 DEF TypePrecedence
<1>3. TypePrecedence \in Seq(Rows) /\ DOMAIN TypePrecedence = 1 .. 11
  BY DEF TypePrecedence
<1>4. \A row \in Rows : row[2] \in Known
  BY <1>2, <1>3
<1>5. told \in Seq(Rows)
  <2>1. S \subseteq DOMAIN TypePrecedence
    OBVIOUS
  <2> HIDE DEF S, Rows
  <2> QED BY <1>3, <2>1, Kept
<1>6. Where(TypePrecedence, LAMBDA row : row[1] \in hints) = told
  BY DEF Where
<1> HIDE DEF told, Rows, Known
<1>7. told # <<>> => Head(told)[2] \in Known
  BY <1>4, <1>5
<1>8. DeriveType(tx) = IF told # <<>> THEN Head(told)[2]
                       ELSE IF NativeTransfers(tx) # <<>> \/ TokenTransfers(tx) # <<>> THEN "TRANSFER"
                       ELSE IF "hasMemo" \in hints THEN "MEMO"
                       ELSE IF "hasBubblegum" \in hints THEN "COMPRESSED_NFT_TRANSFER" ELSE "UNKNOWN"
  BY <1>6 DEF DeriveType
<1> HIDE DEF hints
<1> QED BY <1>1, <1>7, <1>8 DEF Known

(* Only what brought something and took nothing is a receive.              *)
LEMMA ReceiveIs ==
  ASSUME NEW p, p.type \in DOMAIN ProviderBucket, NEW w, NEW legs, ResolveType(p, w, legs) = "receive"
  PROVE  legs.inputs # {} /\ legs.outputs = {}
<1> DEFINE word == ProviderBucket[p.type]
<1>1. word \in {"TRANSFER", "mint", "burn", "stake", "loan", "unknown", "memo"}
  BY DEF ProviderBucket
<1>2. ResolveType(p, w, legs)
        = IF word \notin {"TRANSFER", "unknown"} THEN word
          ELSE IF legs.outputs # {} /\ ~(legs.inputs # {}) THEN "send"
          ELSE IF legs.inputs # {} /\ ~(legs.outputs # {}) THEN IF OnlySolBack(legs) /\ p.feePayer = w THEN "interaction" ELSE "receive"
          ELSE IF legs.inputs # {} /\ legs.outputs # {} THEN "interaction"
          ELSE IF p.memo # None THEN "memo" ELSE IF p.feePayer = w THEN "interaction" ELSE "unknown"
  BY DEF ResolveType
<1> HIDE DEF word
<1> QED BY <1>1, <1>2

LEMMA ClosedIs ==
  ASSUME NEW p, NEW w, NEW legs, NEW type, DeriveAction(p, w, legs, type) = "accounts_closed"
  PROVE  legs.outputs = {}
BY LedgerAssumption DEF DeriveAction, OnlySolBack

(* Without an outgoing leg, nothing was lost but a small amount of SOL.    *)
LEMMA NoneLost ==
  ASSUME LedgerTyped, NEW w, NEW delta, delta = [a \in Assets |-> Gained(w, a)], BuildLegs(delta).outputs = {}
  PROVE  \A a \in Assets : Gained(w, a) > (IF a = SOL THEN -SideLegMin ELSE -1)
<1> SUFFICES ASSUME NEW a \in Assets PROVE Gained(w, a) > (IF a = SOL THEN -SideLegMin ELSE -1)
  OBVIOUS
<1> DEFINE tokens == {m \in Mints : delta[m] # 0}
           native == IF delta[SOL] # 0 /\ (tokens = {} \/ Abs(delta[SOL]) >= SideLegMin) THEN {SOL} ELSE {}
<1>1. \A b \in tokens \cup native : ~(delta[b] < 0)
  BY DEF BuildLegs
<1>2. delta[a] = Gained(w, a) /\ delta[a] \in Int
  BY GainedInt
<1>3. SideLegMin \in Nat /\ SideLegMin > 0
  BY LedgerAssumption
<1>4. CASE a = SOL
  <2>1. a \in native => ~(delta[a] < 0)
    BY <1>1
  <2>2. a \notin native => delta[a] = 0 \/ ~(Abs(delta[a]) >= SideLegMin)
    BY <1>4
  <2> QED BY <1>2, <1>3, <1>4, <2>1, <2>2 DEF Abs
<1>5. CASE a # SOL
  <2>1. a \in Mints
    BY <1>5 DEF Assets
  <2>2. delta[a] = 0 \/ ~(delta[a] < 0)
    BY <1>1, <2>1
  <2> QED BY <1>2, <1>5, <2>2
<1> QED BY <1>4, <1>5

LEMMA HiddenTrue ==
  ASSUME LedgerTyped, LamportsTrue, TokensTrue
  PROVE  HiddenLosesNothing
<1> SUFFICES ASSUME KeptInHand, NEW w \in Wallets, NEW item, item = TransformTransaction(ParseTransaction(tx), w)
             PROVE  HiddenIsMinor(item, w)
  BY DEF HiddenLosesNothing
<1> DEFINE p == ParseTransaction(tx)
           delta == ComputeWalletDelta(p, w)
           legs == BuildLegs(delta)
<1>1. delta = [a \in Assets |-> Gained(w, a)]
  BY Parsed, DeltaTrue
<1>2. Legged(item, legs, delta, NftMints(p))
  BY ShapeLegged
<1>3. item.type = ResolveType(p, w, legs) /\ item.action = DeriveAction(p, w, legs, item.type)
  BY Zenon DEF TransformTransaction
<1>4. p.type \in DOMAIN ProviderBucket
  BY Parsed, TypeKnown
<1> HIDE DEF p, delta
<1>5. IsSpamReceive(item, w) \/ IsHousekeeping(item) => legs.outputs = {}
  <2>1. CASE IsSpamReceive(item, w)
    BY <1>3, <1>4, <2>1, ReceiveIs DEF IsSpamReceive
  <2>2. CASE IsHousekeeping(item)
    BY <1>3, <2>2, ClosedIs DEF IsHousekeeping
  <2> QED BY <2>1, <2>2
<1>6. IsSpamReceive(item, w) \/ IsHousekeeping(item) => \A a \in Assets : Gained(w, a) > (IF a = SOL THEN -SideLegMin ELSE -1)
  BY <1>1, <1>5, NoneLost
<1>7. ASSUME IsSpamReceive(item, w), NEW m \in Verified PROVE Gained(w, m) = 0
  <2>1. m \in Mints /\ m \in Assets
    BY LedgerAssumption DEF Assets
  <2>2. legs.outputs = {}
    BY <1>5, <1>7
  <2>3. m \notin legs.inputs
    BY <1>2, <1>7 DEF Legged, IsSpamReceive
  <2>4. delta[m] = Gained(w, m) /\ Gained(w, m) \in Int
    BY <1>1, <2>1, GainedInt
  <2>5. delta[m] # 0 => (delta[m] > 0 => m \in legs.inputs) /\ (delta[m] < 0 => m \in legs.outputs)
    BY <2>1 DEF BuildLegs
  <2> HIDE DEF legs
  <2> QED BY <2>2, <2>3, <2>4, <2>5
<1> QED BY <1>6, <1>7 DEF HiddenIsMinor

-----------------------------------------------------------------------------
(* Who was on the other side: whose an account was before it changed       *)
(* hands, if ever, and what each transfer moved.                           *)

HomeOf(a) ==
  IF a \in DOMAIN StartLedger.tokens THEN StartLedger.tokens[a]
  ELSE LET opening == CHOOSE ix \in Instructions : ix.op \in InitializeOps /\ ix.account = a
       IN  [owner |-> opening.wallet, mint |-> opening.mint]

Known(a) ==
  \/ a \in DOMAIN StartLedger.tokens
  \/ \E i \in DOMAIN tx.instrs : tx.instrs[i].op \in InitializeOps /\ tx.instrs[i].account = a

HomesTrue ==
  \A a \in DOMAIN tx.post.tokens :
    LET row == tx.post.tokens[a]
    IN  Known(a) /\ row.mint = HomeOf(a).mint /\ (row.owner = HomeOf(a).owner \/ ChangedHands(a))

TransferTrue(ix) ==
  LET m == HomeOf(ix.source).mint
      d == ix.destination
  IN  /\ Known(ix.source) /\ Known(d) /\ d \in Keys /\ HomeOf(d).mint = m /\ Field(ix, "mint") \in {None, m}
      /\ ChangedHands(d) \/ Moved(ix.authority, HomeOf(d).owner, m)

IsNative(ix) == ix.program = "system" /\ ix.op \in {"transfer", "transferWithSeed"}
IsTransfer(ix) == ix.program = "token" /\ ix.op \in Transfers

MovesTrue ==
  \A i \in DOMAIN tx.instrs, ix \in Instructions :
    tx.instrs[i] = ix => (IsNative(ix) => Moved(ix.source, ix.destination, SOL)) /\ (IsTransfer(ix) => TransferTrue(ix))

LEMMA AccountNamed == ASSUME NEW ix \in Instructions, ix.op \in InitializeOps PROVE Field(ix, "account") = ix.account /\ Derived(ix)
BY InstructionAssumption DEF Derived, Field

(* All that open an account open the same one.                             *)
LEMMA HomeIsOne ==
  ASSUME NEW ix \in Instructions, ix.op \in InitializeOps
  PROVE  /\ HomeOf(ix.account).mint = ix.mint
         /\ ix.account \notin DOMAIN StartLedger.tokens => HomeOf(ix.account).owner = ix.wallet
<1> DEFINE a == ix.account
           opening == CHOOSE o \in Instructions : o.op \in InitializeOps /\ o.account = a
<1>1. Derived(ix)
  BY AccountNamed
<1>2. opening \in Instructions /\ opening.op \in InitializeOps /\ opening.account = a
  OBVIOUS
<1>3. opening.wallet = ix.wallet /\ opening.mint = ix.mint
  BY <1>1, <1>2 DEF Derived
<1>4. a \notin DOMAIN StartLedger.tokens => HomeOf(a) = [owner |-> opening.wallet, mint |-> opening.mint]
  BY DEF HomeOf
<1>5. a \in DOMAIN StartLedger.tokens => HomeOf(a).mint = ix.mint
  BY <1>1 DEF HomeOf, Derived
<1> HIDE DEF opening
<1> QED BY <1>3, <1>4, <1>5

(* What is known stays known.                                              *)
LEMMA Grown ==
  ASSUME LedgerTyped, NEW ix \in Instructions, NEW side, NEW moved \in Seq(Movements), Executed(ix, side, moved)
  PROVE  /\ tx'.post = side /\ tx'.pre = StartLedger /\ tx'.instrs = Append(tx.instrs, ix) /\ moves' = moves \o moved
         /\ \A a : Known(a) => Known(a)'
         /\ \A a : ChangedHands(a) => ChangedHands(a)'
         /\ \A f, t, a : Moved(f, t, a) => Moved(f, t, a)'
         /\ \A k \in DOMAIN moved : Moved(moved[k].from, moved[k].to, moved[k].asset)'
         /\ ix.op \in InitializeOps => Known(ix.account)'
         /\ ix.op = "setAuthority" => ChangedHands(ix.account)'
         /\ ix.op = "create" /\ ix.account \in DOMAIN StartLedger.tokens /\ StartLedger.tokens[ix.account].owner # ix.wallet
              => ChangedHands(ix.account)'
<1>0. /\ tx = [keys |-> tx.keys, fee |-> Fee, pre |-> StartLedger, post |-> tx.post, instrs |-> tx.instrs, logs |-> tx.logs]
      /\ tx.instrs \in Seq(Instructions) /\ moves \in Seq(Movements)
  BY DEF LedgerTyped
<1> DEFINE noted == IF ix.program = "bubblegum" THEN Append(tx.logs, ix.op) ELSE tx.logs
           was == [keys |-> tx.keys, fee |-> Fee, pre |-> StartLedger, post |-> tx.post, instrs |-> tx.instrs, logs |-> tx.logs]
<1>1. tx' = [tx EXCEPT !.post = side, !.instrs = Append(tx.instrs, ix), !.logs = noted] /\ moves' = moves \o moved
  BY DEF Executed
<1> HIDE DEF noted
<1>2. tx' = [was EXCEPT !.post = side, !.instrs = Append(tx.instrs, ix), !.logs = noted]
  BY <1>0, <1>1, Zenon
<1>3. tx' = [keys |-> tx.keys, fee |-> Fee, pre |-> StartLedger, post |-> side, instrs |-> Append(tx.instrs, ix), logs |-> noted]
  BY <1>2, Ledgered, Zenon
<1>4. tx'.post = side /\ tx'.pre = StartLedger /\ tx'.instrs = Append(tx.instrs, ix) /\ moves' = moves \o moved /\ tx.pre = StartLedger
  BY <1>0, <1>1, <1>3
<1> DEFINE n == Len(tx.instrs)
           m == Len(moves)
           q == Len(moved)
<1>5. /\ n \in Nat /\ DOMAIN tx.instrs = 1 .. n /\ DOMAIN tx'.instrs = 1 .. (n + 1)
      /\ \A i \in 1 .. n : tx'.instrs[i] = tx.instrs[i]
      /\ tx'.instrs[n + 1] = ix
  BY <1>0, <1>4
<1>6. /\ m \in Nat /\ q \in Nat /\ DOMAIN moves = 1 .. m /\ DOMAIN moved = 1 .. q /\ DOMAIN moves' = 1 .. (m + q)
      /\ \A i \in 1 .. m : moves'[i] = moves[i]
      /\ \A k \in 1 .. q : moves'[m + k] = moved[k]
  BY <1>0, <1>4
<1> HIDE DEF n, m, q
<1>7. /\ \A i \in DOMAIN tx.instrs : i \in DOMAIN tx'.instrs /\ tx'.instrs[i] = tx.instrs[i]
      /\ n + 1 \in DOMAIN tx'.instrs
  BY <1>5
<1>8. /\ \A i \in DOMAIN moves : i \in DOMAIN moves' /\ moves'[i] = moves[i]
      /\ \A k \in DOMAIN moved : m + k \in DOMAIN moves'
  BY <1>6
<1>9. \A a : Known(a) => Known(a)'
  BY <1>7 DEF Known, InitializeOps
<1>10. ASSUME NEW a, ChangedHands(a) PROVE ChangedHands(a)'
  <2>1. PICK i \in DOMAIN tx.instrs :
          /\ Field(tx.instrs[i], "account") = a
          /\ \/ tx.instrs[i].op = "setAuthority"
             \/ tx.instrs[i].op = "create" /\ a \in DOMAIN tx.pre.tokens /\ tx.pre.tokens[a].owner # tx.instrs[i].wallet
    BY <1>10 DEF ChangedHands
  <2> QED BY <1>4, <1>7, <2>1 DEF ChangedHands, Field
<1>11. \A f, t, a : Moved(f, t, a) => Moved(f, t, a)'
  BY <1>8 DEF Moved
<1>12. \A k \in DOMAIN moved : Moved(moved[k].from, moved[k].to, moved[k].asset)'
  BY <1>6, <1>8 DEF Moved
<1>13. ix.op \in InitializeOps => Known(ix.account)'
  BY <1>5, <1>7 DEF Known, InitializeOps
<1>14. ix.op = "setAuthority" => ChangedHands(ix.account)'
  <2>1. ix.op = "setAuthority" => Field(ix, "account") = ix.account
    BY InstructionAssumption DEF Field
  <2> QED BY <1>5, <1>7, <2>1 DEF ChangedHands, Field
<1>15. ix.op = "create" /\ ix.account \in DOMAIN StartLedger.tokens /\ StartLedger.tokens[ix.account].owner # ix.wallet
              => ChangedHands(ix.account)'
  <2>1. ix.op = "create" => Field(ix, "account") = ix.account
    BY AccountNamed DEF InitializeOps
  <2> QED BY <1>4, <1>5, <1>7, <2>1 DEF ChangedHands, Field
<1> QED BY <1>4, <1>9, <1>10, <1>11, <1>12, <1>13, <1>14, <1>15

(* The accounts after an instruction: as they were, in other hands by its  *)
(* doing, or opened by it.                                                 *)
RowOf(tokens, ix, b) ==
  LET row == tokens[b]
      was == tx.post.tokens[b]
  IN  \/ /\ b \in DOMAIN tx.post.tokens /\ row.mint = was.mint
         /\ row.owner = was.owner \/ (ix.op = "setAuthority" /\ ix.account = b)
      \/ ix.op = "create" /\ ix.account = b /\ row.owner = ix.wallet /\ row.mint = ix.mint

LEMMA HomesStep ==
  ASSUME LedgerTyped, HomesTrue, NEW ix \in Instructions, NEW side, NEW moved \in Seq(Movements), Executed(ix, side, moved),
         \A b \in DOMAIN side.tokens : RowOf(side.tokens, ix, b)
  PROVE  HomesTrue'
<1>1. /\ tx'.post = side
      /\ \A a : Known(a) => Known(a)'
      /\ \A a : ChangedHands(a) => ChangedHands(a)'
      /\ ix.op \in InitializeOps => Known(ix.account)'
      /\ ix.op = "setAuthority" => ChangedHands(ix.account)'
      /\ ix.op = "create" /\ ix.account \in DOMAIN StartLedger.tokens /\ StartLedger.tokens[ix.account].owner # ix.wallet
           => ChangedHands(ix.account)'
  BY Grown
<1>2. ASSUME NEW b \in DOMAIN side.tokens
      PROVE  Known(b)' /\ side.tokens[b].mint = HomeOf(b).mint /\ (side.tokens[b].owner = HomeOf(b).owner \/ ChangedHands(b)')
  <2>1. CASE /\ b \in DOMAIN tx.post.tokens /\ side.tokens[b].mint = tx.post.tokens[b].mint
             /\ side.tokens[b].owner = tx.post.tokens[b].owner \/ (ix.op = "setAuthority" /\ ix.account = b)
    <3>1. Known(b) /\ tx.post.tokens[b].mint = HomeOf(b).mint /\ (tx.post.tokens[b].owner = HomeOf(b).owner \/ ChangedHands(b))
      BY <2>1 DEF HomesTrue
    <3> QED BY <1>1, <2>1, <3>1
  <2>2. CASE ix.op = "create" /\ ix.account = b /\ side.tokens[b].owner = ix.wallet /\ side.tokens[b].mint = ix.mint
    <3>1. ix.op \in InitializeOps
      BY <2>2 DEF InitializeOps
    <3>2. HomeOf(b).mint = ix.mint /\ (b \notin DOMAIN StartLedger.tokens => HomeOf(b).owner = ix.wallet)
      BY <2>2, <3>1, HomeIsOne
    <3>3. b \in DOMAIN StartLedger.tokens => HomeOf(b).owner = StartLedger.tokens[b].owner
      BY DEF HomeOf
    <3> QED BY <1>1, <2>2, <3>1, <3>2, <3>3
  <2> QED BY <2>1, <2>2 DEF RowOf
<1>3. \A b : HomeOf(b)' = HomeOf(b)
  BY DEF HomeOf, InitializeOps
<1> QED BY <1>1, <1>2, <1>3 DEF HomesTrue

LEMMA MovesStep ==
  ASSUME LedgerTyped, MovesTrue, NEW ix \in Instructions, NEW side, NEW moved \in Seq(Movements), Executed(ix, side, moved),
         IsNative(ix) => \E k \in DOMAIN moved : moved[k].from = ix.source /\ moved[k].to = ix.destination /\ moved[k].asset = SOL,
         IsTransfer(ix) => TransferTrue(ix)'
  PROVE  MovesTrue'
<1>1. /\ tx'.instrs = Append(tx.instrs, ix)
      /\ \A a : Known(a) => Known(a)'
      /\ \A a : ChangedHands(a) => ChangedHands(a)'
      /\ \A f, t, a : Moved(f, t, a) => Moved(f, t, a)'
      /\ \A k \in DOMAIN moved : Moved(moved[k].from, moved[k].to, moved[k].asset)'
  BY Grown
<1>2. \A b : HomeOf(b)' = HomeOf(b)
  BY DEF HomeOf, InitializeOps
<1>3. \A o : IsNative(o)' = IsNative(o) /\ IsTransfer(o)' = IsTransfer(o) /\ (TransferTrue(o) => TransferTrue(o)')
  BY <1>1, <1>2 DEF IsNative, IsTransfer, TransferTrue, Transfers, Field, Keys
<1>4. tx.instrs \in Seq(Instructions)
  BY DEF LedgerTyped
<1>5. /\ DOMAIN tx'.instrs = 1 .. (Len(tx.instrs) + 1) /\ Len(tx.instrs) \in Nat /\ DOMAIN tx.instrs = 1 .. Len(tx.instrs)
      /\ \A i \in 1 .. Len(tx.instrs) : tx'.instrs[i] = tx.instrs[i]
      /\ tx'.instrs[Len(tx.instrs) + 1] = ix
  BY <1>1, <1>4
<1>6. ASSUME NEW i \in DOMAIN tx'.instrs, NEW o \in Instructions, tx'.instrs[i] = o
      PROVE  (IsNative(o) => Moved(o.source, o.destination, SOL)') /\ (IsTransfer(o) => TransferTrue(o)')
  <2>1. CASE i \in DOMAIN tx.instrs
    <3>1. tx.instrs[i] = o
      BY <1>5, <1>6, <2>1
    <3>2. (IsNative(o) => Moved(o.source, o.destination, SOL)) /\ (IsTransfer(o) => TransferTrue(o))
      BY <2>1, <3>1 DEF MovesTrue
    <3> QED BY <1>1, <1>3, <3>2
  <2>2. CASE i \notin DOMAIN tx.instrs
    <3>1. o = ix
      BY <1>5, <1>6, <2>2
    <3>2. IsNative(ix) => Moved(ix.source, ix.destination, SOL)'
      BY <1>1
    <3> QED BY <3>1, <3>2
  <2> QED BY <2>1, <2>2
<1>7. \A i \in DOMAIN tx'.instrs, o \in Instructions : tx'.instrs[i] = o
        => (IsNative(o)' => Moved(o.source, o.destination, SOL)') /\ (IsTransfer(o)' => TransferTrue(o)')
  BY <1>3, <1>6
<1> QED BY <1>7 DEF MovesTrue

Followed == LedgerTyped /\ HomesTrue /\ MovesTrue

LEMMA OtherHands ==
  ASSUME Followed, NEW ix \in Instructions, NEW side, NEW moved \in Seq(Movements), Executed(ix, side, moved),
         \A b \in DOMAIN side.tokens : RowOf(side.tokens, ix, b), ~IsNative(ix), ~IsTransfer(ix)
  PROVE  HomesTrue' /\ MovesTrue'
BY HomesStep, MovesStep DEF Followed

LEMMA SameRows == ASSUME NEW ix, NEW tokens, tokens = tx.post.tokens PROVE \A b \in DOMAIN tokens : RowOf(tokens, ix, b)
BY DEF RowOf

LEMMA PaysHands ==
  ASSUME Followed, NEW ix \in Instructions, NEW from \in Keys, NEW to \in Keys, NEW n \in Int,
         Executed(ix, Pay(tx.post, from, to, n), Move(SOL, from, to, n)), ~IsTransfer(ix),
         IsNative(ix) => ix.source = from /\ ix.destination = to
  PROVE  HomesTrue' /\ MovesTrue'
<1> DEFINE side == Pay(tx.post, from, to, n)
           mv == [asset |-> SOL, from |-> from, to |-> to, amount |-> n]
           moved == <<mv>>
<1>1. SideTyped(tx.post)
  BY DEF Followed, LedgerTyped, SideTyped
<1>2. side.tokens = tx.post.tokens
  <2>1. side = Pay(tx.post, from, to, n)
    OBVIOUS
  <2> HIDE DEF side
  <2> QED BY <1>1, <2>1, PayIs
<1>3. mv \in Movements
  BY DEF Movements, Hands, Assets
<1>4. moved \in Seq(Movements) /\ Executed(ix, side, moved) /\ 1 \in DOMAIN moved /\ moved[1] = mv
  BY <1>3, MoveIs
<1>5. mv.from = from /\ mv.to = to /\ mv.asset = SOL
  OBVIOUS
<1> HIDE DEF side, moved, mv
<1>6. \A b \in DOMAIN side.tokens : RowOf(side.tokens, ix, b)
  BY <1>2, SameRows
<1>7. IsNative(ix) => \E k \in DOMAIN moved : moved[k].from = ix.source /\ moved[k].to = ix.destination /\ moved[k].asset = SOL
  BY <1>4, <1>5
<1>8. HomesTrue'
  BY <1>4, <1>6, HomesStep DEF Followed
<1>9. MovesTrue'
  BY <1>4, <1>7, MovesStep DEF Followed
<1> QED BY <1>8, <1>9

LEMMA PayHands ==
  ASSUME Followed, NEW ix \in Instructions, SystemTransfer(ix) \/ DirectPay(ix)
  PROVE  HomesTrue' /\ MovesTrue'
<1>1. CASE SystemTransfer(ix)
  <2>1. ix.source \in Keys /\ ix.destination \in Keys /\ ix.lamports \in Int /\ ~IsTransfer(ix)
    BY <1>1, InstructionAssumption DEF SystemTransfer, Keys, IsTransfer
  <2> QED BY <1>1, <2>1, PaysHands DEF SystemTransfer
<1>2. CASE DirectPay(ix)
  <2>1. ix.from \in Keys /\ ix.to \in Keys /\ ix.lamports \in Int /\ ~IsTransfer(ix) /\ ~IsNative(ix)
    BY <1>2, InstructionAssumption DEF DirectPay, Keys, IsTransfer, IsNative
  <2> QED BY <1>2, <2>1, PaysHands DEF DirectPay
<1> QED BY <1>1, <1>2

LEMMA MarkHands ==
  ASSUME Followed, NEW ix \in Instructions, Mark(ix)
  PROVE  HomesTrue' /\ MovesTrue'
<1>1. Executed(ix, tx.post, <<>>) /\ ~IsTransfer(ix) /\ ~IsNative(ix)
  BY DEF Mark, IsTransfer, IsNative
<1>2. <<>> \in Seq(Movements)
  OBVIOUS
<1>3. \A b \in DOMAIN tx.post.tokens : RowOf(tx.post.tokens, ix, b)
  BY SameRows
<1> QED BY <1>1, <1>2, <1>3, OtherHands

LEMMA MintHands ==
  ASSUME Followed, NEW ix \in Instructions, MintTo(ix) \/ BurnTokens(ix)
  PROVE  HomesTrue' /\ MovesTrue'
<1> DEFINE a == ix.account
           row == tx.post.tokens[a]
           n == IF ix.op = "mintTo" THEN ix.amount ELSE -ix.amount
           side == Credit(tx.post, a, n)
           mv == [asset |-> ix.mint, from |-> IF ix.op = "mintTo" THEN None ELSE row.owner,
                  to |-> IF ix.op = "mintTo" THEN row.owner ELSE None, amount |-> ix.amount]
<1>1. /\ ix.amount \in Nat /\ a \in DOMAIN tx.post.tokens /\ row.mint = ix.mint /\ ~IsTransfer(ix) /\ ~IsNative(ix)
      /\ ix.op = "burn" => row.amount >= ix.amount
      /\ ix.op \in {"mintTo", "burn"}
  BY InstructionAssumption DEF MintTo, BurnTokens, Open, IsTransfer, IsNative, Transfers
<1>2. Executed(ix, side, <<mv>>)
  BY MoveIs DEF MintTo, BurnTokens
<1>3. SideTyped(tx.post)
  BY DEF Followed, LedgerTyped, SideTyped
<1>4. row.amount \in Nat /\ row.owner \in Hands /\ row.mint \in Mints
  BY <1>1, <1>3 DEF SideTyped, TokensTyped, TokenRows
<1>5. n \in Int /\ row.amount + n >= 0
  BY <1>1, <1>4
<1>6. mv \in Movements
  BY <1>1, <1>4 DEF Movements, Hands, Assets
<1>7. \A b \in DOMAIN side.tokens : RowOf(side.tokens, ix, b)
  <2>1. side = Credit(tx.post, a, n)
    OBVIOUS
  <2>2. row = tx.post.tokens[a]
    OBVIOUS
  <2> HIDE DEF side, n, row, a
  <2>3. /\ DOMAIN side.tokens = DOMAIN tx.post.tokens /\ \A b \in DOMAIN tx.post.tokens : b # a => side.tokens[b] = tx.post.tokens[b]
        /\ side.tokens[a] = [owner |-> row.owner, mint |-> row.mint, amount |-> row.amount + n]
    BY <1>1, <1>3, <1>5, <2>1, <2>2, CreditIs
  <2> QED BY <2>2, <2>3 DEF RowOf
<1>8. <<mv>> \in Seq(Movements)
  BY <1>6
<1> HIDE DEF side, mv
<1> QED BY <1>1, <1>2, <1>7, <1>8, OtherHands

LEMMA CreateHands ==
  ASSUME Followed, NEW ix \in Instructions, Create(ix)
  PROVE  HomesTrue' /\ MovesTrue'
<1> DEFINE a == ix.account
           row == [owner |-> ix.wallet, mint |-> ix.mint, amount |-> 0]
           old == tx.post.tokens
           settled == Pay(tx.post, ix.source, a, Rent)
           tokens == [b \in DOMAIN old \cup {a} |-> IF b = a THEN row ELSE old[b]]
           side == [settled EXCEPT !.tokens = tokens]
           mv == [asset |-> SOL, from |-> ix.source, to |-> None, amount |-> Rent]
<1>1. a \in Keys /\ ix.source \in Keys /\ Rent \in Int /\ ~IsTransfer(ix) /\ ~IsNative(ix) /\ ix.op = "create"
  BY InstructionAssumption, LedgerAssumption DEF Create, Derived, Keys, InitializeOps, IsTransfer, IsNative, Transfers
<1>2. SideTyped(tx.post)
  BY DEF Followed, LedgerTyped, SideTyped
<1>3. settled.tokens = old /\ SideTyped(settled)
  <2>1. settled = Pay(tx.post, ix.source, a, Rent)
    OBVIOUS
  <2> HIDE DEF settled, a
  <2> QED BY <1>1, <1>2, <2>1, PayIs
<1>4. Executed(ix, side, <<mv>>)
  BY <1>3, MoveIs DEF Create
<1>5. mv \in Movements
  BY <1>1 DEF Movements, Hands, Assets
<1>6. <<mv>> \in Seq(Movements)
  BY <1>5
<1>7. side.tokens = tokens
  <2> HIDE DEF settled, tokens
  <2>1. settled = [lamports |-> settled.lamports, tokens |-> settled.tokens]
    BY <1>3 DEF SideTyped
  <2> QED BY <2>1
<1>8. \A b \in DOMAIN tokens : RowOf(tokens, ix, b)
  BY <1>1 DEF RowOf
<1> HIDE DEF side, mv, tokens
<1> QED BY <1>1, <1>4, <1>6, <1>7, <1>8, OtherHands

LEMMA CloseHands ==
  ASSUME Followed, NEW ix \in Instructions, CloseAccount(ix)
  PROVE  HomesTrue' /\ MovesTrue'
<1> DEFINE a == ix.account
           n == tx.post.lamports[a]
           old == tx.post.tokens
           settled == Pay(tx.post, a, ix.destination, n)
           tokens == [b \in DOMAIN old \ {a} |-> old[b]]
           side == [settled EXCEPT !.tokens = tokens]
           mv == [asset |-> SOL, from |-> None, to |-> ix.destination, amount |-> n]
<1>2. SideTyped(tx.post)
  BY DEF Followed, LedgerTyped, SideTyped
<1>1. a \in Keys /\ ix.destination \in Keys /\ ~IsTransfer(ix) /\ ~IsNative(ix)
  BY <1>2, InstructionAssumption DEF CloseAccount, Keys, Open, IsTransfer, IsNative, Transfers, SideTyped, TokensTyped
<1>0. n \in Int
  BY <1>1, <1>2 DEF SideTyped
<1>3. settled.tokens = old /\ SideTyped(settled)
  <2>1. settled = Pay(tx.post, a, ix.destination, n)
    OBVIOUS
  <2> HIDE DEF settled, a, n
  <2> QED BY <1>0, <1>1, <1>2, <2>1, PayIs
<1>4. Executed(ix, side, <<mv>>)
  BY <1>3, MoveIs DEF CloseAccount, Lamports
<1>5. mv \in Movements
  BY <1>0, <1>1 DEF Movements, Hands, Assets
<1>6. <<mv>> \in Seq(Movements)
  BY <1>5
<1>7. side.tokens = tokens
  <2> HIDE DEF settled, tokens
  <2>1. settled = [lamports |-> settled.lamports, tokens |-> settled.tokens]
    BY <1>3 DEF SideTyped
  <2> QED BY <2>1
<1>8. \A b \in DOMAIN tokens : RowOf(tokens, ix, b)
  BY DEF RowOf
<1> HIDE DEF side, mv, tokens
<1> QED BY <1>1, <1>4, <1>6, <1>7, <1>8, OtherHands

LEMMA SetOwnerHands ==
  ASSUME Followed, NEW ix \in Instructions, SetOwner(ix)
  PROVE  HomesTrue' /\ MovesTrue'
<1> DEFINE a == ix.account
           row == tx.post.tokens[a]
           held == [owner |-> ix.newAuthority, mint |-> row.mint, amount |-> row.amount]
           side == [tx.post EXCEPT !.tokens[a].owner = ix.newAuthority]
           mv == [asset |-> row.mint, from |-> row.owner, to |-> ix.newAuthority, amount |-> row.amount]
<1>1. a \in DOMAIN tx.post.tokens /\ Executed(ix, side, <<mv>>) /\ ix.op = "setAuthority" /\ ~IsTransfer(ix) /\ ~IsNative(ix)
  BY MoveIs DEF SetOwner, Open, IsTransfer, IsNative, Transfers
<1>2. SideTyped(tx.post)
  BY DEF Followed, LedgerTyped, SideTyped
<1>3. row \in TokenRows /\ ix.newAuthority \in Hands
  BY <1>1, <1>2 DEF SideTyped, TokensTyped, Hands
<1>4. row = [owner |-> row.owner, mint |-> row.mint, amount |-> row.amount] /\ row.owner \in Hands /\ row.mint \in Mints /\ row.amount \in Nat
  BY <1>3 DEF TokenRows
<1>5. [row EXCEPT !.owner = ix.newAuthority] = held /\ held \in TokenRows
  <2> HIDE DEF row
  <2> QED BY <1>3, <1>4 DEF TokenRows
<1>6. side = [tx.post EXCEPT !.tokens[a] = [row EXCEPT !.owner = ix.newAuthority]]
  OBVIOUS
<1>7. side = [tx.post EXCEPT !.tokens[a] = held]
  BY <1>5, <1>6
<1>8. mv \in Movements
  <2> HIDE DEF row
  <2> QED BY <1>3, <1>4 DEF Movements, Assets
<1>9. <<mv>> \in Seq(Movements)
  BY <1>8
<1>10. held.mint = row.mint
  OBVIOUS
<1>11. row = tx.post.tokens[a]
  OBVIOUS
<1> HIDE DEF side, row, a
<1>12. /\ DOMAIN side.tokens = DOMAIN tx.post.tokens
       /\ \A b \in DOMAIN tx.post.tokens : side.tokens[b] = IF b = a THEN held ELSE tx.post.tokens[b]
  <2> HIDE DEF held
  <2> QED BY <1>1, <1>2, <1>5, <1>7, RowReplaced
<1>13. ix.account = a
  BY DEF a
<1> HIDE DEF held, mv
<1>14. \A b \in DOMAIN side.tokens : RowOf(side.tokens, ix, b)
  BY <1>1, <1>10, <1>11, <1>12, <1>13 DEF RowOf
<1> QED BY <1>1, <1>9, <1>14, OtherHands

LEMMA TransferHands ==
  ASSUME Followed, NEW ix \in Instructions, TokenMove(ix)
  PROVE  HomesTrue' /\ MovesTrue'
<1> DEFINE side == tx.post
           a == ix.source
           b == ix.destination
           n == ix.amount
           s == side.tokens[a]
           d == side.tokens[b]
           one == Credit(side, a, -n)
           two == Credit(one, b, n)
           mv == [asset |-> s.mint, from |-> s.owner, to |-> d.owner, amount |-> n]
           moved == <<mv>>
<1>1. /\ n \in Nat /\ a \in DOMAIN side.tokens /\ b \in DOMAIN side.tokens /\ a # b
      /\ s.mint = d.mint /\ s.amount >= n /\ s.owner = ix.authority /\ Field(ix, "mint") \in {None, s.mint}
      /\ Executed(ix, two, moved) /\ ~IsNative(ix)
  BY InstructionAssumption, MoveIs DEF TokenMove, Open, IsNative
<1>2. SideTyped(side)
  BY DEF Followed, LedgerTyped, SideTyped
<1>3. s.amount \in Nat /\ d.amount \in Nat /\ s.owner \in Hands /\ d.owner \in Hands /\ s.mint \in Mints /\ b \in Keys
  BY <1>1, <1>2 DEF SideTyped, TokensTyped, TokenRows
<1>4. s.amount + (-n) >= 0 /\ -n \in Int /\ d.amount + n >= 0 /\ n \in Int
  BY <1>1, <1>3
<1>d. one = Credit(side, a, -n) /\ s = side.tokens[a] /\ two = Credit(one, b, n) /\ d = side.tokens[b] /\ side = tx.post
      /\ a = ix.source /\ b = ix.destination
  OBVIOUS
<1>5. mv \in Movements
  <2> HIDE DEF s, d, n
  <2> QED BY <1>3, <1>4 DEF Movements, Assets
<1>6. moved \in Seq(Movements) /\ 1 \in DOMAIN moved /\ moved[1].from = s.owner /\ moved[1].to = d.owner /\ moved[1].asset = s.mint
  <2>1. mv.from = s.owner /\ mv.to = d.owner /\ mv.asset = s.mint
    OBVIOUS
  <2> HIDE DEF mv
  <2> QED BY <1>5, <2>1
<1> HIDE DEF side, a, b, n, s, d, one, two, moved
<1>7. /\ SideTyped(one) /\ DOMAIN one.tokens = DOMAIN side.tokens
      /\ one.tokens[a] = [owner |-> s.owner, mint |-> s.mint, amount |-> s.amount + (-n)]
      /\ \A c \in DOMAIN side.tokens : c # a => one.tokens[c] = side.tokens[c]
  BY <1>1, <1>2, <1>4, <1>d, CreditIs
<1>8. b \in DOMAIN one.tokens /\ one.tokens[b] = d /\ one.tokens[b].amount + n >= 0
  BY <1>1, <1>4, <1>7, <1>d
<1>9. /\ DOMAIN two.tokens = DOMAIN side.tokens
      /\ two.tokens[b] = [owner |-> d.owner, mint |-> d.mint, amount |-> d.amount + n]
      /\ \A c \in DOMAIN side.tokens : c # b => two.tokens[c] = one.tokens[c]
  BY <1>4, <1>7, <1>8, <1>d, CreditIs
<1>10. \A c \in DOMAIN two.tokens : RowOf(two.tokens, ix, c)
  <2> TAKE c \in DOMAIN two.tokens
  <2>1. c \in DOMAIN side.tokens /\ two.tokens[c].owner = side.tokens[c].owner /\ two.tokens[c].mint = side.tokens[c].mint
    <3>1. CASE c = b
      BY <1>9, <1>d, <3>1
    <3>2. CASE c = a
      BY <1>1, <1>7, <1>9, <1>d, <3>2
    <3>3. CASE c # a /\ c # b
      BY <1>7, <1>9, <3>3
    <3> QED BY <3>1, <3>2, <3>3
  <2> QED BY <1>d, <2>1 DEF RowOf
<1>l. LedgerTyped
  BY DEF Followed
<1>p. PICK list, owner, mint : list = moved /\ owner = d.owner /\ mint = s.mint
  OBVIOUS
<1>q. list \in Seq(Movements) /\ Executed(ix, two, list)
  BY <1>1, <1>6, <1>p
<1>11. /\ \A c : Known(c) => Known(c)'
       /\ \A c : ChangedHands(c) => ChangedHands(c)'
       /\ \A k \in DOMAIN list : Moved(list[k].from, list[k].to, list[k].asset)'
  BY <1>l, <1>q, Grown
<1>12. /\ Known(a) /\ s.mint = HomeOf(a).mint
       /\ Known(b) /\ d.mint = HomeOf(b).mint /\ (d.owner = HomeOf(b).owner \/ ChangedHands(b))
  BY <1>1, <1>d DEF Followed, HomesTrue
<1>13. \A c : HomeOf(c)' = HomeOf(c)
  BY DEF HomeOf, InitializeOps
<1>14. Moved(ix.authority, owner, mint)'
  <2>1. 1 \in DOMAIN list /\ list[1].from = ix.authority /\ list[1].to = owner /\ list[1].asset = mint
    BY <1>1, <1>6, <1>p
  <2> QED BY <1>11, <2>1
<1>15. TransferTrue(ix)'
  <2>1. Known(a)' /\ Known(b)' /\ (d.owner = HomeOf(b).owner \/ ChangedHands(b)')
    BY <1>11, <1>12
  <2>2. /\ Known(ix.source)' /\ Known(ix.destination)' /\ ix.destination \in Keys
        /\ HomeOf(ix.destination).mint = HomeOf(ix.source).mint /\ Field(ix, "mint") \in {None, HomeOf(ix.source).mint}
        /\ ChangedHands(ix.destination)' \/ Moved(ix.authority, HomeOf(ix.destination).owner, HomeOf(ix.source).mint)'
    <3>1. owner = HomeOf(ix.destination).owner => Moved(ix.authority, HomeOf(ix.destination).owner, HomeOf(ix.source).mint)'
      <4>1. mint = HomeOf(ix.source).mint
        BY <1>12, <1>d, <1>p
      <4>2. owner = HomeOf(ix.destination).owner => Moved(ix.authority, owner, mint)' = Moved(ix.authority, HomeOf(ix.destination).owner, HomeOf(ix.source).mint)'
        BY <1>13, <4>1 DEF Moved
      <4> QED BY <1>14, <4>2
    <3> QED BY <1>1, <1>3, <1>12, <1>d, <1>p, <2>1, <3>1
  <2> QED BY <1>13, <2>2 DEF TransferTrue, Field, Keys
<1>16. HomesTrue'
  BY <1>1, <1>6, <1>10, HomesStep DEF Followed
<1>17. MovesTrue'
  BY <1>1, <1>6, <1>15, MovesStep DEF Followed
<1> QED BY <1>16, <1>17

LEMMA HandsStart ==
  ASSUME NEW P, P \subseteq Wallets, PaidBy(P)
  PROVE  HomesTrue /\ MovesTrue
<1>1. PICK payer \in P : tx = [keys |-> <<payer>> \o Where(Accounts, LAMBDA a : a # payer), fee |-> Fee, pre |-> StartLedger,
             post |-> [StartLedger EXCEPT !.lamports[payer] = @ - Fee], instrs |-> <<>>, logs |-> <<>>]
  BY DEF PaidBy
<1>2. tx.instrs = <<>> /\ tx.post = [StartLedger EXCEPT !.lamports[payer] = @ - Fee]
  BY <1>1
<1>3. tx.post.tokens = StartLedger.tokens
  BY <1>2, StartTyped
<1>4. HomesTrue
  BY <1>3 DEF HomesTrue, Known, HomeOf
<1>5. MovesTrue
  BY <1>2 DEF MovesTrue
<1> QED BY <1>4, <1>5

LEMMA HandsMove ==
  ASSUME Followed, [LedgerNext]_ledgerVars
  PROVE  HomesTrue' /\ MovesTrue'
<1>1. CASE LedgerNext
  <2>1. PICK ix \in Instructions : Execute(ix)
    BY <1>1 DEF LedgerNext
  <2> QED BY <2>1, PayHands, TransferHands, MintHands, CreateHands, CloseHands, SetOwnerHands, MarkHands DEF Execute
<1>2. CASE UNCHANGED ledgerVars
  <2>1. tx' = tx /\ moves' = moves
    BY <1>2 DEF ledgerVars
  <2>2. \A a : HomeOf(a)' = HomeOf(a) /\ Known(a)' = Known(a) /\ ChangedHands(a)' = ChangedHands(a)
    BY <2>1 DEF HomeOf, Known, ChangedHands, InitializeOps, Field
  <2>3. HomesTrue'
    BY <2>1, <2>2 DEF Followed, HomesTrue
  <2>4. \A f, t, a : Moved(f, t, a)' = Moved(f, t, a)
    BY <2>1 DEF Moved
  <2>5. \A ix : TransferTrue(ix)' = TransferTrue(ix) /\ IsNative(ix)' = IsNative(ix) /\ IsTransfer(ix)' = IsTransfer(ix)
    BY <2>1, <2>2, <2>4 DEF TransferTrue, IsNative, IsTransfer, Transfers, Keys, Field
  <2>6. MovesTrue'
    BY <2>1, <2>4, <2>5 DEF Followed, MovesTrue
  <2> QED BY <2>3, <2>6
<1> QED BY <1>1, <1>2

(* The walk goes through the instructions of the transaction, all of them. *)
LEMMA WalkIs ==
  ASSUME LedgerTyped
  PROVE  /\ Walk(tx) \in Seq(Instructions)
         /\ \A k \in DOMAIN Walk(tx) : \E i \in DOMAIN tx.instrs : Walk(tx)[k] = tx.instrs[i]
         /\ \A i \in DOMAIN tx.instrs : \E k \in DOMAIN Walk(tx) : Walk(tx)[k] = tx.instrs[i]
<1> DEFINE s == tx.instrs
           O == {k \in DOMAIN s : ~s[k].inner}
           I == {k \in DOMAIN s : s[k].inner}
           o == SelectAt(s, O)
           c == SelectAt(s, I)
<1>1. s \in Seq(Instructions)
  BY DEF LedgerTyped
<1>2. Walk(tx) = o \o c
  BY DEF Walk, Where
<1>3. O \subseteq DOMAIN s /\ I \subseteq DOMAIN s /\ DOMAIN s = O \cup I
  OBVIOUS
<1> HIDE DEF s, O, I
<1>4. /\ o \in Seq(Instructions)
      /\ \A k \in DOMAIN o : \E i \in O : o[k] = s[i]
      /\ \A i \in O : \E k \in DOMAIN o : o[k] = s[i]
  BY <1>1, <1>3, Kept
<1>5. /\ c \in Seq(Instructions)
      /\ \A k \in DOMAIN c : \E i \in I : c[k] = s[i]
      /\ \A i \in I : \E k \in DOMAIN c : c[k] = s[i]
  BY <1>1, <1>3, Kept
<1> HIDE DEF o, c
<1> DEFINE q == o \o c
           n == Len(o)
           m == Len(c)
<1>6. q \in Seq(Instructions) /\ n \in Nat /\ m \in Nat /\ DOMAIN o = 1 .. n /\ DOMAIN c = 1 .. m /\ DOMAIN q = 1 .. (n + m)
      /\ (\A k \in 1 .. n : q[k] = o[k]) /\ (\A k \in 1 .. m : q[n + k] = c[k])
  BY <1>4, <1>5
<1>7. \A k \in 1 .. (n + m) : k \in 1 .. n \/ (k - n \in 1 .. m /\ n + (k - n) = k)
  BY <1>6
<1> HIDE DEF q, n, m
<1>8. \A k \in DOMAIN q : \E i \in DOMAIN s : q[k] = s[i]
  <2> TAKE k \in DOMAIN q
  <2>1. CASE k \in 1 .. n
    <3>1. q[k] = o[k] /\ k \in DOMAIN o
      BY <1>6, <2>1
    <3> QED BY <1>3, <1>4, <3>1
  <2>2. CASE k - n \in 1 .. m /\ n + (k - n) = k
    <3>1. q[k] = c[k - n] /\ k - n \in DOMAIN c
      BY <1>6, <2>2
    <3> QED BY <1>3, <1>5, <3>1
  <2> QED BY <1>6, <1>7, <2>1, <2>2
<1>9. \A i \in DOMAIN s : \E k \in DOMAIN q : q[k] = s[i]
  <2> TAKE i \in DOMAIN s
  <2>1. CASE i \in O
    <3>1. PICK k \in 1 .. n : o[k] = s[i]
      BY <1>4, <1>6, <2>1
    <3>2. k \in 1 .. (n + m) /\ q[k] = o[k]
      BY <1>6
    <3> QED BY <1>6, <3>1, <3>2
  <2>2. CASE i \in I
    <3>1. PICK k \in 1 .. m : c[k] = s[i]
      BY <1>5, <1>6, <2>2
    <3>2. n + k \in 1 .. (n + m) /\ q[n + k] = c[k]
      BY <1>6
    <3> QED BY <1>6, <3>1, <3>2
  <2> QED BY <1>3, <2>1, <2>2
<1>10. Walk(tx) = q
  BY <1>2 DEF q
<1>11. s = tx.instrs
  BY DEF s
<1> HIDE DEF s
<1> QED BY <1>6, <1>8, <1>9, <1>10, <1>11

(* The instructions of the walk that pass are of the transaction.          *)
LEMMA WalkWhere ==
  ASSUME LedgerTyped, NEW S, S \subseteq DOMAIN Walk(tx)
  PROVE  /\ SelectAt(Walk(tx), S) \in Seq(Instructions)
         /\ \A k \in DOMAIN SelectAt(Walk(tx), S) :
              /\ \E j \in S : SelectAt(Walk(tx), S)[k] = Walk(tx)[j]
              /\ \E i \in DOMAIN tx.instrs : SelectAt(Walk(tx), S)[k] = tx.instrs[i]
         /\ SelectAt(Walk(tx), S) = <<>> <=> S = {}
<1> DEFINE s == Walk(tx)
           q == SelectAt(s, S)
<1>1. /\ s \in Seq(Instructions)
      /\ \A k \in DOMAIN s : \E i \in DOMAIN tx.instrs : s[k] = tx.instrs[i]
  BY WalkIs
<1> HIDE DEF s
<1>s. S \subseteq DOMAIN s
  BY DEF s
<1>2. /\ q \in Seq(Instructions)
      /\ \A k \in DOMAIN q : \E j \in S : q[k] = s[j]
      /\ q = <<>> <=> S = {}
  BY <1>1, <1>s, Kept
<1> HIDE DEF q
<1>3. ASSUME NEW k \in DOMAIN q PROVE \E i \in DOMAIN tx.instrs : q[k] = tx.instrs[i]
  <2>1. PICK j \in S : q[k] = s[j]
    BY <1>2
  <2> QED BY <1>1, <1>s, <2>1
<1> QED BY <1>2, <1>3 DEF q, s

LEMMA AccountMapIs ==
  ASSUME LedgerTyped, HomesTrue, NEW a, Known(a)
  PROVE  AccountMap(tx, a).mint = HomeOf(a).mint /\ (AccountMap(tx, a).owner = HomeOf(a).owner \/ ChangedHands(a))
<1> DEFINE s == Walk(tx)
           S == {k \in DOMAIN s : s[k].op \in InitializeOps /\ Field(s[k], "account") = a}
           opening == SelectAt(s, S)
<1>1. tx.pre = StartLedger
  BY DEF LedgerTyped
<1>2. AccountMap(tx, a) = IF a \in Listed(tx) THEN BalanceRow(tx, a)
                          ELSE IF opening # <<>> THEN [owner |-> Head(opening).wallet, mint |-> Head(opening).mint]
                          ELSE [owner |-> None, mint |-> None]
  BY DEF AccountMap, Where
<1>3. CASE a \in DOMAIN tx.post.tokens
  BY <1>2, <1>3 DEF Listed, BalanceRow, HomesTrue
<1>4. CASE a \notin DOMAIN tx.post.tokens /\ a \in DOMAIN StartLedger.tokens
  BY <1>1, <1>2, <1>4 DEF Listed, BalanceRow, HomeOf
<1>5. CASE a \notin DOMAIN tx.post.tokens /\ a \notin DOMAIN StartLedger.tokens
  <2>1. PICK i \in DOMAIN tx.instrs : tx.instrs[i].op \in InitializeOps /\ tx.instrs[i].account = a
    BY <1>5 DEF Known
  <2>2. PICK k \in DOMAIN s : s[k] = tx.instrs[i]
    BY WalkIs
  <2>3. tx.instrs[i] \in Instructions
    BY DEF LedgerTyped
  <2>4. Field(tx.instrs[i], "account") = a
    BY <2>1, <2>3, AccountNamed
  <2>5. k \in S
    BY <2>1, <2>2, <2>4
  <2>6. S \subseteq DOMAIN Walk(tx)
    OBVIOUS
  <2>7. \A j \in S : s[j].op \in InitializeOps /\ Field(s[j], "account") = a
    OBVIOUS
  <2> HIDE DEF S
  <2>8. opening \in Seq(Instructions) /\ opening # <<>> /\ (\A j \in DOMAIN opening : \E l \in S : opening[j] = s[l])
    BY <2>5, <2>6, WalkWhere
  <2> HIDE DEF opening
  <2>9. 1 \in DOMAIN opening /\ Head(opening) = opening[1] /\ Head(opening) \in Instructions
    BY <2>8
  <2>10. Head(opening).op \in InitializeOps /\ Field(Head(opening), "account") = a
    BY <2>7, <2>8, <2>9
  <2>11. Head(opening).account = a
    BY <2>9, <2>10, AccountNamed
  <2>12. HomeOf(a).mint = Head(opening).mint /\ HomeOf(a).owner = Head(opening).wallet
    BY <1>5, <2>9, <2>10, <2>11, HomeIsOne
  <2>13. a \notin Listed(tx)
    BY <1>1, <1>5 DEF Listed
  <2>14. AccountMap(tx, a) = [owner |-> Head(opening).wallet, mint |-> Head(opening).mint]
    BY <1>2, <2>8, <2>13
  <2> QED BY <2>12, <2>14
<1> QED BY <1>3, <1>4, <1>5

(* What the parser lists of native transfers was moved.                    *)
LEMMA NativeMoved ==
  ASSUME LedgerTyped, MovesTrue
  PROVE  /\ NativeTransfers(tx) = [k \in 1 .. Len(NativeTransfers(tx)) |-> NativeTransfers(tx)[k]] /\ Len(NativeTransfers(tx)) \in Nat
         /\ \A k \in DOMAIN NativeTransfers(tx) :
              LET t == NativeTransfers(tx)[k] IN t.amount \in Int /\ Moved(t.from, t.to, SOL)
<1> DEFINE s == Walk(tx)
           S == {k \in DOMAIN s : s[k].program = "system" /\ s[k].op \in {"transfer", "transferWithSeed"}}
           sent == SelectAt(s, S)
           list == NativeTransfers(tx)
<1>1. list = [i \in DOMAIN sent |-> [from |-> sent[i].source, to |-> sent[i].destination, amount |-> sent[i].lamports]]
  BY DEF NativeTransfers, Where
<1>2. S \subseteq DOMAIN Walk(tx) /\ \A j \in S : IsNative(s[j])
  BY DEF IsNative
<1> HIDE DEF S
<1>3. /\ sent \in Seq(Instructions)
      /\ \A k \in DOMAIN sent : (\E j \in S : sent[k] = s[j]) /\ (\E i \in DOMAIN tx.instrs : sent[k] = tx.instrs[i])
  BY <1>2, WalkWhere
<1> HIDE DEF s, sent, list
<1>4. DOMAIN sent = 1 .. Len(sent) /\ Len(sent) \in Nat /\ DOMAIN list = DOMAIN sent
  BY <1>1, <1>3
<1>5. list = [k \in 1 .. Len(list) |-> list[k]] /\ Len(list) \in Nat
  BY <1>1, <1>4
<1>6. ASSUME NEW k \in DOMAIN list PROVE list[k].amount \in Int /\ Moved(list[k].from, list[k].to, SOL)
  <2> DEFINE ix == sent[k]
  <2>1. k \in DOMAIN sent /\ ix \in Instructions
    BY <1>3, <1>4
  <2>2. IsNative(ix)
    <3>1. PICK j \in S : sent[k] = s[j]
      BY <1>3, <2>1
    <3> QED BY <1>2, <3>1
  <2>3. PICK i \in DOMAIN tx.instrs : tx.instrs[i] = ix
    BY <1>3, <2>1
  <2>4. list[k] = [from |-> ix.source, to |-> ix.destination, amount |-> ix.lamports]
    BY <1>1, <2>1
  <2> HIDE DEF ix
  <2>5. Moved(ix.source, ix.destination, SOL)
    BY <2>1, <2>2, <2>3 DEF MovesTrue
  <2>6. ix.lamports \in Nat
    BY <2>1, <2>2, InstructionAssumption DEF IsNative
  <2> QED BY <2>4, <2>5, <2>6
<1> QED BY <1>5, <1>6 DEF list

(* And of token transfers, but of a mint of which an account changed hands.*)
LEMMA TokenMoved ==
  ASSUME LedgerTyped, HomesTrue, MovesTrue
  PROVE  /\ TokenTransfers(tx) = [k \in 1 .. Len(TokenTransfers(tx)) |-> TokenTransfers(tx)[k]] /\ Len(TokenTransfers(tx)) \in Nat
         /\ \A k \in DOMAIN TokenTransfers(tx) :
              LET t == TokenTransfers(tx)[k]
              IN  t.amount \in Int /\ (t.from = None \/ t.to = None \/ t.mint \in Handed \/ Moved(t.from, t.to, t.mint))
<1> DEFINE s == Walk(tx)
           S == {k \in DOMAIN s : s[k].program = "token" /\ s[k].op \in Transfers \cup {"mintTo", "burn"}}
           sent == SelectAt(s, S)
           list == TokenTransfers(tx)
<1>1. list = [i \in DOMAIN sent |-> TokenTransfer(tx, sent[i])]
  BY DEF TokenTransfers, Where
<1>2. S \subseteq DOMAIN Walk(tx) /\ \A j \in S : s[j].program = "token" /\ s[j].op \in Transfers \cup {"mintTo", "burn"}
  OBVIOUS
<1> HIDE DEF S
<1>3. /\ sent \in Seq(Instructions)
      /\ \A k \in DOMAIN sent : (\E j \in S : sent[k] = s[j]) /\ (\E i \in DOMAIN tx.instrs : sent[k] = tx.instrs[i])
  BY <1>2, WalkWhere
<1> HIDE DEF s, sent, list
<1>4. DOMAIN sent = 1 .. Len(sent) /\ Len(sent) \in Nat /\ DOMAIN list = DOMAIN sent
  BY <1>1, <1>3
<1>5. list = [k \in 1 .. Len(list) |-> list[k]] /\ Len(list) \in Nat
  BY <1>1, <1>4
<1>6. ASSUME NEW k \in DOMAIN list
      PROVE  LET t == list[k]
             IN  t.amount \in Int /\ (t.from = None \/ t.to = None \/ t.mint \in Handed \/ Moved(t.from, t.to, t.mint))
  <2> DEFINE ix == sent[k]
             t == list[k]
  <2>1. k \in DOMAIN sent /\ ix \in Instructions /\ t = TokenTransfer(tx, ix)
    BY <1>1, <1>3, <1>4
  <2>2. ix.program = "token" /\ ix.op \in Transfers \cup {"mintTo", "burn"}
    <3>1. PICK j \in S : sent[k] = s[j]
      BY <1>3, <2>1
    <3> QED BY <1>2, <3>1
  <2>3. PICK i \in DOMAIN tx.instrs : tx.instrs[i] = ix
    BY <1>3, <2>1
  <2> HIDE DEF ix, t
  <2>4. t.amount = ix.amount /\ ix.amount \in Int
    <3>1. t.amount = ix.amount
      BY <2>1 DEF TokenTransfer
    <3> QED BY <2>1, <2>2, <3>1, InstructionAssumption
  <2>5. CASE ix.op = "mintTo"
    <3>1. t.from = None
      BY <2>1, <2>5 DEF TokenTransfer
    <3> QED BY <2>4, <3>1 DEF t
  <2>6. CASE ix.op = "burn"
    <3>1. t.to = None
      BY <2>1, <2>6 DEF TokenTransfer, Transfers
    <3> QED BY <2>4, <3>1 DEF t
  <2>7. CASE ix.op \in Transfers
    <3> DEFINE d == ix.destination
               held == AccountMap(tx, ix.source)
               m == HomeOf(ix.source).mint
    <3>1. TransferTrue(ix)
      BY <2>1, <2>2, <2>3, <2>7 DEF MovesTrue, IsTransfer
    <3>2. /\ Known(ix.source) /\ Known(d) /\ d \in Keys /\ HomeOf(d).mint = m /\ Field(ix, "mint") \in {None, m}
          /\ ChangedHands(d) \/ Moved(ix.authority, HomeOf(d).owner, m)
      BY <3>1 DEF TransferTrue
    <3>3. held.mint = m /\ AccountMap(tx, d).mint = m /\ (AccountMap(tx, d).owner = HomeOf(d).owner \/ ChangedHands(d))
      BY <3>2, AccountMapIs
    <3>4. t.from = ix.authority /\ t.to = AccountMap(tx, d).owner
          /\ t.mint = IF Field(ix, "mint") # None THEN Field(ix, "mint") ELSE held.mint
      <4>1. ix.op # "mintTo" /\ ix.op # "burn"
        BY <2>7 DEF Transfers
      <4>2. t.to = CASE ix.op \in Transfers -> AccountMap(tx, d).owner
                     [] ix.op = "mintTo" -> held.owner
                     [] ix.op = "burn" -> None
        BY <2>1, <2>7 DEF TokenTransfer
      <4>3. t.to = AccountMap(tx, d).owner
        BY <2>7, <4>1, <4>2
      <4>4. t.from = ix.authority
        BY <2>1, <4>1 DEF TokenTransfer
      <4>5. t.mint = IF Field(ix, "mint") # None THEN Field(ix, "mint") ELSE held.mint
        BY <2>1, <2>7 DEF TokenTransfer
      <4> QED BY <4>3, <4>4, <4>5
    <3> HIDE DEF d, held, m
    <3>5. t.mint = m
      BY <3>2, <3>3, <3>4
    <3>6. ChangedHands(d) => t.mint \in Handed
      BY <3>2, <3>3, <3>5 DEF Handed, Keys
    <3>7. ~ChangedHands(d) => Moved(t.from, t.to, t.mint)
      BY <3>2, <3>3, <3>4, <3>5
    <3> QED BY <2>4, <3>6, <3>7 DEF t
  <2> QED BY <2>2, <2>5, <2>6, <2>7
<1> QED BY <1>5, <1>6 DEF list

(* Of finitely many weights, one is the greatest, the earliest of these.   *)
LEMMA ArgMax ==
  ASSUME NEW n \in Nat, n > 0, NEW f, \A i \in 1 .. n : f[i] \in Int
  PROVE  \E i \in 1 .. n : \A j \in 1 .. n : f[i] > f[j] \/ (f[i] = f[j] /\ i <= j)
<1> DEFINE Best(i, k) == i \in 1 .. k /\ \A j \in 1 .. k : f[i] > f[j] \/ (f[i] = f[j] /\ i <= j)
           Bad == {k \in Nat : k \in 1 .. n /\ ~\E i \in 1 .. n : Best(i, k)}
<1>1. ASSUME Bad # {} PROVE FALSE
  <2>1. PICK k \in Bad : \A l \in Bad : k <= l
    BY <1>1, LeastOf
  <2>2. k \in 1 .. n /\ k \in Nat
    OBVIOUS
  <2>3. CASE k = 1
    <3>1. Best(1, 1) /\ 1 \in 1 .. n
      OBVIOUS
    <3> QED BY <2>1, <2>3, <3>1
  <2>4. CASE k # 1
    <3>1. k - 1 \in Nat /\ k - 1 \in 1 .. n /\ k - 1 \notin Bad
      <4>1. k - 1 \in Nat /\ k - 1 \in 1 .. n /\ ~(k <= k - 1)
        BY <2>2, <2>4
      <4> QED BY <2>1, <4>1
    <3>2. PICK i \in 1 .. n : Best(i, k - 1)
      BY <3>1
    <3>3. f[i] \in Int /\ f[k] \in Int
      BY <2>2
    <3>4. \A j \in 1 .. k : j = k \/ j \in 1 .. (k - 1)
      BY <2>2
    <3>5. CASE f[k] > f[i]
      <4>1. ASSUME NEW j \in 1 .. k PROVE f[k] > f[j] \/ (f[k] = f[j] /\ k <= j)
        <5>1. j \in 1 .. n /\ f[j] \in Int
          BY <2>2
        <5>2. CASE j = k
          BY <3>3, <5>2
        <5>3. CASE j \in 1 .. (k - 1)
          <6>1. f[i] >= f[j]
            BY <3>2, <3>3, <5>1, <5>3
          <6> QED BY <3>3, <3>5, <5>1, <6>1
        <5> QED BY <3>4, <5>2, <5>3
      <4>2. Best(k, k)
        BY <2>2, <4>1
      <4> QED BY <2>1, <2>2, <4>2
    <3>6. CASE ~(f[k] > f[i])
      <4>0. i \in 1 .. (k - 1)
        BY <3>2
      <4>1. ASSUME NEW j \in 1 .. k PROVE f[i] > f[j] \/ (f[i] = f[j] /\ i <= j)
        <5>2. CASE j = k
          BY <2>2, <3>3, <3>6, <4>0, <5>2
        <5>3. CASE j \in 1 .. (k - 1)
          BY <3>2, <5>3
        <5> QED BY <3>4, <5>2, <5>3
      <4>2. Best(i, k)
        BY <2>2, <4>0, <4>1
      <4> QED BY <2>1, <4>2
    <3> QED BY <3>5, <3>6
  <2> QED BY <2>3, <2>4
<1>2. n \notin Bad
  BY <1>1
<1> QED BY <1>2

(* A transfer of the asset between the wallet and who is named.            *)
Between(t, w, c, out) == (IF out THEN t.from ELSE t.to) = w /\ (IF out THEN t.to ELSE t.from) = c

Weighed(list) ==
  list = [k \in 1 .. Len(list) |-> list[k]] /\ Len(list) \in Nat /\ \A k \in DOMAIN list : list[k].amount \in Int

LEMMA WeighedSeq ==
  ASSUME NEW list, Weighed(list)
  PROVE  list \in Seq({list[k] : k \in DOMAIN list})
<1> DEFINE T == {list[k] : k \in DOMAIN list}
           n == Len(list)
<1>1. list = [k \in 1 .. n |-> list[k]] /\ n \in Nat
  BY DEF Weighed
<1>2. DOMAIN list = 1 .. n
  BY <1>1
<1>3. \A k \in 1 .. n : list[k] \in T
  BY <1>2
<1> HIDE DEF T, n
<1>4. list \in [1 .. n -> T]
  BY <1>1, <1>3
<1> QED BY <1>1, <1>4 DEF T

Outweighs(fits, k) ==
  \A j \in DOMAIN fits : fits[k].amount > fits[j].amount \/ (fits[k].amount = fits[j].amount /\ k <= j)

Heaviest(fits) == CHOOSE k \in DOMAIN fits : Outweighs(fits, k)

(* The choice of the heaviest among those kept is one of them.             *)
LEMMA HeaviestIsKept ==
  ASSUME NEW all, Weighed(all), NEW S, S \subseteq DOMAIN all, NEW fits, fits = SelectAt(all, S), fits # <<>>,
         NEW i, i = Heaviest(fits)
  PROVE  \E k \in S : fits[i] = all[k]
<1> DEFINE T == {all[k] : k \in DOMAIN all}
           n == Len(fits)
           f == [k \in 1 .. n |-> fits[k].amount]
<1>1. all \in Seq(T)
  BY WeighedSeq
<1>2. \A t \in T : t.amount \in Int
  BY DEF Weighed
<1> HIDE DEF T
<1>3. fits \in Seq(T) /\ \A k \in DOMAIN fits : \E j \in S : fits[k] = all[j]
  BY <1>1, Kept
<1>4. n \in Nat /\ n > 0 /\ DOMAIN fits = 1 .. n /\ \A k \in 1 .. n : fits[k] \in T
  BY <1>3
<1> HIDE DEF n
<1>5. \A k \in 1 .. n : f[k] \in Int /\ f[k] = fits[k].amount
  BY <1>2, <1>4
<1> HIDE DEF f
<1>6. \E k \in 1 .. n : \A j \in 1 .. n : f[k] > f[j] \/ (f[k] = f[j] /\ k <= j)
  BY <1>4, <1>5, ArgMax
<1>7. PICK k \in 1 .. n : \A j \in 1 .. n : f[k] > f[j] \/ (f[k] = f[j] /\ k <= j)
  BY <1>6
<1>9. ASSUME NEW j \in DOMAIN fits
      PROVE  fits[k].amount > fits[j].amount \/ (fits[k].amount = fits[j].amount /\ k <= j)
  <2>1. j \in 1 .. n
    BY <1>4
  <2>2. f[k] > f[j] \/ (f[k] = f[j] /\ k <= j)
    BY <1>7, <2>1
  <2>3. f[k] = fits[k].amount /\ f[j] = fits[j].amount
    BY <1>5, <1>7, <2>1
  <2> QED BY <2>2, <2>3
<1>10. k \in DOMAIN fits /\ Outweighs(fits, k)
  BY <1>4, <1>7, <1>9 DEF Outweighs
<1>8. i \in DOMAIN fits
  BY <1>10 DEF Heaviest
<1> QED BY <1>3, <1>8

LEMMA CounterpartyIs ==
  ASSUME NEW p, Weighed(p.nativeTransfers), Weighed(p.tokenTransfers), NEW w, NEW asset, NEW out \in BOOLEAN,
         NEW c, c = CounterpartyFor(p, w, asset, out), c # None
  PROVE  /\ c # w
         /\ IF asset = SOL THEN \E k \in DOMAIN p.nativeTransfers : Between(p.nativeTransfers[k], w, c, out)
            ELSE \E k \in DOMAIN p.tokenTransfers : p.tokenTransfers[k].mint = asset /\ Between(p.tokenTransfers[k], w, c, out)
<1> DEFINE mine == {k \in DOMAIN p.tokenTransfers : p.tokenTransfers[k].mint = asset}
           all == IF asset = SOL THEN p.nativeTransfers ELSE SelectAt(p.tokenTransfers, mine)
           own(t) == IF out THEN t.from ELSE t.to
           other(t) == IF out THEN t.to ELSE t.from
           S == {k \in DOMAIN all : own(all[k]) = w /\ other(all[k]) \notin {None, w}}
           fits == SelectAt(all, S)
           i == Heaviest(fits)
<1>1. c = IF fits = <<>> THEN None ELSE other(fits[i])
  BY DEF CounterpartyFor, Where, Heaviest, Outweighs
<1>2. fits # <<>> /\ c = other(fits[i])
  BY <1>1
<1>3. Weighed(all) /\ (asset # SOL => \A k \in DOMAIN all : \E j \in mine : all[k] = p.tokenTransfers[j])
  <2>1. CASE asset = SOL
    BY <2>1
  <2>2. CASE asset # SOL
    <3> DEFINE list == p.tokenTransfers
               T == {list[k] : k \in DOMAIN list}
               q == SelectAt(list, mine)
    <3>1. list \in Seq(T) /\ mine \subseteq DOMAIN list
      BY WeighedSeq
    <3>2. \A t \in T : t.amount \in Int
      BY DEF Weighed
    <3>3. all = q
      BY <2>2
    <3> HIDE DEF T, mine, list
    <3>4. q \in Seq(T) /\ \A k \in DOMAIN q : \E j \in mine : q[k] = list[j]
      BY <3>1, Kept
    <3> HIDE DEF q
    <3>5. Weighed(q)
      BY <3>2, <3>4 DEF Weighed
    <3> HIDE DEF all
    <3> QED BY <3>3, <3>4, <3>5 DEF list
  <2> QED BY <2>1, <2>2
<1>4. \A k \in S : own(all[k]) = w /\ other(all[k]) \notin {None, w} /\ k \in DOMAIN all
  OBVIOUS
<1>5. S \subseteq DOMAIN all /\ fits = SelectAt(all, S) /\ (asset = SOL => all = p.nativeTransfers)
      /\ (\A k \in mine : k \in DOMAIN p.tokenTransfers /\ p.tokenTransfers[k].mint = asset)
  OBVIOUS
<1>6. i = Heaviest(fits)
  OBVIOUS
<1> HIDE DEF all, S, fits, i, mine
<1>12. Weighed(all) /\ S \subseteq DOMAIN all /\ fits = SelectAt(all, S) /\ fits # <<>>
  BY <1>2, <1>3, <1>5
<1>7. PICK k \in S : fits[i] = all[k]
  BY <1>6, <1>12, HeaviestIsKept
<1>8. c = other(all[k]) /\ c # w /\ own(all[k]) = w /\ k \in DOMAIN all
  BY <1>2, <1>4, <1>7
<1>9. Between(all[k], w, c, out)
  BY <1>8 DEF Between
<1>10. CASE asset = SOL
  BY <1>5, <1>8, <1>9, <1>10
<1>11. CASE asset # SOL
  <2>1. PICK j \in mine : all[k] = p.tokenTransfers[j]
    BY <1>3, <1>8, <1>11
  <2>2. j \in DOMAIN p.tokenTransfers /\ p.tokenTransfers[j].mint = asset
    BY <1>5
  <2> QED BY <1>8, <1>9, <1>11, <2>1, <2>2
<1> QED BY <1>10, <1>11

LEMMA CounterpartyMoved ==
  ASSUME LedgerTyped, HomesTrue, MovesTrue, NEW w \in Wallets, NEW asset, asset \notin Handed, NEW out \in BOOLEAN,
         NEW c, c = CounterpartyFor(ParseTransaction(tx), w, asset, out), c # None
  PROVE  c # w /\ (IF out THEN Moved(w, c, asset) ELSE Moved(c, w, asset))
<1> DEFINE p == ParseTransaction(tx)
<1>1. p.nativeTransfers = NativeTransfers(tx) /\ p.tokenTransfers = TokenTransfers(tx)
  BY Parsed
<1>d. c = CounterpartyFor(p, w, asset, out)
  OBVIOUS
<1> HIDE DEF p
<1>2. Weighed(NativeTransfers(tx)) /\ \A k \in DOMAIN NativeTransfers(tx) :
         Moved(NativeTransfers(tx)[k].from, NativeTransfers(tx)[k].to, SOL)
  BY NativeMoved DEF Weighed
<1>3. Weighed(TokenTransfers(tx)) /\ \A k \in DOMAIN TokenTransfers(tx) :
         LET t == TokenTransfers(tx)[k] IN t.from = None \/ t.to = None \/ t.mint \in Handed \/ Moved(t.from, t.to, t.mint)
  BY TokenMoved DEF Weighed
<1>4. /\ c # w
      /\ IF asset = SOL THEN \E k \in DOMAIN p.nativeTransfers : Between(p.nativeTransfers[k], w, c, out)
         ELSE \E k \in DOMAIN p.tokenTransfers : p.tokenTransfers[k].mint = asset /\ Between(p.tokenTransfers[k], w, c, out)
  BY <1>1, <1>2, <1>3, <1>d, CounterpartyIs
<1>5. w # None
  BY LedgerAssumption
<1>6. CASE asset = SOL
  <2>1. PICK k \in DOMAIN NativeTransfers(tx) : Between(NativeTransfers(tx)[k], w, c, out)
    BY <1>1, <1>4, <1>6
  <2> DEFINE t == NativeTransfers(tx)[k]
  <2>2. Moved(t.from, t.to, SOL) /\ Between(t, w, c, out)
    BY <1>2, <2>1
  <2> HIDE DEF t
  <2>3. CASE out
    BY <1>4, <1>6, <2>2, <2>3 DEF Between
  <2>4. CASE ~out
    BY <1>4, <1>6, <2>2, <2>4 DEF Between
  <2> QED BY <2>3, <2>4
<1>7. CASE asset # SOL
  <2>1. PICK k \in DOMAIN TokenTransfers(tx) : TokenTransfers(tx)[k].mint = asset /\ Between(TokenTransfers(tx)[k], w, c, out)
    BY <1>1, <1>4, <1>7
  <2> DEFINE t == TokenTransfers(tx)[k]
  <2>2. (t.from = None \/ t.to = None \/ t.mint \in Handed \/ Moved(t.from, t.to, t.mint)) /\ Between(t, w, c, out) /\ t.mint = asset
    BY <1>3, <2>1
  <2> HIDE DEF t
  <2>3. CASE out
    BY <1>4, <1>5, <2>2, <2>3 DEF Between
  <2>4. CASE ~out
    BY <1>4, <1>5, <2>2, <2>4 DEF Between
  <2> QED BY <2>3, <2>4
<1> QED BY <1>6, <1>7

LEMMA CounterpartiesTrue ==
  ASSUME LedgerTyped, HomesTrue, MovesTrue
  PROVE  CounterpartyTrue
<1> SUFFICES ASSUME NEW w \in Wallets PROVE NamesTheOther(TransformTransaction(ParseTransaction(tx), w), w)
  BY DEF CounterpartyTrue
<1> DEFINE p == ParseTransaction(tx)
           delta == ComputeWalletDelta(p, w)
           legs == BuildLegs(delta)
           nfts == NftMints(p)
           type == ResolveType(p, w, legs)
           item == TransformTransaction(ParseTransaction(tx), w)
           in(a) == IF type = "receive" THEN CounterpartyFor(p, w, a, FALSE) ELSE None
           out(a) == IF type = "send" THEN CounterpartyFor(p, w, a, TRUE) ELSE None
<1>1. /\ item.inputs = {[asset |-> a, amount |-> IF a \in nfts THEN 1 ELSE Abs(delta[a]), other |-> in(a)] : a \in legs.inputs}
      /\ item.outputs = {[asset |-> a, amount |-> IF a \in nfts THEN 1 ELSE Abs(delta[a]), other |-> out(a)] : a \in legs.outputs}
  BY DEF TransformTransaction, Shaped
<1>2. ASSUME NEW a, a \notin Handed, in(a) # None PROVE in(a) # w /\ Moved(in(a), w, a)
  <2>1. in(a) = CounterpartyFor(ParseTransaction(tx), w, a, FALSE)
    BY <1>2
  <2> HIDE DEF in
  <2> QED BY <1>2, <2>1, CounterpartyMoved
<1>3. ASSUME NEW a, a \notin Handed, out(a) # None PROVE out(a) # w /\ Moved(w, out(a), a)
  <2>1. out(a) = CounterpartyFor(ParseTransaction(tx), w, a, TRUE)
    BY <1>3
  <2> HIDE DEF out
  <2> QED BY <1>3, <2>1, CounterpartyMoved
<1> HIDE DEF in, out, legs, delta, nfts, item
<1>4. ASSUME NEW leg \in item.inputs, leg.asset \notin Handed, leg.other # None
      PROVE  leg.other # w /\ Moved(leg.other, w, leg.asset)
  <2>1. PICK a \in legs.inputs : leg = [asset |-> a, amount |-> IF a \in nfts THEN 1 ELSE Abs(delta[a]), other |-> in(a)]
    BY <1>1
  <2>2. leg.asset = a /\ leg.other = in(a)
    BY <2>1
  <2> QED BY <1>2, <1>4, <2>2
<1>5. ASSUME NEW leg \in item.outputs, leg.asset \notin Handed, leg.other # None
      PROVE  leg.other # w /\ Moved(w, leg.other, leg.asset)
  <2>1. PICK a \in legs.outputs : leg = [asset |-> a, amount |-> IF a \in nfts THEN 1 ELSE Abs(delta[a]), other |-> out(a)]
    BY <1>1
  <2>2. leg.asset = a /\ leg.other = out(a)
    BY <2>1
  <2> QED BY <1>3, <1>5, <2>2
<1> QED BY <1>4, <1>5 DEF NamesTheOther, item

LedgerInv == LedgerTyped /\ LamportsTrue /\ TokensTrue /\ HomesTrue /\ MovesTrue

(* However a transaction is put together of its instructions, the ledger   *)
(* is what the instructions moved, and the accounts are whose they were or *)
(* changed hands.                                                          *)
LEMMA LedgerInvAlways == ServicesSpec => []LedgerInv
<1>1. ServicesInit => LedgerInv
  <2> HAVE ServicesInit
  <2>1. One(Wallets) \subseteq Wallets
    BY StartAssumption DEF One
  <2>2. \E P \in SUBSET Wallets : PaidBy(P)
    BY <2>1 DEF ServicesInit
  <2> QED BY <2>2, LedgerStarts, HandsStart DEF LedgerInv
<1>2. LedgerInv /\ [ServicesNext]_serviceVars => LedgerInv'
  <2>1. [ServicesNext]_serviceVars => [LedgerNext]_ledgerVars
    BY DEF ServicesNext, serviceVars, Transactions, SkrStake, Staking, Nfts, NftAction, Events, Bitcoin, Balance
  <2>2. LedgerInv /\ [LedgerNext]_ledgerVars => LedgerTyped' /\ LamportsTrue' /\ TokensTrue'
    BY LedgerMoves DEF LedgerInv
  <2>3. LedgerInv /\ [LedgerNext]_ledgerVars => HomesTrue' /\ MovesTrue'
    BY HandsMove DEF LedgerInv, Followed
  <2> QED BY <2>1, <2>2, <2>3 DEF LedgerInv
<1> QED BY <1>1, <1>2, PTL DEF ServicesSpec

(* Whatever a transaction is made of, both mappers show a wallet exactly   *)
(* what it gained and lost of each asset, but for a small amount of SOL    *)
(* beside a token; the mapper of parsed transactions while no token        *)
(* account that held something is in other hands at the end                *)
(* (computeWalletDelta, computeRpcWalletDelta, buildLegs).                 *)
THEOREM LegsShownExact == ServicesSpec => []LegsExact
<1>1. LedgerInv => LegsExact
  BY LegsTrue DEF LedgerInv
<1> QED BY <1>1, LedgerInvAlways, PTL

(* Who a leg names moved that asset to or from the wallet, however many    *)
(* transfers and accounts the transaction has, unless an account of the    *)
(* asset changed hands (counterpartyFor, buildAccountMap).                 *)
THEOREM CounterpartyIsTrue == ServicesSpec => []CounterpartyTrue
<1>1. LedgerInv => CounterpartyTrue
  BY CounterpartiesTrue DEF LedgerInv
<1> QED BY <1>1, LedgerInvAlways, PTL

(* A transaction that the history leaves out, as spam or as housekeeping,  *)
(* cost the wallet at most a small amount of SOL and, as spam, brought it  *)
(* nothing that the catalog verifies (isSpamReceive, isHousekeeping).      *)
THEOREM HiddenCostsNothing == ServicesSpec => []HiddenLosesNothing
<1>1. LedgerInv => HiddenLosesNothing
  BY HiddenTrue DEF LedgerInv
<1> QED BY <1>1, LedgerInvAlways, PTL

-----------------------------------------------------------------------------
(* The rows of a stake's history (SkrStaking).                             *)

(* A sum over parts that have no element in common.                        *)
LEMMA SumOfParts ==
  ASSUME NEW A, IsFiniteSet(A), NEW P, IsFiniteSet(P), NEW C, \A x \in A : C[x] \subseteq P,
         \A x, y \in A : x # y => C[x] \cap C[y] = {}, NEW w, \A y \in P : w[y] \in Int,
         NEW v, \A x \in A : v[x] = SumFunctionOnSet(w, C[x])
  PROVE  SumFunctionOnSet(v, A) = SumFunctionOnSet(w, UNION {C[x] : x \in A})
<1> DEFINE All(S) == UNION {C[x] : x \in S}
           Total(S) == SumFunctionOnSet(v, S)
           Bad == {n \in Nat : \E S \in SUBSET A : Cardinality(S) = n /\ Total(S) # SumFunctionOnSet(w, All(S))}
<1>1. ASSUME NEW S \in SUBSET A PROVE IsFiniteSet(S) /\ IsFiniteSet(All(S)) /\ All(S) \subseteq P
  <2>1. All(S) \subseteq P
    OBVIOUS
  <2> QED BY <2>1, FS_Subset
<1>2. ASSUME NEW x \in A PROVE v[x] \in Int
  <2>1. IsFiniteSet(C[x]) /\ \A y \in C[x] : w[y] \in Int
    BY FS_Subset
  <2> QED BY <2>1, SumOfInts
<1>3. Total({}) = 0 /\ SumFunctionOnSet(w, All({})) = 0
  <2>1. All({}) = {}
    OBVIOUS
  <2> QED BY <2>1, SumOfNone
<1>4. ASSUME NEW S \in SUBSET A, NEW x \in S, Total(S \ {x}) = SumFunctionOnSet(w, All(S \ {x}))
      PROVE  Total(S) = SumFunctionOnSet(w, All(S))
  <2> DEFINE T == S \ {x}
  <2>1. Total(S) = v[x] + Total(T)
    BY <1>1, <1>2, SumOfOneMore
  <2>2. All(S) = C[x] \cup All(T) /\ C[x] \cap All(T) = {} /\ C[x] \subseteq P /\ T \in SUBSET A
    OBVIOUS
  <2>3. IsFiniteSet(C[x]) /\ IsFiniteSet(All(T)) /\ \A y \in C[x] \cup All(T) : w[y] \in Int
    BY <1>1, <2>2, FS_Subset
  <2> HIDE DEF All, T, Total
  <2>4. SumFunctionOnSet(w, C[x] \cup All(T)) = SumFunctionOnSet(w, C[x]) + SumFunctionOnSet(w, All(T))
    BY <2>2, <2>3, SumJoined
  <2> QED BY <1>4, <2>1, <2>2, <2>4 DEF T
<1> HIDE DEF All, Total
<1>5. ASSUME Bad # {} PROVE FALSE
  <2>1. PICK n \in Bad : \A k \in Bad : n <= k
    BY <1>5, LeastOf
  <2>2. PICK S \in SUBSET A : Cardinality(S) = n /\ Total(S) # SumFunctionOnSet(w, All(S))
    BY <2>1
  <2>3. PICK x \in S : TRUE
    BY <1>3, <2>2
  <2>4. Cardinality(S \ {x}) = n - 1 /\ n - 1 \in Nat
    BY <2>2, <2>3, SmallerBy
  <2>5. Total(S \ {x}) = SumFunctionOnSet(w, All(S \ {x}))
    <3>1. ~(n <= n - 1) /\ S \ {x} \in SUBSET A
      BY <2>1
    <3> QED BY <2>1, <2>4, <3>1
  <2> QED BY <1>4, <2>2, <2>5
<1> QED
  <2>1. Cardinality(A) \in Nat /\ A \in SUBSET A
    BY FS_CardinalityType
  <2> QED BY <1>5, <2>1 DEF All, Total

(* Points in order, and a value that each changes by what is said of it:   *)
(* from one to another it changes by the sum.                              *)
PassedBy(P, k, a, b) == {x \in P : k[a] < k[x] /\ k[x] <= k[b]}

Ordered(P, k) == k \in [P -> Nat] /\ \A x, y \in P : k[x] = k[y] => x = y

JustBefore(P, k, c, y) == k[c] < k[y] /\ \A d \in P : k[d] < k[y] => k[d] <= k[c]

LEMMA OneBefore ==
  ASSUME NEW P, NEW k, Ordered(P, k), NEW a \in P, NEW y \in P, k[a] < k[y]
  PROVE  \E c \in P : JustBefore(P, k, c, y)
<1> DEFINE Gaps == {k[y] - k[d] : d \in {x \in P : k[x] < k[y]}}
<1>1. Gaps \subseteq Nat /\ k[y] - k[a] \in Gaps
  BY DEF Ordered
<1>2. PICK g \in Gaps : \A h \in Gaps : g <= h
  BY <1>1, LeastOf
<1>3. PICK c \in P : k[c] < k[y] /\ g = k[y] - k[c]
  BY <1>2
<1>4. ASSUME NEW d \in P, k[d] < k[y] PROVE k[d] <= k[c]
  <2>1. k[y] - k[d] \in Gaps
    BY <1>4
  <2>2. k[y] - k[c] <= k[y] - k[d]
    BY <1>2, <1>3, <2>1
  <2> QED BY <2>2 DEF Ordered
<1> QED BY <1>3, <1>4 DEF JustBefore

LEMMA SumTelescopes ==
  ASSUME NEW P, IsFiniteSet(P), NEW k, Ordered(P, k), NEW w, NEW f, \A x \in P : w[x] \in Int /\ f[x] \in Int,
         \A y, c \in P : JustBefore(P, k, c, y) => w[y] = f[y] - f[c],
         NEW a \in P, NEW b \in P, k[a] <= k[b]
  PROVE  SumFunctionOnSet(w, PassedBy(P, k, a, b)) = f[b] - f[a]
<1> DEFINE Good(y) == SumFunctionOnSet(w, PassedBy(P, k, a, y)) = f[y] - f[a]
           Bad == {n \in Nat : \E y \in P : k[y] = n /\ k[a] <= n /\ ~Good(y)}
<1>1. ASSUME NEW y \in P, k[a] = k[y] PROVE Good(y)
  <2>1. PassedBy(P, k, a, y) = {} /\ y = a
    BY <1>1 DEF PassedBy, Ordered
  <2> QED BY <2>1, SumOfNone
<1>2. ASSUME NEW y \in P, k[a] < k[y], NEW c \in P, JustBefore(P, k, c, y), Good(c) PROVE Good(y)
  <2> DEFINE S == PassedBy(P, k, a, y)
             T == PassedBy(P, k, a, c)
  <2>1. y \in S /\ S \ {y} = T
    BY <1>2 DEF PassedBy, JustBefore, Ordered
  <2>2. IsFiniteSet(S) /\ \A x \in S : w[x] \in Int
    BY FS_Subset DEF PassedBy
  <2>3. SumFunctionOnSet(w, S) = w[y] + SumFunctionOnSet(w, T)
    <3> HIDE DEF S, T
    <3> QED BY <2>1, <2>2, SumOfOneMore
  <2> QED BY <1>2, <2>3
<1> HIDE DEF Good
<1>3. ASSUME Bad # {} PROVE FALSE
  <2>1. PICK n \in Bad : \A m \in Bad : n <= m
    BY <1>3, LeastOf
  <2>2. PICK y \in P : k[y] = n /\ k[a] <= n /\ ~Good(y)
    BY <2>1
  <2>3. k[a] < k[y]
    BY <1>1, <2>2 DEF Ordered
  <2>4. PICK c \in P : JustBefore(P, k, c, y)
    BY <2>3, OneBefore
  <2>5. k[c] \in Nat /\ k[a] \in Nat /\ k[y] \in Nat /\ k[a] <= k[c] /\ k[c] < n
    BY <2>2, <2>3, <2>4 DEF JustBefore, Ordered
  <2>6. Good(c)
    BY <2>1, <2>5
  <2> QED BY <1>2, <2>2, <2>3, <2>4, <2>6
<1> QED BY <1>3 DEF Good, Ordered

-----------------------------------------------------------------------------
(* The points of a position, in the order of a number each has.            *)

(* A point is an event or a record, which no shares come or go with.      *)
PointTyped(x) ==
  /\ x.at \in Nat /\ x.price \in Int /\ x.delta \in Int /\ x.nth \in Nat
  /\ x.record \in BOOLEAN /\ (x.record => x.delta = 0)

(* At an instant a record comes first.                                     *)
Place(x) == 2 * x.at + (IF x.record THEN 0 ELSE 1)

(* No two events at one instant, and no two records.                       *)
Apart(P) == \A x, y \in P : x.at = y.at /\ x.record = y.record => x = y

PointsTyped(P) == IsFiniteSet(P) /\ (\A x \in P : PointTyped(x)) /\ Apart(P)

PlaceAmong(P) == [x \in P |-> Place(x)]

LEMMA PlacesOrdered ==
  ASSUME NEW P, PointsTyped(P)
  PROVE  /\ Ordered(P, PlaceAmong(P))
         /\ \A x, y \in P : (Precedes(x, y) /\ x # y) <=> PlaceAmong(P)[x] < PlaceAmong(P)[y]
<1>1. \A x \in P : Place(x) \in Nat
  BY DEF PointsTyped, PointTyped, Place
<1>2. ASSUME NEW x \in P, NEW y \in P PROVE Place(x) = Place(y) => x = y
  <2>1. PointTyped(x) /\ PointTyped(y)
    BY DEF PointsTyped
  <2>2. /\ Place(x) = 2 * x.at \/ Place(x) = 2 * x.at + 1
        /\ x.record <=> Place(x) = 2 * x.at
        /\ Place(y) = 2 * y.at \/ Place(y) = 2 * y.at + 1
        /\ y.record <=> Place(y) = 2 * y.at
    BY <2>1 DEF PointTyped, Place
  <2>3. Place(x) = Place(y) => x.at = y.at /\ (x.record <=> y.record)
    BY <2>1, <2>2 DEF PointTyped
  <2> QED BY <2>1, <2>3 DEF PointsTyped, PointTyped, Apart
<1>3. ASSUME NEW x \in P, NEW y \in P PROVE (Precedes(x, y) /\ x # y) <=> Place(x) < Place(y)
  <2>1. PointTyped(x) /\ PointTyped(y)
    BY DEF PointsTyped
  <2>2. x.at = y.at /\ x.record = y.record => x = y
    BY DEF PointsTyped, Apart
  <2>3. CASE x.at # y.at
    BY <2>1, <2>3 DEF PointTyped, Place, Precedes
  <2>4. CASE x.at = y.at /\ x.record = y.record
    BY <2>1, <2>2, <2>4 DEF Place, PointTyped
  <2>5. CASE x.at = y.at /\ x.record # y.record
    BY <2>1, <2>5 DEF PointTyped, Place, Precedes
  <2> QED BY <2>3, <2>4, <2>5
<1> QED BY <1>1, <1>2, <1>3 DEF Ordered, PlaceAmong

(* What each point changes of the shares, what that cost, and the points   *)
(* on either side of one.                                                  *)
Changes(P) == [x \in P |-> x.delta]
Spent(P)   == [x \in P |-> x.delta * x.price]

After(P, y) == {x \in P : Place(y) < Place(x)}
Until(P, y)  == {x \in P : Place(x) <= Place(y)}

(* The shares held after a point, and what they are worth there beyond     *)
(* what was paid for them.                                                 *)
HeldFrom(P, y, current) == current - SumFunctionOnSet(Changes(P), After(P, y))
GainedBy(P, current) ==
  [y \in P |-> HeldFrom(P, y, current) * y.price - SumFunctionOnSet(Spent(P), Until(P, y))]

Segments(P, current) == [y \in P |-> SegmentEarned(P, y, current)]

LEMMA PointSums ==
  ASSUME NEW P, PointsTyped(P), NEW S \in SUBSET P
  PROVE  /\ IsFiniteSet(S) /\ SumFunctionOnSet(Changes(P), S) \in Int /\ SumFunctionOnSet(Spent(P), S) \in Int
         /\ \A x \in S : Changes(P)[x] \in Int /\ Spent(P)[x] \in Int
<1>1. IsFiniteSet(S) /\ \A x \in S : Changes(P)[x] \in Int /\ Spent(P)[x] \in Int
  BY FS_Subset DEF PointsTyped, PointTyped, Changes, Spent
<1>2. SumFunctionOnSet(Changes(P), S) \in Int
  BY <1>1, SumOfInts
<1>3. SumFunctionOnSet(Spent(P), S) \in Int
  BY <1>1, SumOfInts
<1> QED BY <1>1, <1>2, <1>3

(* From a point to the next, the worth grows by what the segment earned.   *)
LEMMA GainedStep ==
  ASSUME NEW h \in Int, NEW d \in Int, NEW p \in Int, NEW q \in Int, NEW u \in Int
  PROVE  h * (p - q) = ((h + d) * p - (u + d * p)) - (h * q - u)
<1>1. h * (p - q) = h * p - h * q
  OBVIOUS
<1>2. (h + d) * p = h * p + d * p
  OBVIOUS
<1> QED BY <1>1, <1>2

LEMMA SegmentIs ==
  ASSUME NEW P, PointsTyped(P), NEW current \in Int, NEW y \in P, NEW c \in P, JustBefore(P, PlaceAmong(P), c, y)
  PROVE  Segments(P, current)[y] = GainedBy(P, current)[y] - GainedBy(P, current)[c]
<1> DEFINE k == PlaceAmong(P)
           ds == Changes(P)
           h == current - SumFunctionOnSet(ds, Onward(P, y))
           u == SumFunctionOnSet(Spent(P), Until(P, c))
<1>0. /\ Ordered(P, k)
      /\ \A x \in P, z \in P : (Precedes(x, z) /\ x # z) <=> k[x] < k[z]
  BY PlacesOrdered
<1>1. \A x \in P : ~Precedes(x, x)
  <2>1. \A x \in P : x.at \in Nat /\ x.nth \in Nat
    BY DEF PointsTyped, PointTyped
  <2> QED BY <2>1 DEF Precedes
<1>2. k \in [P -> Nat] /\ \A x \in P : k[x] = Place(x)
  BY <1>0 DEF Ordered, PlaceAmong
<1>a. \A x, z \in P : Precedes(x, z) <=> k[x] < k[z]
  BY <1>0, <1>1, <1>2
<1> HIDE DEF k
<1>3. k[c] < k[y] /\ \A d \in P : k[d] < k[y] => k[d] <= k[c]
  BY <1>2 DEF JustBefore, k
<1>4. LastPoint(Earlier(P, y)) = c
  <2>1. c \in Earlier(P, y) /\ \A z \in Earlier(P, y) \ {c} : Precedes(z, c)
    BY <1>0, <1>a, <1>2, <1>3 DEF Earlier, Ordered
  <2>2. ASSUME NEW x \in Earlier(P, y), \A z \in Earlier(P, y) \ {x} : Precedes(z, x) PROVE x = c
    <3>1. x \in P /\ k[x] < k[y]
      BY <1>a DEF Earlier
    <3>2. CASE x # c
      <4>1. k[c] < k[x]
        BY <2>1, <2>2, <1>a, <3>1, <3>2
      <4> QED BY <4>1, <1>2, <1>3, <3>1
    <3> QED BY <3>2
  <2> QED BY <2>1, <2>2 DEF LastPoint
<1>5. /\ Onward(P, y) = After(P, c) /\ Onward(P, y) \subseteq P
      /\ y \in Onward(P, y) /\ Onward(P, y) \ {y} = After(P, y)
      /\ Until(P, y) \subseteq P /\ y \in Until(P, y) /\ Until(P, y) \ {y} = Until(P, c)
  <2>1. \A x \in P : (k[x] = k[y] => x = y) /\ k[x] \in Nat
    BY <1>0 DEF Ordered
  <2>2. Onward(P, y) = {x \in P : ~(k[x] < k[y])}
    BY <1>a DEF Onward, Earlier
  <2>3. After(P, c) = {x \in P : k[c] < k[x]} /\ After(P, y) = {x \in P : k[y] < k[x]}
    BY <1>2 DEF After
  <2>4. Until(P, c) = {x \in P : k[x] <= k[c]} /\ Until(P, y) = {x \in P : k[x] <= k[y]}
    BY <1>2 DEF Until
  <2> QED BY <1>3, <2>1, <2>2, <2>3, <2>4
<1>6. SumFunctionOnSet(ds, Onward(P, y)) = y.delta + SumFunctionOnSet(ds, After(P, y))
  <2>1. IsFiniteSet(Onward(P, y)) /\ \A x \in Onward(P, y) : ds[x] \in Int
    BY <1>5, PointSums
  <2>2. SumFunctionOnSet(ds, Onward(P, y)) = ds[y] + SumFunctionOnSet(ds, Onward(P, y) \ {y})
    <3> HIDE DEF ds
    <3> QED BY <1>5, <2>1, SumOfOneMore
  <2> QED BY <1>5, <2>2 DEF Changes
<1>7. SumFunctionOnSet(Spent(P), Until(P, y)) = y.delta * y.price + u
  <2>1. IsFiniteSet(Until(P, y)) /\ \A x \in Until(P, y) : Spent(P)[x] \in Int
    BY <1>5, PointSums
  <2>2. SumFunctionOnSet(Spent(P), Until(P, y)) = Spent(P)[y] + SumFunctionOnSet(Spent(P), Until(P, y) \ {y})
    BY <1>5, <2>1, SumOfOneMore
  <2> QED BY <1>5, <2>2 DEF Spent
<1>8. /\ h \in Int /\ u \in Int /\ y.delta \in Int /\ y.price \in Int /\ c.price \in Int
      /\ SumFunctionOnSet(ds, After(P, y)) \in Int /\ SumFunctionOnSet(ds, After(P, c)) \in Int
  <2>1. After(P, y) \in SUBSET P /\ After(P, c) \in SUBSET P /\ Onward(P, y) \in SUBSET P /\ Until(P, c) \in SUBSET P
    BY DEF After, Onward, Until
  <2> QED BY <2>1, PointSums DEF PointsTyped, PointTyped
<1>9. SegmentEarned(P, y, current) = h * (y.price - c.price)
  <2>1. SumFunctionOnSet([x \in Onward(P, y) |-> x.delta], Onward(P, y)) = SumFunctionOnSet(ds, Onward(P, y))
    <3>1. IsFiniteSet(Onward(P, y)) /\ \A x \in Onward(P, y) : [z \in Onward(P, y) |-> z.delta][x] = ds[x]
      BY <1>5, PointSums DEF Changes
    <3> QED BY <3>1, SumOfSame
  <2>2. HeldUpTo(P, y, current) = h
    BY <2>1 DEF HeldUpTo, Sum, SumFunction
  <2> QED BY <1>4, <2>2 DEF SegmentEarned
<1>10. HeldFrom(P, y, current) = h + y.delta /\ HeldFrom(P, c, current) = h
  BY <1>5, <1>6, <1>8 DEF HeldFrom
<1>11. GainedBy(P, current)[y] = (h + y.delta) * y.price - (u + y.delta * y.price)
  BY <1>7, <1>8, <1>10 DEF GainedBy
<1>12. GainedBy(P, current)[c] = h * c.price - u
  BY <1>10 DEF GainedBy
<1>13. Segments(P, current)[y] = h * (y.price - c.price)
  BY <1>9 DEF Segments
<1> QED
  <2> HIDE DEF h, u
  <2> QED BY <1>8, <1>11, <1>12, <1>13, GainedStep

(* The first point, the last one and the order that the code sorts by are  *)
(* those of the places.                                                    *)
LEMMA InOrder ==
  ASSUME NEW P, PointsTyped(P)
  PROVE  /\ \A x \in P : Place(x) \in Nat
         /\ \A x, y \in P : Place(x) = Place(y) => x = y
         /\ \A x, y \in P : Precedes(x, y) <=> Place(x) < Place(y)
<1>1. /\ Ordered(P, PlaceAmong(P))
      /\ \A x \in P, y \in P : (Precedes(x, y) /\ x # y) <=> PlaceAmong(P)[x] < PlaceAmong(P)[y]
  BY PlacesOrdered
<1>2. \A x \in P : ~Precedes(x, x)
  <2>1. \A x \in P : x.at \in Nat /\ x.nth \in Nat
    BY DEF PointsTyped, PointTyped
  <2> QED BY <2>1 DEF Precedes
<1>3. \A x \in P : PlaceAmong(P)[x] = Place(x)
  BY DEF PlaceAmong
<1>4. /\ \A x \in P : Place(x) \in Nat
      /\ \A x, y \in P : Place(x) = Place(y) => x = y
  BY <1>1, <1>3 DEF Ordered
<1> QED BY <1>1, <1>2, <1>3, <1>4

LEMMA FirstIs ==
  ASSUME NEW P, PointsTyped(P), NEW S \in SUBSET P, S # {}
  PROVE  FirstPoint(S) \in S /\ \A z \in S : Place(FirstPoint(S)) <= Place(z)
<1>1. {Place(x) : x \in S} \subseteq Nat /\ {Place(x) : x \in S} # {}
  BY InOrder
<1>2. PICK n \in {Place(x) : x \in S} : \A m \in {Place(x) : x \in S} : n <= m
  BY <1>1, LeastOf
<1>3. PICK x \in S : n = Place(x)
  BY <1>2
<1>4. \A z \in S \ {x} : Precedes(x, z)
  <2> SUFFICES ASSUME NEW z \in S, z # x PROVE Precedes(x, z)
    OBVIOUS
  <2>1. Place(x) <= Place(z) /\ Place(x) # Place(z) /\ Place(x) \in Nat /\ Place(z) \in Nat
    BY <1>2, <1>3, InOrder
  <2>2. Place(x) < Place(z)
    BY <2>1
  <2> QED BY <2>2, InOrder
<1>5. FirstPoint(S) \in S /\ \A z \in S \ {FirstPoint(S)} : Precedes(FirstPoint(S), z)
  BY <1>4 DEF FirstPoint
<1> DEFINE f == FirstPoint(S)
<1>6. ASSUME NEW z \in S PROVE Place(f) <= Place(z)
  <2>1. f \in P /\ z \in P /\ Place(f) \in Nat /\ Place(z) \in Nat
    BY <1>5, InOrder
  <2>2. z # f => Place(f) < Place(z)
    BY <1>5, <2>1, InOrder
  <2> QED BY <2>1, <2>2
<1> QED BY <1>5, <1>6

(* The instants of the records after the one at `a` up to the one at `b`.  *)
RecordsIn(P, a, b) == {at \in {x.at : x \in {y \in P : y.record}} : a.at < at /\ at <= b.at}

(* What the segments closed by the records between two of them have in     *)
(* common is nothing, and together they are all between the two.           *)
LEMMA ClosedParts ==
  ASSUME NEW P, PointsTyped(P), NEW a \in P, NEW b \in P, a.record, b.record
  PROVE  /\ \A at \in RecordsIn(P, a, b) : ClosedAt(P, at) \subseteq P
         /\ \A s, t \in RecordsIn(P, a, b) : s # t => ClosedAt(P, s) \cap ClosedAt(P, t) = {}
         /\ UNION {ClosedAt(P, at) : at \in RecordsIn(P, a, b)} = {x \in P : Place(a) < Place(x) /\ Place(x) <= Place(b)}
<1>1. \A at : ClosedAt(P, at) \subseteq P
  BY DEF ClosedAt
<1>2. \A s, t : s # t => ClosedAt(P, s) \cap ClosedAt(P, t) = {}
  BY DEF ClosedAt
<1>3. ASSUME NEW y \in P, NEW c \in P
      PROVE  c \in Closing(P, y) <=> c.record /\ Place(y) <= Place(c)
  <2>1. Place(y) \in Nat /\ Place(c) \in Nat /\ (Precedes(c, y) <=> Place(c) < Place(y))
    BY InOrder
  <2> QED BY <2>1 DEF Closing, Onward, Earlier
<1>4. \A y \in P : Closing(P, y) \subseteq P
  BY DEF Closing, Onward
<1>5. \A x \in P : x.record => Place(x) = 2 * x.at
  BY DEF Place, PointsTyped, PointTyped
<1>6. \A x \in P : x.at \in Nat /\ Place(x) \in Nat
  BY InOrder DEF PointsTyped, PointTyped
<1>7. ASSUME NEW at \in RecordsIn(P, a, b), NEW y \in ClosedAt(P, at)
      PROVE  y \in P /\ Place(a) < Place(y) /\ Place(y) <= Place(b)
  <2>1. y \in P /\ Closing(P, y) # {} /\ FirstPoint(Closing(P, y)).at = at /\ a.at < at /\ at <= b.at
    BY DEF ClosedAt, RecordsIn
  <2> DEFINE c == FirstPoint(Closing(P, y))
  <2>2. c \in Closing(P, y) /\ \A z \in Closing(P, y) : Place(c) <= Place(z)
    BY <1>4, <2>1, FirstIs
  <2>3. c \in P /\ c.record /\ Place(y) <= Place(c)
    BY <1>3, <1>4, <2>1, <2>2
  <2>4. Place(a) < Place(c) /\ Place(c) <= Place(b)
    BY <1>5, <1>6, <2>1, <2>3
  <2>5. ~(Place(y) <= Place(a))
    BY <1>3, <1>6, <2>1, <2>2, <2>3, <2>4
  <2> HIDE DEF c
  <2> QED BY <1>6, <2>1, <2>3, <2>4, <2>5
<1>8. ASSUME NEW y \in P, Place(a) < Place(y), Place(y) <= Place(b)
      PROVE  \E at \in RecordsIn(P, a, b) : y \in ClosedAt(P, at)
  <2> DEFINE c == FirstPoint(Closing(P, y))
  <2>1. b \in Closing(P, y)
    BY <1>3, <1>8
  <2>2. c \in Closing(P, y) /\ \A z \in Closing(P, y) : Place(c) <= Place(z)
    BY <1>4, <2>1, FirstIs
  <2>3. c \in P /\ c.record /\ Place(y) <= Place(c) /\ Place(c) <= Place(b)
    BY <1>3, <1>4, <2>1, <2>2
  <2>4. a.at < c.at /\ c.at <= b.at
    BY <1>5, <1>6, <1>8, <2>3
  <2>5. c.at \in RecordsIn(P, a, b)
    BY <2>3, <2>4 DEF RecordsIn
  <2>6. Precedes(a, y)
    BY <1>8, InOrder
  <2>7. Earlier(P, y) # {}
    BY <2>6 DEF Earlier
  <2> QED BY <2>1, <2>5, <2>7 DEF ClosedAt
<1> HIDE DEF RecordsIn
<1> QED BY <1>1, <1>2, <1>7, <1>8

(* A row of the history.                                                   *)
HistoryRow(P, at, current) ==
  SumFunctionOnSet([y \in ClosedAt(P, at) |-> SegmentEarned(P, y, current)], ClosedAt(P, at))

(* The rows between two records add up to what their shares gained.        *)
LEMMA RowsAddUp ==
  ASSUME NEW P, PointsTyped(P), NEW current \in Int, NEW a \in P, NEW b \in P, a.record, b.record, a.at < b.at,
         NEW rows, \A at \in RecordsIn(P, a, b) : rows[at] = HistoryRow(P, at, current)
  PROVE  SumFunctionOnSet(rows, RecordsIn(P, a, b)) = GainedBy(P, current)[b] - GainedBy(P, current)[a]
<1> DEFINE k == PlaceAmong(P)
           f == GainedBy(P, current)
           w == [x \in P |-> IF Earlier(P, x) = {} THEN 0 ELSE Segments(P, current)[x]]
           A == RecordsIn(P, a, b)
           C == [at \in A |-> ClosedAt(P, at)]
<1>0. /\ \A x \in P : Place(x) \in Nat
      /\ \A x, y \in P : Place(x) = Place(y) => x = y
      /\ \A x, y \in P : Precedes(x, y) <=> Place(x) < Place(y)
  BY InOrder
<1>1. Ordered(P, k) /\ IsFiniteSet(P) /\ \A x \in P : k[x] = Place(x)
  BY PlacesOrdered DEF PointsTyped, PlaceAmong
<1>2. \A x \in P : f[x] \in Int
  <2> SUFFICES ASSUME NEW x \in P PROVE f[x] \in Int
    OBVIOUS
  <2>1. After(P, x) \in SUBSET P /\ Until(P, x) \in SUBSET P
    BY DEF After, Until
  <2>2. SumFunctionOnSet(Changes(P), After(P, x)) \in Int /\ SumFunctionOnSet(Spent(P), Until(P, x)) \in Int /\ x.price \in Int
    BY <2>1, PointSums DEF PointsTyped, PointTyped
  <2> QED BY <2>2 DEF GainedBy, HeldFrom
<1>3. \A y, c \in P : JustBefore(P, k, c, y) => w[y] = f[y] - f[c]
  <2> SUFFICES ASSUME NEW y \in P, NEW c \in P, JustBefore(P, k, c, y) PROVE w[y] = f[y] - f[c]
    OBVIOUS
  <2>1. c \in Earlier(P, y)
    BY <1>0, <1>1 DEF JustBefore, Earlier
  <2>2. Segments(P, current)[y] = f[y] - f[c]
    BY SegmentIs
  <2> QED BY <2>1, <2>2
<1>4. \A x \in P : w[x] \in Int
  <2> SUFFICES ASSUME NEW x \in P, Earlier(P, x) # {} PROVE w[x] \in Int
    OBVIOUS
  <2>1. PICK z \in P : k[z] < k[x]
    BY <1>0, <1>1 DEF Earlier
  <2>2. PICK c \in P : JustBefore(P, k, c, x)
    BY <1>1, <2>1, OneBefore
  <2> QED BY <1>2, <1>3, <2>2
<1> HIDE DEF f, k
<1>5. Place(a) = 2 * a.at /\ Place(b) = 2 * b.at /\ a.at \in Nat /\ b.at \in Nat
  BY DEF Place, PointsTyped, PointTyped
<1>6. SumFunctionOnSet(w, PassedBy(P, k, a, b)) = f[b] - f[a]
  <2>1. k[a] <= k[b]
    BY <1>1, <1>5
  <2> HIDE DEF w
  <2> QED BY <1>1, <1>2, <1>3, <1>4, <2>1, SumTelescopes
<1>7. /\ \A at \in A : C[at] \subseteq P
      /\ \A s, t \in A : s # t => C[s] \cap C[t] = {}
      /\ UNION {C[at] : at \in A} = PassedBy(P, k, a, b)
  <2>1. PassedBy(P, k, a, b) = {x \in P : Place(a) < Place(x) /\ Place(x) <= Place(b)}
    BY <1>1 DEF PassedBy
  <2>2. UNION {C[at] : at \in A} = UNION {ClosedAt(P, at) : at \in A}
    OBVIOUS
  <2> QED BY <2>1, <2>2, ClosedParts
<1>8. \A at \in A : rows[at] = SumFunctionOnSet(w, C[at])
  <2> SUFFICES ASSUME NEW at \in A PROVE rows[at] = SumFunctionOnSet(w, C[at])
    OBVIOUS
  <2> DEFINE S == ClosedAt(P, at)
             own == [y \in S |-> SegmentEarned(P, y, current)]
  <2>1. rows[at] = SumFunctionOnSet(own, S)
    BY DEF HistoryRow
  <2>2. IsFiniteSet(S) /\ S \subseteq P
    BY <1>1, <1>7, FS_Subset
  <2>3. \A y \in S : own[y] = w[y]
    BY <2>2 DEF ClosedAt, Segments
  <2>4. SumFunctionOnSet(own, S) = SumFunctionOnSet(w, S)
    <3> HIDE DEF own, S, w
    <3> QED BY <2>2, <2>3, SumOfSame
  <2> QED BY <2>1, <2>4
<1>9. IsFiniteSet(A)
  <2> DEFINE R == {y \in P : y.record}
             g == [y \in R |-> y.at]
  <2>0. IsFiniteSet(R)
    BY <1>1, FS_Subset
  <2>1. IsFiniteSet({g[y] : y \in R})
    <3> DEFINE T == {g[y] : y \in R}
    <3>1. g \in [R -> T] /\ \A t \in T : \E y \in R : g[y] = t
      OBVIOUS
    <3> HIDE DEF g, R, T
    <3>2. g \in Surjection(R, T)
      BY <3>1 DEF Surjection
    <3>3. IsFiniteSet(T)
      BY <2>0, <3>2, FS_Surjection
    <3> QED BY <3>3 DEF T
  <2>2. A \subseteq {g[y] : y \in R}
    BY DEF RecordsIn
  <2> QED BY <2>1, <2>2, FS_Subset
<1> HIDE DEF A, C, w
<1>10. SumFunctionOnSet(rows, A) = SumFunctionOnSet(w, UNION {C[at] : at \in A})
  BY <1>1, <1>4, <1>7, <1>8, <1>9, SumOfParts
<1> QED BY <1>6, <1>7, <1>10 DEF A, f

-----------------------------------------------------------------------------
(* What the staking program did to a position: by a transaction, up to     *)
(* one, and what the payouts gave it.                                      *)

Touched(t, p) == \E e \in t.events : e.position = p
ActOf(t, p)   == CHOOSE e \in t.events : e.position = p
DeltaOf(t, p) == IF Touched(t, p) THEN ActOf(t, p).sharesDelta ELSE 0
CostOf(t, p)  == IF Touched(t, p) THEN ActOf(t, p).sharesDelta * ActOf(t, p).sharePrice ELSE 0

Deltas(p)  == [i \in DOMAIN txs |-> DeltaOf(txs[i], p)]
Costs(p)   == [i \in DOMAIN txs |-> CostOf(txs[i], p)]
Payouts(p) == [k \in DOMAIN rises |-> rises[k][p]]

HeldAfter(p, n) == 1 + SumFunctionOnSet(Deltas(p), 1 .. n)
PaidFor(p, n)   == SumFunctionOnSet(Costs(p), 1 .. n)
Given(p, k)     == SumFunctionOnSet(Payouts(p), 1 .. k)

StakeTxs == [at : Nat, events : SUBSET [position : Positions, sharesDelta : Int, sharePrice : Int]]

(* A transaction touches a position once.                                  *)
Once(t) == \A e, f \in t.events : e.position = f.position => e = f

ProgramTyped ==
  /\ tick \in Nat /\ price \in Int /\ shares \in [Positions -> Int] /\ rises \in Seq([Positions -> Int])
  /\ txs \in Seq(StakeTxs) /\ \A i \in DOMAIN txs : Once(txs[i])

(* What a transaction and each of its events is.                           *)
LEMMA TxIs ==
  ASSUME ProgramTyped
  PROVE  /\ DOMAIN txs = 1 .. Len(txs) /\ Len(txs) \in Nat /\ IsFiniteSet(DOMAIN txs) /\ DOMAIN txs \subseteq Nat
         /\ \A i \in DOMAIN txs : /\ txs[i] \in StakeTxs /\ Once(txs[i]) /\ txs[i].at \in Nat
                                  /\ \A e \in txs[i].events :
                                       e.position \in Positions /\ e.sharesDelta \in Int /\ e.sharePrice \in Int
<1>1. DOMAIN txs = 1 .. Len(txs) /\ Len(txs) \in Nat /\ \A i \in 1 .. Len(txs) : txs[i] \in StakeTxs
  BY DEF ProgramTyped
<1>2. IsFiniteSet(1 .. Len(txs))
  BY <1>1, FS_Interval
<1>3. ASSUME NEW t \in StakeTxs
      PROVE  t.at \in Nat /\ \A e \in t.events : e.position \in Positions /\ e.sharesDelta \in Int /\ e.sharePrice \in Int
  BY DEF StakeTxs
<1> QED BY <1>1, <1>2, <1>3 DEF ProgramTyped

LEMMA ActIs ==
  ASSUME ProgramTyped, NEW i \in DOMAIN txs, NEW p
  PROVE  /\ DeltaOf(txs[i], p) \in Int /\ CostOf(txs[i], p) \in Int
         /\ Touched(txs[i], p) =>
              LET e == ActOf(txs[i], p)
              IN  /\ e \in txs[i].events /\ e.position = p /\ e.sharesDelta \in Int /\ e.sharePrice \in Int
                  /\ DeltaOf(txs[i], p) = e.sharesDelta /\ CostOf(txs[i], p) = e.sharesDelta * e.sharePrice
         /\ ~Touched(txs[i], p) => DeltaOf(txs[i], p) = 0 /\ CostOf(txs[i], p) = 0
         /\ \A f \in txs[i].events : f.position = p => Touched(txs[i], p) /\ f = ActOf(txs[i], p)
<1> DEFINE e == ActOf(txs[i], p)
<1>1. Touched(txs[i], p) => e \in txs[i].events /\ e.position = p
  BY DEF Touched, ActOf
<1>2. \A f \in txs[i].events : f.sharesDelta \in Int /\ f.sharePrice \in Int
  BY TxIs
<1>3. Once(txs[i])
  BY TxIs
<1>4. \A f \in txs[i].events : f.position = p => Touched(txs[i], p) /\ f = e
  BY <1>1, <1>3 DEF Touched, Once
<1>5. CASE Touched(txs[i], p)
  <2>1. e.sharesDelta \in Int /\ e.sharePrice \in Int
    BY <1>1, <1>2, <1>5
  <2>2. DeltaOf(txs[i], p) = e.sharesDelta /\ CostOf(txs[i], p) = e.sharesDelta * e.sharePrice
    BY <1>5 DEF DeltaOf, CostOf
  <2>3. e.sharesDelta * e.sharePrice \in Int
    BY <2>1
  <2> QED BY <1>1, <1>4, <1>5, <2>1, <2>2, <2>3
<1>6. CASE ~Touched(txs[i], p)
  <2>1. DeltaOf(txs[i], p) = 0 /\ CostOf(txs[i], p) = 0
    BY <1>6 DEF DeltaOf, CostOf
  <2> QED BY <1>4, <1>6, <2>1
<1> QED BY <1>5, <1>6

LEMMA TxSums ==
  ASSUME ProgramTyped, NEW p, NEW S, S \subseteq DOMAIN txs
  PROVE  /\ IsFiniteSet(S) /\ \A i \in S : Deltas(p)[i] \in Int /\ Costs(p)[i] \in Int
         /\ SumFunctionOnSet(Deltas(p), S) \in Int /\ SumFunctionOnSet(Costs(p), S) \in Int
<1>1. IsFiniteSet(S)
  BY TxIs, FS_Subset
<1>2. \A i \in S : Deltas(p)[i] \in Int /\ Costs(p)[i] \in Int
  BY ActIs DEF Deltas, Costs
<1> QED BY <1>1, <1>2, SumOfInts

-----------------------------------------------------------------------------
(* The points of a position: of records, and of the transactions that are  *)
(* listed and touch it.                                                    *)
PointOf(i, p) == [at |-> txs[i].at, price |-> ActOf(txs[i], p).sharePrice, delta |-> ActOf(txs[i], p).sharesDelta,
                  record |-> FALSE, nth |-> i]

PointsOf(R, J, p) == {RecordPoint(x) : x \in R} \cup {PointOf(i, p) : i \in J}

Drawn(R, J, p) ==
  /\ IsFiniteSet(R) /\ \A x \in R : x.at \in Nat /\ x.price \in Int
  /\ \A x, y \in R : x.at = y.at => x = y
  /\ J \subseteq DOMAIN txs /\ \A i \in J : Touched(txs[i], p)
  /\ \A i, j \in J : txs[i].at = txs[j].at => i = j

(* The points that are drawn from records and transactions.                *)
LEMMA PointFields ==
  ASSUME ProgramTyped, NEW R, NEW J, NEW p, Drawn(R, J, p)
  PROVE  /\ \A x \in R : LET y == RecordPoint(x)
                         IN  y.at = x.at /\ y.price = x.price /\ y.delta = 0 /\ y.record /\ y.nth = 0 /\ PointTyped(y)
                             /\ Place(y) = 2 * x.at
         /\ \A i \in J : LET y == PointOf(i, p)
                         IN  y.at = txs[i].at /\ y.delta = Deltas(p)[i] /\ y.delta * y.price = Costs(p)[i] /\ ~y.record
                             /\ y.nth = i /\ PointTyped(y) /\ Place(y) = 2 * txs[i].at + 1
<1>1. ASSUME NEW x \in R
      PROVE  LET y == RecordPoint(x)
             IN  y.at = x.at /\ y.price = x.price /\ y.delta = 0 /\ y.record /\ y.nth = 0 /\ PointTyped(y)
                 /\ Place(y) = 2 * x.at
  <2>1. x.at \in Nat /\ x.price \in Int
    BY DEF Drawn
  <2> QED BY <2>1 DEF RecordPoint, PointTyped, Place
<1>2. ASSUME NEW i \in J
      PROVE  LET y == PointOf(i, p)
             IN  y.at = txs[i].at /\ y.delta = Deltas(p)[i] /\ y.delta * y.price = Costs(p)[i] /\ ~y.record
                 /\ y.nth = i /\ PointTyped(y) /\ Place(y) = 2 * txs[i].at + 1
  <2> DEFINE e == ActOf(txs[i], p)
             y == PointOf(i, p)
  <2>1. i \in DOMAIN txs /\ Touched(txs[i], p) /\ i \in Nat /\ txs[i].at \in Nat
    BY TxIs DEF Drawn
  <2>2. /\ e.sharesDelta \in Int /\ e.sharePrice \in Int
        /\ DeltaOf(txs[i], p) = e.sharesDelta /\ CostOf(txs[i], p) = e.sharesDelta * e.sharePrice
    BY <2>1, ActIs
  <2>3. y.at = txs[i].at /\ y.delta = e.sharesDelta /\ y.price = e.sharePrice /\ ~y.record /\ y.nth = i
    BY DEF PointOf
  <2>4. Deltas(p)[i] = e.sharesDelta /\ Costs(p)[i] = e.sharesDelta * e.sharePrice
    BY <2>1, <2>2 DEF Deltas, Costs
  <2>5. y.record \in BOOLEAN
    BY DEF PointOf
  <2> HIDE DEF y, e
  <2>6. PointTyped(y) /\ Place(y) = 2 * txs[i].at + 1
    BY <2>1, <2>2, <2>3, <2>5 DEF PointTyped, Place
  <2>7. y.delta = Deltas(p)[i] /\ y.delta * y.price = Costs(p)[i]
    BY <2>3, <2>4
  <2> QED BY <2>3, <2>6, <2>7 DEF y
<1> QED BY <1>1, <1>2

LEMMA DrawnTyped ==
  ASSUME ProgramTyped, NEW R, NEW J, NEW p, Drawn(R, J, p)
  PROVE  PointsTyped(PointsOf(R, J, p))
<1> DEFINE P == PointsOf(R, J, p)
           f == [x \in R |-> RecordPoint(x)]
           g == [i \in J |-> PointOf(i, p)]
<1>0. \A z \in P : (z.record => \E u \in R : z = RecordPoint(u)) /\ (~z.record => \E i \in J : z = PointOf(i, p))
  <2> TAKE z \in P
  <2>1. (\E u \in R : z = RecordPoint(u)) \/ (\E i \in J : z = PointOf(i, p))
    BY DEF PointsOf
  <2>2. (\A u \in R : RecordPoint(u).record) /\ (\A i \in J : ~PointOf(i, p).record)
    BY PointFields
  <2> HIDE DEF P
  <2> QED BY <2>1, <2>2
<1>1. IsFiniteSet({RecordPoint(x) : x \in R})
  <2>1. f \in Surjection(R, {RecordPoint(x) : x \in R})
    BY DEF Surjection
  <2> QED BY <2>1, FS_Surjection DEF Drawn
<1>2. IsFiniteSet({PointOf(i, p) : i \in J})
  <2>1. g \in Surjection(J, {PointOf(i, p) : i \in J})
    BY DEF Surjection
  <2>2. IsFiniteSet(J)
    BY TxSums DEF Drawn
  <2> QED BY <2>1, <2>2, FS_Surjection
<1>3. IsFiniteSet(P)
  BY <1>1, <1>2, FS_Union DEF PointsOf
<1>4. \A x \in P : PointTyped(x)
  BY PointFields DEF PointsOf
<1>5. ASSUME NEW x \in P, NEW y \in P, x.at = y.at, x.record = y.record PROVE x = y
  <2>1. CASE x.record
    <3>1. PICK u \in R, v \in R : x = RecordPoint(u) /\ y = RecordPoint(v)
      BY <1>0, <1>5, <2>1
    <3>2. u.at = v.at
      BY <1>5, <3>1, PointFields
    <3> QED BY <3>1, <3>2 DEF Drawn
  <2>2. CASE ~x.record
    <3>1. PICK i \in J, j \in J : x = PointOf(i, p) /\ y = PointOf(j, p)
      BY <1>0, <1>5, <2>2
    <3>2. txs[i].at = txs[j].at
      BY <1>5, <3>1, PointFields
    <3> QED BY <3>1, <3>2 DEF Drawn
  <2> QED BY <2>1, <2>2
<1> QED BY <1>3, <1>4, <1>5 DEF PointsTyped, Apart

(* Sums over points are sums over the transactions behind them.            *)
LEMMA SumsOfPoints ==
  ASSUME ProgramTyped, NEW R, NEW J, NEW p, Drawn(R, J, p), NEW N \in SUBSET J
  PROVE  LET P == PointsOf(R, J, p)
             S == {PointOf(i, p) : i \in N}
         IN  /\ S \subseteq P
             /\ SumFunctionOnSet(Changes(P), S) = SumFunctionOnSet(Deltas(p), N)
             /\ SumFunctionOnSet(Spent(P), S) = SumFunctionOnSet(Costs(p), N)
<1> DEFINE P == PointsOf(R, J, p)
           S == {PointOf(i, p) : i \in N}
           f == [i \in N |-> PointOf(i, p)]
<1>1. S \subseteq P
  BY DEF PointsOf
<1>2. IsFiniteSet(N) /\ \A i \in N : Deltas(p)[i] \in Int /\ Costs(p)[i] \in Int
  BY TxSums DEF Drawn
<1>3. IsFiniteSet(S)
  BY <1>1, DrawnTyped, PointSums
<1>4. f \in Bijection(N, S)
  <2>1. f \in [N -> S] /\ \A y \in S : \E i \in N : f[i] = y
    OBVIOUS
  <2>2. ASSUME NEW i \in N, NEW j \in N, f[i] = f[j] PROVE i = j
    <3>1. PointOf(i, p) = PointOf(j, p)
      BY <2>2
    <3> QED BY <3>1, PointFields
  <2> HIDE DEF f, S
  <2> QED BY <2>1, <2>2, IsBijection
<1>5. \A i \in N : Changes(P)[f[i]] = Deltas(p)[i] /\ Spent(P)[f[i]] = Costs(p)[i]
  <2> TAKE i \in N
  <2>1. f[i] = PointOf(i, p) /\ f[i] \in P
    BY <1>1
  <2> QED BY <2>1, PointFields DEF Changes, Spent
<1> HIDE DEF f, S, P
<1>6. Renames(f, N, S, Deltas(p), Changes(P)) /\ Renames(f, N, S, Costs(p), Spent(P))
  BY <1>2, <1>4, <1>5 DEF Renames
<1>7. /\ SumFunctionOnSet(Changes(P), S) = SumFunctionOnSet(Deltas(p), N)
      /\ SumFunctionOnSet(Spent(P), S) = SumFunctionOnSet(Costs(p), N)
  BY <1>2, <1>3, <1>6, SumRenamed
<1> QED BY <1>1, <1>7 DEF S, P

(* A record that no listed transaction is near: the events from it on are  *)
(* those after the n-th transaction.                                       *)
Splits(x, J, n) == \A i \in J : (i <= n => txs[i].at < x.at) /\ (n < i => x.at <= txs[i].at)

(* Of the points at a record, the sums are those of the n transactions.    *)
LEMMA SumsAtRecord ==
  ASSUME ProgramTyped, NEW R, NEW J, NEW p, Drawn(R, J, p), NEW x \in R, NEW n \in Nat, Splits(x, J, n)
  PROVE  LET P == PointsOf(R, J, p)
             y == RecordPoint(x)
         IN  /\ SumFunctionOnSet(Changes(P), After(P, y)) = SumFunctionOnSet(Deltas(p), {i \in J : n < i})
             /\ SumFunctionOnSet(Spent(P), Until(P, y)) = SumFunctionOnSet(Costs(p), {i \in J : i <= n})
<1> DEFINE P == PointsOf(R, J, p)
           y == RecordPoint(x)
           L == {i \in J : n < i}
           E == {i \in J : i <= n}
<1>0. x.at \in Nat /\ \A i \in J : i \in Nat /\ txs[i].at \in Nat
  BY TxIs DEF Drawn
<1>1. PointsTyped(P)
  BY DrawnTyped
<1>2. y \in P /\ Place(y) = 2 * x.at
  BY PointFields DEF PointsOf
<1>3. /\ {PointOf(i, p) : i \in L} \subseteq After(P, y)
      /\ \A z \in After(P, y) \ {PointOf(i, p) : i \in L} : Changes(P)[z] = 0
  <2>1. \A i \in J : PointOf(i, p) \in P /\ Place(PointOf(i, p)) = 2 * txs[i].at + 1
    BY PointFields DEF PointsOf
  <2>2. \A i \in L : PointOf(i, p) \in After(P, y)
    BY <1>0, <1>2, <2>1 DEF After, Splits
  <2>3. ASSUME NEW z \in After(P, y), z \notin {PointOf(i, p) : i \in L} PROVE Changes(P)[z] = 0
    <3>1. z \in P /\ Place(y) < Place(z)
      BY DEF After
    <3>2. ASSUME NEW i \in J, z = PointOf(i, p) PROVE FALSE
      <4>1. i \notin L /\ txs[i].at < x.at
        BY <1>0, <2>3, <3>2 DEF Splits
      <4> QED BY <1>0, <1>2, <2>1, <3>1, <3>2, <4>1
    <3>3. \E u \in R : z = RecordPoint(u)
      BY <3>1, <3>2 DEF PointsOf
    <3>4. z.delta = 0
      BY <3>3, PointFields
    <3> QED BY <3>1, <3>4 DEF Changes
  <2> QED BY <2>2, <2>3
<1>4. /\ {PointOf(i, p) : i \in E} \subseteq Until(P, y)
      /\ \A z \in Until(P, y) \ {PointOf(i, p) : i \in E} : Spent(P)[z] = 0
  <2>1. \A i \in J : PointOf(i, p) \in P /\ Place(PointOf(i, p)) = 2 * txs[i].at + 1
    BY PointFields DEF PointsOf
  <2>2. \A i \in E : PointOf(i, p) \in Until(P, y)
    BY <1>0, <1>2, <2>1 DEF Until, Splits
  <2>3. ASSUME NEW z \in Until(P, y), z \notin {PointOf(i, p) : i \in E} PROVE Spent(P)[z] = 0
    <3>1. z \in P /\ Place(z) <= Place(y)
      BY DEF Until
    <3>2. ASSUME NEW i \in J, z = PointOf(i, p) PROVE FALSE
      <4>1. i \notin E /\ x.at <= txs[i].at
        BY <1>0, <2>3, <3>2 DEF Splits
      <4> QED BY <1>0, <1>2, <2>1, <3>1, <3>2, <4>1
    <3>3. \E u \in R : z = RecordPoint(u)
      BY <3>1, <3>2 DEF PointsOf
    <3>4. z.delta = 0 /\ z.price \in Int
      BY <3>3, PointFields DEF PointTyped
    <3> QED BY <3>1, <3>4 DEF Spent
  <2> QED BY <2>2, <2>3
<1>5. After(P, y) \subseteq P /\ Until(P, y) \subseteq P
  BY DEF After, Until
<1>6. /\ IsFiniteSet(After(P, y)) /\ \A z \in After(P, y) : Changes(P)[z] \in Int
      /\ IsFiniteSet(Until(P, y)) /\ \A z \in Until(P, y) : Spent(P)[z] \in Int
  BY <1>1, <1>5, PointSums
<1> HIDE DEF P, y
<1>7. /\ SumFunctionOnSet(Changes(P), After(P, y)) = SumFunctionOnSet(Changes(P), {PointOf(i, p) : i \in L})
      /\ SumFunctionOnSet(Spent(P), Until(P, y)) = SumFunctionOnSet(Spent(P), {PointOf(i, p) : i \in E})
  BY <1>3, <1>4, <1>6, SumWithoutNothing
<1>8. /\ SumFunctionOnSet(Changes(P), {PointOf(i, p) : i \in L}) = SumFunctionOnSet(Deltas(p), L)
      /\ SumFunctionOnSet(Spent(P), {PointOf(i, p) : i \in E}) = SumFunctionOnSet(Costs(p), E)
  <2>1. L \in SUBSET J /\ E \in SUBSET J
    OBVIOUS
  <2> HIDE DEF L, E
  <2>2. SumFunctionOnSet(Changes(P), {PointOf(i, p) : i \in L}) = SumFunctionOnSet(Deltas(p), L)
    BY <2>1, SumsOfPoints DEF P
  <2>3. SumFunctionOnSet(Spent(P), {PointOf(i, p) : i \in E}) = SumFunctionOnSet(Costs(p), E)
    BY <2>1, SumsOfPoints DEF P
  <2> QED BY <2>2, <2>3
<1> QED BY <1>7, <1>8 DEF P, y

-----------------------------------------------------------------------------
(* A record, and the transactions the price it holds was read after: what  *)
(* the payouts gave by then is what the shares are worth beyond what was   *)
(* paid for them.                                                          *)
ReadingTyped(x) ==
  x.at \in Nat /\ x.read \in Nat /\ x.at <= x.read /\ x.read <= tick /\ x.price \in Int /\ x.rise \in 0 .. Len(rises)

ReadAfter(x, n) ==
  /\ n \in 0 .. Len(txs)
  /\ \A i \in DOMAIN txs : (i <= n => txs[i].at <= x.read) /\ (n < i => x.read <= txs[i].at)
  /\ \A p \in Positions : Given(p, x.rise) = x.price * HeldAfter(p, n) - PaidFor(p, n) - 1

(* The shares after m transactions, from those after n.                    *)
LEMMA SumsSplit ==
  ASSUME ProgramTyped, NEW p, NEW m \in 0 .. Len(txs), NEW n \in 0 .. m
  PROVE  /\ HeldAfter(p, n) \in Int /\ PaidFor(p, n) \in Int
         /\ HeldAfter(p, m) = HeldAfter(p, n) + SumFunctionOnSet(Deltas(p), (n + 1) .. m)
         /\ SumFunctionOnSet(Deltas(p), (n + 1) .. m) \in Int
<1>1. DOMAIN txs = 1 .. Len(txs) /\ Len(txs) \in Nat
  BY TxIs
<1>2. /\ 1 .. n \subseteq DOMAIN txs /\ (n + 1) .. m \subseteq DOMAIN txs
      /\ (1 .. n) \cup ((n + 1) .. m) = 1 .. m /\ (1 .. n) \cap ((n + 1) .. m) = {}
  BY <1>1
<1>3. /\ SumFunctionOnSet(Deltas(p), 1 .. n) \in Int /\ SumFunctionOnSet(Costs(p), 1 .. n) \in Int
      /\ IsFiniteSet(1 .. n) /\ \A i \in 1 .. n : Deltas(p)[i] \in Int
  BY <1>2, TxSums
<1>4. /\ IsFiniteSet((n + 1) .. m) /\ \A i \in (n + 1) .. m : Deltas(p)[i] \in Int
      /\ SumFunctionOnSet(Deltas(p), (n + 1) .. m) \in Int
  BY <1>2, TxSums
<1>5. SumFunctionOnSet(Deltas(p), 1 .. m)
        = SumFunctionOnSet(Deltas(p), 1 .. n) + SumFunctionOnSet(Deltas(p), (n + 1) .. m)
  BY <1>2, <1>3, <1>4, SumJoined
<1> QED BY <1>3, <1>4, <1>5 DEF HeldAfter, PaidFor

(* The transactions that a request lists and that touch a position.        *)
TouchingSince(p, m, since) == {i \in 1 .. m : Touched(txs[i], p) /\ since <= txs[i].at}

Near(x, p, m) == \E i \in 1 .. m : Touched(txs[i], p) /\ x.at <= txs[i].at /\ txs[i].at <= x.read

(* The worth at a record is what the payouts gave by then.                 *)
LEMMA RecordGain ==
  ASSUME ProgramTyped, NEW p \in Positions, NEW m \in 0 .. Len(txs), NEW since \in Int, NEW R,
         Drawn(R, TouchingSince(p, m, since), p), NEW x \in R, since <= x.at, ReadingTyped(x), ~Near(x, p, m),
         NEW n \in 0 .. m, ReadAfter(x, n), Given(p, x.rise) \in Int
  PROVE  GainedBy(PointsOf(R, TouchingSince(p, m, since), p), HeldAfter(p, m))[RecordPoint(x)]
           = Given(p, x.rise) + 1 + SumFunctionOnSet(Costs(p), {i \in 1 .. m : txs[i].at < since})
<1> DEFINE J == TouchingSince(p, m, since)
           P == PointsOf(R, J, p)
           y == RecordPoint(x)
           B == {i \in 1 .. m : txs[i].at < since}
<1>0. SUFFICES GainedBy(P, HeldAfter(p, m))[y] = Given(p, x.rise) + 1 + SumFunctionOnSet(Costs(p), B)
  OBVIOUS
<1> DEFINE E == {i \in J : i <= n}
           L == {i \in J : n < i}
<1>1. DOMAIN txs = 1 .. Len(txs) /\ Len(txs) \in Nat /\ m \in Nat /\ n \in Nat /\ n <= m /\ m <= Len(txs)
  BY TxIs
<1>2. \A i \in 1 .. m : i \in DOMAIN txs /\ i \in Nat /\ txs[i].at \in Nat
  BY <1>1, TxIs
<1>3. x.at \in Nat /\ x.read \in Nat /\ x.at <= x.read /\ x.price \in Int
  BY DEF ReadingTyped
<1>4. \A i \in 1 .. m : (i <= n => txs[i].at <= x.read) /\ (n < i => x.read <= txs[i].at)
  BY <1>2 DEF ReadAfter
<1>5. \A i \in 1 .. m : Touched(txs[i], p) => txs[i].at < x.at \/ x.read < txs[i].at
  BY <1>2, <1>3 DEF Near
<1>6. J \subseteq 1 .. m /\ J \subseteq DOMAIN txs
  BY <1>2 DEF TouchingSince
<1>7. \A i \in J : Touched(txs[i], p)
  BY DEF TouchingSince
<1>8. Splits(x, J, n)
  <2> SUFFICES ASSUME NEW i \in J PROVE (i <= n => txs[i].at < x.at) /\ (n < i => x.at <= txs[i].at)
    BY DEF Splits
  <2>1. i \in 1 .. m /\ Touched(txs[i], p)
    BY <1>6, <1>7
  <2> QED BY <1>2, <1>3, <1>4, <1>5, <2>1
<1>9. /\ SumFunctionOnSet(Changes(P), After(P, y)) = SumFunctionOnSet(Deltas(p), L)
      /\ SumFunctionOnSet(Spent(P), Until(P, y)) = SumFunctionOnSet(Costs(p), E)
  <2>1. Drawn(R, J, p) /\ n \in Nat /\ Splits(x, J, n)
    BY <1>1, <1>8
  <2> HIDE DEF J
  <2>2. \A u \in R : Splits(u, J, n) =>
          LET Q == PointsOf(R, J, p)
          IN  /\ SumFunctionOnSet(Changes(Q), After(Q, RecordPoint(u))) = SumFunctionOnSet(Deltas(p), {i \in J : n < i})
              /\ SumFunctionOnSet(Spent(Q), Until(Q, RecordPoint(u))) = SumFunctionOnSet(Costs(p), {i \in J : i <= n})
    BY ONLY ProgramTyped, <2>1, SumsAtRecord
  <2> QED BY <2>1, <2>2
<1>10. SumFunctionOnSet(Deltas(p), (n + 1) .. m) = SumFunctionOnSet(Deltas(p), L)
  <2>1. L \subseteq (n + 1) .. m
    BY <1>1, <1>6
  <2>2. IsFiniteSet((n + 1) .. m) /\ \A i \in (n + 1) .. m : Deltas(p)[i] \in Int
    <3>1. (n + 1) .. m \subseteq DOMAIN txs
      BY <1>1
    <3> QED BY <3>1, TxSums
  <2>3. ASSUME NEW i \in (n + 1) .. m, i \notin L PROVE Deltas(p)[i] = 0
    <3>1. i \in 1 .. m /\ n < i /\ since <= txs[i].at
      BY <1>1, <1>2, <1>3, <1>4
    <3>2. ~Touched(txs[i], p)
      BY <2>3, <3>1 DEF TouchingSince
    <3> QED BY <1>2, <3>1, <3>2, ActIs DEF Deltas
  <2> HIDE DEF L
  <2> QED BY <2>1, <2>2, <2>3, SumWithoutNothing
<1>11. HeldFrom(P, y, HeldAfter(p, m)) = HeldAfter(p, n) /\ HeldAfter(p, n) \in Int
  BY <1>9, <1>10, SumsSplit DEF HeldFrom
<1>12. PaidFor(p, n) = SumFunctionOnSet(Costs(p), E) + SumFunctionOnSet(Costs(p), B)
       /\ SumFunctionOnSet(Costs(p), E) \in Int /\ SumFunctionOnSet(Costs(p), B) \in Int
  <2>1. E \subseteq 1 .. n
    BY <1>1, <1>2, <1>6
  <2>2. B \subseteq 1 .. n
    <3> SUFFICES ASSUME NEW i \in B PROVE i \in 1 .. n
      OBVIOUS
    <3> QED BY <1>1, <1>2, <1>3, <1>4
  <2>3. E \cap B = {}
    BY <1>2 DEF TouchingSince
  <2>4. 1 .. n \subseteq DOMAIN txs
    BY <1>1
  <2>5. IsFiniteSet(1 .. n) /\ \A i \in 1 .. n : Costs(p)[i] \in Int
    BY <2>4, TxSums
  <2>6. ASSUME NEW i \in 1 .. n, i \notin E, i \notin B PROVE Costs(p)[i] = 0
    <3>1. i \in 1 .. m /\ i <= n /\ since <= txs[i].at
      BY <1>1, <1>2, <2>6
    <3>2. ~Touched(txs[i], p)
      BY <2>6, <3>1 DEF TouchingSince
    <3> QED BY <1>2, <3>1, <3>2, ActIs DEF Costs
  <2> HIDE DEF E, B
  <2>7. SumFunctionOnSet(Costs(p), 1 .. n) = SumFunctionOnSet(Costs(p), E \cup B)
    BY <2>1, <2>2, <2>5, <2>6, SumWithoutNothing
  <2>8. IsFiniteSet(E) /\ IsFiniteSet(B)
    BY <2>1, <2>2, <2>5, FS_Subset
  <2>9. /\ SumFunctionOnSet(Costs(p), E \cup B) = SumFunctionOnSet(Costs(p), E) + SumFunctionOnSet(Costs(p), B)
        /\ SumFunctionOnSet(Costs(p), E) \in Int /\ SumFunctionOnSet(Costs(p), B) \in Int
    BY <2>1, <2>2, <2>3, <2>5, <2>8, SumJoined
  <2> QED BY <2>7, <2>9 DEF PaidFor
<1>13. Given(p, x.rise) = x.price * HeldAfter(p, n) - PaidFor(p, n) - 1
  BY DEF ReadAfter
<1>14. y \in P /\ y.price = x.price
  BY PointFields DEF PointsOf
<1>15. GainedBy(P, HeldAfter(p, m))[y] = HeldAfter(p, n) * x.price - SumFunctionOnSet(Costs(p), E)
  BY <1>9, <1>11, <1>14 DEF GainedBy
<1> HIDE DEF P, y, E, B
<1>16. HeldAfter(p, n) * x.price = x.price * HeldAfter(p, n) /\ x.price * HeldAfter(p, n) \in Int
  BY <1>3, <1>11
<1>17. HeldAfter(p, n) * x.price - SumFunctionOnSet(Costs(p), E) = Given(p, x.rise) + 1 + SumFunctionOnSet(Costs(p), B)
  BY <1>12, <1>13, <1>16
<1>18. GainedBy(P, HeldAfter(p, m))[y] = Given(p, x.rise) + 1 + SumFunctionOnSet(Costs(p), B)
  BY <1>15, <1>17
<1> QED BY <1>18

-----------------------------------------------------------------------------
(* What the payouts gave between two counts of them.                       *)
LEMMA GivenBetween ==
  ASSUME ProgramTyped, NEW p \in Positions, NEW j \in 0 .. Len(rises), NEW k \in 0 .. Len(rises)
  PROVE  /\ Given(p, j) \in Int
         /\ j <= k => SumFunctionOnSet(Payouts(p), (j + 1) .. k) \in Int
         /\ j <= k => Given(p, k) = Given(p, j) + SumFunctionOnSet(Payouts(p), (j + 1) .. k)
<1>1. DOMAIN rises = 1 .. Len(rises) /\ Len(rises) \in Nat /\ \A i \in 1 .. Len(rises) : rises[i][p] \in Int
  BY DEF ProgramTyped
<1>2. IsFiniteSet(1 .. j) /\ IsFiniteSet((j + 1) .. k)
  BY <1>1, FS_Interval
<1>3. \A i \in 1 .. Len(rises) : Payouts(p)[i] \in Int /\ Payouts(p)[i] = rises[i][p]
  BY <1>1 DEF Payouts
<1>4. Given(p, j) \in Int
  <2>1. \A i \in 1 .. j : Payouts(p)[i] \in Int
    BY <1>1, <1>3
  <2> QED BY <1>2, <2>1, SumOfInts DEF Given
<1>5. CASE j <= k
  <2>1. /\ (1 .. j) \cup ((j + 1) .. k) = 1 .. k /\ (1 .. j) \cap ((j + 1) .. k) = {}
        /\ 1 .. k \subseteq 1 .. Len(rises)
    BY <1>1, <1>5
  <2>2. \A i \in 1 .. k : Payouts(p)[i] \in Int
    BY <1>3, <2>1
  <2>3. /\ Given(p, k) = Given(p, j) + SumFunctionOnSet(Payouts(p), (j + 1) .. k)
        /\ SumFunctionOnSet(Payouts(p), (j + 1) .. k) \in Int
    <3>1. /\ SumFunctionOnSet(Payouts(p), (j + 1) .. k) \in Int
          /\ SumFunctionOnSet(Payouts(p), (1 .. j) \cup ((j + 1) .. k))
               = SumFunctionOnSet(Payouts(p), 1 .. j) + SumFunctionOnSet(Payouts(p), (j + 1) .. k)
      BY <1>2, <2>1, <2>2, SumJoined
    <3> QED BY <2>1, <3>1 DEF Given
  <2> QED BY <1>4, <2>3
<1> QED BY <1>4, <1>5

-----------------------------------------------------------------------------
(* The rows of a position between two records, from what was listed.       *)
LEMMA SinceIs ==
  ASSUME NEW R, R # {}, \A x \in R : x.at \in Nat
  PROVE  Since(R) \in Nat /\ \A x \in R : Since(R) <= x.at
<1> DEFINE S == {x.at : x \in R}
<1>1. S \subseteq Nat /\ S # {}
  OBVIOUS
<1>2. \E i \in S : \A j \in S : i <= j
  BY <1>1, LeastOf
<1>3. Min(S) \in S /\ \A j \in S : Min(S) <= j
  BY <1>2 DEF Min
<1> QED BY <1>1, <1>3 DEF Since

(* What a request has of the events of the transactions it listed.         *)
Complete(E, o, m, since) ==
  /\ \A e \in E : \E i \in 1 .. m : since <= txs[i].at /\ e \in EventsOf(i, o)
  /\ \A i \in 1 .. m : since <= txs[i].at => EventsOf(i, o) \subseteq E

(* The points that a request makes are those of the listed transactions.   *)
LEMMA PointsFromEvents ==
  ASSUME ProgramTyped, NEW p \in Positions, NEW m \in 0 .. Len(txs), NEW R, NEW E, Complete(E, OwnerOf[p], m, Since(R))
  PROVE  Points(R, {e \in E : e.position = p}) = PointsOf(R, TouchingSince(p, m, Since(R)), p)
<1> DEFINE J == TouchingSince(p, m, Since(R))
           es == {e \in E : e.position = p}
           later == {x \in es : x.at >= Since(R)}
<1>1. \A i \in 1 .. m : i \in DOMAIN txs
  BY TxIs
<1>2. ASSUME NEW e \in later PROVE \E i \in J : EventPoint(e) = PointOf(i, p)
  <2>1. PICK i \in 1 .. m : Since(R) <= txs[i].at /\ e \in EventsOf(i, OwnerOf[p])
    BY DEF Complete
  <2>2. PICK f \in txs[i].events :
          e = [at |-> txs[i].at, nth |-> i, position |-> f.position, sharesDelta |-> f.sharesDelta,
               sharePrice |-> f.sharePrice]
    BY <2>1 DEF EventsOf
  <2>3. f.position = p
    BY <2>2
  <2>4. Touched(txs[i], p) /\ f = ActOf(txs[i], p)
    BY <1>1, <2>3, ActIs
  <2>5. EventPoint(e) = PointOf(i, p)
    BY <2>2, <2>4 DEF EventPoint, PointOf
  <2> QED BY <2>1, <2>4, <2>5 DEF TouchingSince
<1>3. ASSUME NEW i \in J PROVE \E e \in later : PointOf(i, p) = EventPoint(e)
  <2>1. i \in 1 .. m /\ Touched(txs[i], p) /\ Since(R) <= txs[i].at
    BY DEF TouchingSince
  <2> DEFINE f == ActOf(txs[i], p)
             e == [at |-> txs[i].at, nth |-> i, position |-> f.position, sharesDelta |-> f.sharesDelta,
                   sharePrice |-> f.sharePrice]
  <2>2. f \in txs[i].events /\ f.position = p
    BY <1>1, <2>1, ActIs
  <2>3. e \in EventsOf(i, OwnerOf[p])
    BY <2>2 DEF EventsOf
  <2>4. e \in E /\ e.position = p /\ e.at = txs[i].at
    BY <2>1, <2>2, <2>3 DEF Complete
  <2>5. txs[i].at >= Since(R)
    BY <2>1
  <2>6. e \in later
    BY <2>4, <2>5
  <2>7. PointOf(i, p) = EventPoint(e)
    BY DEF EventPoint, PointOf
  <2> QED BY <2>6, <2>7
<1> HIDE DEF later, J
<1>4. {EventPoint(e) : e \in later} = {PointOf(i, p) : i \in J}
  BY <1>2, <1>3
<1> QED BY <1>4 DEF Points, PointsOf, later, J

(* A position, the transactions and the records a request has of it, and   *)
(* two of them.                                                            *)
Settled(p, m, R, E, a, b) ==
  /\ p \in Positions /\ m \in 0 .. Len(txs)
  /\ IsFiniteSet(R) /\ (\A x \in R : ReadingTyped(x)) /\ \A x, y \in R : x.at = y.at => x = y
  /\ Complete(E, OwnerOf[p], m, Since(R))
  /\ \A i, j \in 1 .. m : Touched(txs[i], p) /\ Touched(txs[j], p) /\ txs[i].at = txs[j].at => i = j
  /\ a \in R /\ b \in R /\ a.read < b.at /\ a.rise <= b.rise /\ ~Near(a, p, m) /\ ~Near(b, p, m)
  /\ (\E n \in 0 .. m : ReadAfter(a, n)) /\ \E n \in 0 .. m : ReadAfter(b, n)

RowsFrom(history, a, b) == {at \in DOMAIN history : a.at < at /\ at <= b.at}
EventsAt(E, p) == {e \in E : e.position = p}

(* The rows between two records add up to what the payouts gave.           *)
LEMMA RowsExact ==
  ASSUME ProgramTyped, NEW p, NEW m, NEW R, NEW E, NEW a, NEW b, Settled(p, m, R, E, a, b),
         NEW history, history = ExactHistory(R, EventsAt(E, p), HeldAfter(p, m))
  PROVE  SumFunctionOnSet(history, RowsFrom(history, a, b)) = SumFunctionOnSet(Payouts(p), (a.rise + 1) .. b.rise)
<1>0. /\ p \in Positions /\ m \in 0 .. Len(txs) /\ IsFiniteSet(R) /\ Complete(E, OwnerOf[p], m, Since(R))
      /\ \A x, y \in R : x.at = y.at => x = y
      /\ \A i, j \in 1 .. m : Touched(txs[i], p) /\ Touched(txs[j], p) /\ txs[i].at = txs[j].at => i = j
      /\ a \in R /\ b \in R /\ a.read < b.at /\ a.rise <= b.rise /\ ~Near(a, p, m) /\ ~Near(b, p, m)
      /\ \A x \in R : ReadingTyped(x)
  BY DEF Settled
<1>j. PICK j \in 0 .. m : ReadAfter(a, j)
  BY DEF Settled
<1>k. PICK k \in 0 .. m : ReadAfter(b, k)
  BY DEF Settled
<1> DEFINE s == Since(R)
           J == TouchingSince(p, m, s)
           P == PointsOf(R, J, p)
           x == RecordPoint(a)
           y == RecordPoint(b)
           c == HeldAfter(p, m)
           A == RowsFrom(history, a, b)
<1>1. \A z \in R : z.at \in Nat /\ z.read \in Nat /\ z.at <= z.read /\ z.price \in Int /\ z.rise \in 0 .. Len(rises)
  BY <1>0 DEF ReadingTyped
<1>2. s \in Nat /\ \A z \in R : s <= z.at
  BY <1>0, <1>1, SinceIs
<1>3. Drawn(R, J, p)
  <2>1. J \subseteq DOMAIN txs /\ J \subseteq 1 .. m /\ \A i \in J : Touched(txs[i], p)
    BY <1>0, TxIs DEF TouchingSince
  <2> HIDE DEF J
  <2>2. \A i, n \in 1 .. m : Touched(txs[i], p) /\ Touched(txs[n], p) /\ txs[i].at = txs[n].at => i = n
    BY <1>0
  <2> QED BY <1>0, <1>1, <2>1, <2>2 DEF Drawn
<1>4. Points(R, EventsAt(E, p)) = P
  BY <1>0, PointsFromEvents DEF EventsAt
<1>5. PointsTyped(P)
  BY <1>3, DrawnTyped
<1>6. x \in P /\ y \in P /\ x.at = a.at /\ y.at = b.at /\ x.record /\ y.record /\ a.at < b.at
  BY <1>0, <1>1, <1>3, PointFields DEF PointsOf
<1>7. c \in Int
  BY <1>0, SumsSplit
<1> HIDE DEF J
<1>8. DOMAIN history = {z.at : z \in R}
  BY DEF ExactHistory
<1>9. \A at \in DOMAIN history : history[at] = HistoryRow(P, at, c)
  BY <1>4 DEF ExactHistory, HistoryRow, Sum, SumFunction
<1>10. RecordsIn(P, x, y) = A
  <2>1. {z.at : z \in {q \in P : q.record}} = {z.at : z \in R}
    <3>1. \A z \in R : RecordPoint(z) \in P /\ RecordPoint(z).record /\ RecordPoint(z).at = z.at
      BY <1>3, PointFields DEF PointsOf
    <3>2. \A i \in J : ~PointOf(i, p).record
      BY <1>3, PointFields
    <3>3. \A q \in P : q.record => \E z \in R : q = RecordPoint(z)
      BY <3>2 DEF PointsOf
    <3> HIDE DEF P
    <3> QED BY <3>1, <3>3
  <2> QED BY <1>6, <1>8, <2>1 DEF RecordsIn, RowsFrom
<1> HIDE DEF P, x, y, c, A
<1>11. SumFunctionOnSet(history, A) = GainedBy(P, c)[y] - GainedBy(P, c)[x]
  <2>1. \A at \in RecordsIn(P, x, y) : history[at] = HistoryRow(P, at, c)
    BY <1>9, <1>10 DEF A, RowsFrom
  <2> QED BY <1>5, <1>6, <1>7, <1>10, <2>1, RowsAddUp
<1> DEFINE spent == SumFunctionOnSet(Costs(p), {i \in 1 .. m : txs[i].at < s})
<1>12. GainedBy(P, c)[x] = Given(p, a.rise) + 1 + spent
  <2>1. Given(p, a.rise) \in Int
    BY <1>0, <1>1, GivenBetween
  <2>2. s \in Int /\ s <= a.at /\ ReadingTyped(a) /\ Drawn(R, TouchingSince(p, m, s), p)
    BY <1>0, <1>2, <1>3 DEF J
  <2> HIDE DEF s
  <2> QED BY <1>0, <1>j, <1>k, <2>1, <2>2, RecordGain DEF P, J, x, c
<1>13. GainedBy(P, c)[y] = Given(p, b.rise) + 1 + spent
  <2>1. Given(p, b.rise) \in Int
    BY <1>0, <1>1, GivenBetween
  <2>2. s \in Int /\ s <= b.at /\ ReadingTyped(b) /\ Drawn(R, TouchingSince(p, m, s), p)
    BY <1>0, <1>2, <1>3 DEF J
  <2> HIDE DEF s
  <2> QED BY <1>0, <1>j, <1>k, <2>1, <2>2, RecordGain DEF P, J, y, c
<1>14. spent \in Int
  <2>1. {i \in 1 .. m : txs[i].at < s} \subseteq DOMAIN txs
    BY <1>0, TxIs
  <2> QED BY <2>1, TxSums
<1> HIDE DEF spent
<1>15. /\ Given(p, a.rise) \in Int /\ SumFunctionOnSet(Payouts(p), (a.rise + 1) .. b.rise) \in Int
       /\ Given(p, b.rise) = Given(p, a.rise) + SumFunctionOnSet(Payouts(p), (a.rise + 1) .. b.rise)
  BY <1>0, <1>1, GivenBetween
<1>16. SumFunctionOnSet(history, A) = SumFunctionOnSet(Payouts(p), (a.rise + 1) .. b.rise)
  BY <1>11, <1>12, <1>13, <1>14, <1>15
<1> QED BY <1>16 DEF A

-----------------------------------------------------------------------------
(* The invariant: what the payouts gave, of every price that was read, of  *)
(* the records and of a request.                                           *)

(* What a position is worth is what was paid for it, its first share at    *)
(* the price of 1 among it, and what the payouts gave.                     *)
Balanced ==
  \A p \in Positions : /\ shares[p] = HeldAfter(p, Len(txs))
                       /\ Given(p, Len(rises)) = price * shares[p] - PaidFor(p, Len(txs)) - 1

(* And no transaction is later than the clock.                             *)
ProgramTrue == ProgramTyped /\ Balanced /\ \A i \in DOMAIN txs : txs[i].at <= tick

(* Every price that was read and may be stored or is.                      *)
ReadingOf(r) == [at |-> r.at, price |-> r.price, rise |-> r.rise, read |-> r.read]

IsReading(x) ==
  \/ \E d \in Days : x \in records[d]
  \/ \E o \in Asking : x \in stakeRead[o].records
  \/ job.pc = "store" /\ x = ReadingOf(job)
  \/ \E o \in Asking : stakeRead[o].pc \in {"today", "store"} /\ x = ReadingOf(stakeRead[o])

Readings ==
  (UNION {records[d] : d \in Days}) \cup (UNION {stakeRead[o].records : o \in Asking})
  \cup {ReadingOf(j) : j \in {i \in {job} : i.pc = "store"}}
  \cup {ReadingOf(stakeRead[o]) : o \in {q \in Asking : stakeRead[q].pc \in {"today", "store"}}}

(* Each was the price after some n transactions and the payouts by then,   *)
(* and a later one saw no fewer payouts.                                   *)
ReadingsTrue ==
  /\ \A x \in Readings : ReadingTyped(x) /\ \E n \in 0 .. Len(txs) : ReadAfter(x, n)
  /\ \A x, y \in Readings : x.read < y.read => x.rise <= y.rise

(* A day has one record, and it is of that day.                            *)
DailyRecords ==
  DOMAIN records = Days /\ \A d \in Days : (\A x \in records[d] : DayKey(x.at) = d) /\ (\A x, y \in records[d] : x = y)

JobTyped ==
  /\ job \in [pc : {"off", "read", "store"}, at : Int, price : Int, rise : Int, read : Int]
  /\ job.at <= tick /\ (job.pc # "off" => job.at \in Nat)

KeptEvents == [at : Nat, nth : Nat, position : Positions, sharesDelta : Int, sharePrice : Int]

(* What is kept of a transaction is what its first reader made of it.      *)
KeptAsRead ==
  /\ txEvents \in Seq([owner : SUBSET Owners, events : SUBSET KeptEvents]) /\ Len(txEvents) = Len(txs)
  /\ \A i \in DOMAIN txs :
       txEvents[i].owner # {} => \E q \in Owners : txEvents[i].owner = {q} /\ txEvents[i].events = EventsOf(i, q)

(* Of the transactions that a request listed, the events of each it has or *)
(* will read.                                                              *)
ListedBy(r) == {i \in 1 .. r.listedAt : Since(r.records) <= txs[i].at}

EventsTrue(r, o) ==
  /\ r.listedAt \in r.heldAt .. Len(txs)
  /\ \A x \in r.records : \E n \in 0 .. r.listedAt : ReadAfter(x, n)
  /\ r.toRead \in Seq(Nat) /\ \A j \in DOMAIN r.toRead : r.toRead[j] \in ListedBy(r)
  /\ ~r.unfound /\ ~r.borrowed =>
       /\ \A e \in r.events : \E i \in ListedBy(r) : e \in EventsOf(i, o)
       /\ \A i \in ListedBy(r) : EventsOf(i, o) \subseteq r.events \/ \E j \in DOMAIN r.toRead : r.toRead[j] = i

HistoryOf(r, o) ==
  [p \in Of(o) |-> ExactHistory(r.records, {e \in r.events : e.position = p}, r.shares[p])]

(* What is true of the request r of the owner o, step by step.             *)
RequestTrue(r, o) ==
  /\ DOMAIN r = DOMAIN NoRead /\ r.at \in Nat /\ r.at <= tick
  /\ r.pc \notin {"idle", "positions"} =>
       r.heldAt \in 0 .. Len(txs) /\ r.shares = [p \in Of(o) |-> HeldAfter(p, r.heldAt)]
  /\ \A x \in r.records : DayKey(x.at) \in Days
  /\ \A x, y \in r.records : DayKey(x.at) = DayKey(y.at) => x = y
  /\ r.pc \notin {"events", "reply", "replied"} => r.events = {} /\ r.history = <<>>
  /\ r.pc = "events" \/ (r.pc = "replied" /\ r.history # <<>>) => EventsTrue(r, o)
  /\ r.pc = "replied" /\ r.history # <<>> => r.toRead = <<>> /\ r.history = HistoryOf(r, o)

SkrInv ==
  /\ ProgramTrue /\ ReadingsTrue /\ DailyRecords /\ JobTyped /\ KeptAsRead
  /\ DOMAIN stakeRead = Asking /\ \A o \in Asking : \A r \in {stakeRead[o]} : RequestTrue(r, o)

LEMMA ReadingsAre == \A x : x \in Readings <=> IsReading(x)
<1> SUFFICES ASSUME NEW x PROVE x \in Readings <=> IsReading(x)
  OBVIOUS
<1> DEFINE A == UNION {records[d] : d \in Days}
           B == UNION {stakeRead[o].records : o \in Asking}
           C == {ReadingOf(j) : j \in {i \in {job} : i.pc = "store"}}
           D == {ReadingOf(stakeRead[o]) : o \in {q \in Asking : stakeRead[q].pc \in {"today", "store"}}}
<1>1. x \in A <=> \E d \in Days : x \in records[d]
  OBVIOUS
<1>2. x \in B <=> \E o \in Asking : x \in stakeRead[o].records
  OBVIOUS
<1>3. x \in C <=> job.pc = "store" /\ x = ReadingOf(job)
  OBVIOUS
<1>4. x \in D <=> \E o \in Asking : stakeRead[o].pc \in {"today", "store"} /\ x = ReadingOf(stakeRead[o])
  OBVIOUS
<1>5. Readings = A \cup B \cup C \cup D
  BY Zenon DEF Readings
<1> HIDE DEF A, B, C, D
<1> QED BY <1>1, <1>2, <1>3, <1>4, <1>5 DEF IsReading

LEMMA TouchedIs ==
  ASSUME ProgramTyped, NEW i \in DOMAIN txs, NEW p \in Positions
  PROVE  Touched(txs[i], p) => i \in Touching(OwnerOf[p])
  BY DEF Touched, Touching

(* One record a day is finitely many.                                      *)
LEMMA DailyFinite ==
  ASSUME NEW R, \A x \in R : DayKey(x.at) \in Days, \A x, y \in R : DayKey(x.at) = DayKey(y.at) => x = y
  PROVE  IsFiniteSet(R)
<1> DEFINE f == [x \in R |-> DayKey(x.at)]
<1>1. f \in Injection(R, Days)
  <2>1. f \in [R -> Days]
    OBVIOUS
  <2>2. \A x, y \in R : f[x] = f[y] => x = y
    OBVIOUS
  <2> HIDE DEF f
  <2> QED BY <2>1, <2>2 DEF Injection, IsInjective
<1>2. IsFiniteSet(Days)
  <2>1. LastTick \in Nat /\ DayLength \in Nat \ {0}
    BY SkrAssumption
  <2>2. LastTick \div DayLength \in Int
    BY <2>1
  <2> QED BY <2>2, FS_Interval DEF Days
<1> QED BY <1>1, <1>2, FS_Injection

(* The invariant says the history that is given is exact.                  *)
LEMMA ExactFromInv == SkrInv => CalmHistoryExact
<1> SUFFICES ASSUME SkrInv, NEW o \in Asking, stakeRead[o].pc = "replied", Calm(o, stakeRead[o]),
                    ~stakeRead[o].unfound, ~stakeRead[o].borrowed
             PROVE  RowsAre(o, stakeRead[o])
  BY DEF CalmHistoryExact
<1> DEFINE r == stakeRead[o]
           m == r.listedAt
           R == r.records
<1> SUFFICES ASSUME NEW p \in DOMAIN r.history, NEW a \in R, NEW b \in R, a.read < b.at, Quiet(a, o), Quiet(b, o)
             PROVE  Sum(LAMBDA at : r.history[p][at], {at \in DOMAIN r.history[p] : a.at < at /\ at <= b.at}) = Earned(p, a, b)
  BY DEF RowsAre
<1>0. a \in R /\ b \in R /\ a.read < b.at
  OBVIOUS
<1>1. ProgramTyped /\ RequestTrue(r, o) /\ ReadingsTrue
  BY DEF SkrInv, ProgramTrue
<1>2. r.history # <<>>
  <2>1. DOMAIN <<>> = {}
    OBVIOUS
  <2> QED BY <2>1
<1>3. /\ EventsTrue(r, o) /\ r.toRead = <<>> /\ r.shares = [q \in Of(o) |-> HeldAfter(q, r.heldAt)]
      /\ r.heldAt \in 0 .. Len(txs)
      /\ r.history = [q \in Of(o) |-> ExactHistory(R, {e \in r.events : e.position = q}, r.shares[q])]
  BY <1>1, <1>2 DEF RequestTrue, HistoryOf
<1>4. p \in Of(o) /\ p \in Positions /\ OwnerOf[p] = o
  BY <1>3 DEF Of
<1>5. Len(txs) \in Nat /\ DOMAIN txs = 1 .. Len(txs)
  BY <1>1, TxIs
<1>6. m \in 0 .. Len(txs) /\ r.heldAt \in 0 .. m
  BY <1>3, <1>5 DEF EventsTrue
<1>7. \A i \in 1 .. m : i \in DOMAIN txs
  BY <1>5, <1>6
<1>8. \A i \in 1 .. m : Touched(txs[i], p) => i \in Touching(o)
  BY <1>1, <1>4, <1>7, TouchedIs
<1>9. r.shares[p] = HeldAfter(p, m)
  <2>1. r.shares[p] = HeldAfter(p, r.heldAt)
    BY <1>3, <1>4
  <2>2. (r.heldAt + 1) .. m \subseteq 1 .. m /\ (r.heldAt + 1) .. m \subseteq DOMAIN txs
    BY <1>5, <1>6
  <2>3. \A i \in (r.heldAt + 1) .. m : Deltas(p)[i] = 0
    <3> SUFFICES ASSUME NEW i \in (r.heldAt + 1) .. m PROVE Deltas(p)[i] = 0
      OBVIOUS
    <3>1. i \in 1 .. m /\ i \in DOMAIN txs /\ ~(i <= r.heldAt) /\ ~(i > m)
      BY <1>5, <1>6, <2>2
    <3>2. ~Touched(txs[i], p)
      BY <1>8, <3>1 DEF Calm
    <3> QED BY <1>1, <3>1, <3>2, ActIs DEF Deltas
  <2>4. SumFunctionOnSet(Deltas(p), (r.heldAt + 1) .. m) = 0
    <3>1. IsFiniteSet((r.heldAt + 1) .. m) /\ \A i \in (r.heldAt + 1) .. m : Deltas(p)[i] \in Int
      BY <1>1, <2>2, TxSums
    <3>2. SumFunctionOnSet(Deltas(p), (r.heldAt + 1) .. m) = SumFunctionOnSet(Deltas(p), {})
      BY <2>3, <3>1, SumWithoutNothing
    <3> QED BY <3>2, SumOfNone
  <2> QED BY <1>1, <1>6, <2>1, <2>4, SumsSplit
<1>10. /\ \A x \in R : ReadingTyped(x)
       /\ \A x, y \in R : x.read < y.read => x.rise <= y.rise
  BY <1>1, ReadingsAre DEF ReadingsTrue, IsReading
<1>11. IsFiniteSet(R) /\ \A x, y \in R : x.at = y.at => x = y
  BY <1>1, DailyFinite DEF RequestTrue
<1>12. Complete(r.events, OwnerOf[p], m, Since(R))
  <2>1. DOMAIN r.toRead = {}
    BY <1>3
  <2> QED BY <1>3, <1>4, <2>1 DEF Complete, EventsTrue, ListedBy
<1>13. \A i, j \in 1 .. m : Touched(txs[i], p) /\ Touched(txs[j], p) /\ txs[i].at = txs[j].at => i = j
  BY <1>8 DEF Calm
<1>14. ~Near(a, p, m) /\ ~Near(b, p, m)
  BY <1>8 DEF Near, Quiet
<1>15. a.rise <= b.rise
  <2>1. b.at <= b.read /\ a.read \in Nat /\ b.at \in Nat /\ b.read \in Nat
    BY <1>10 DEF ReadingTyped
  <2> QED BY <1>10, <2>1
<1>16. PICK j \in 0 .. m : ReadAfter(a, j)
  BY <1>3 DEF EventsTrue
<1>17. PICK k \in 0 .. m : ReadAfter(b, k)
  BY <1>3 DEF EventsTrue
<1>18. r.history[p] = ExactHistory(R, {e \in r.events : e.position = p}, HeldAfter(p, m))
  BY <1>3, <1>4, <1>9
<1> HIDE DEF r, m, R
<1> DEFINE h == r.history[p]
<1>19. h = ExactHistory(R, {e \in r.events : e.position = p}, HeldAfter(p, m))
  BY <1>18
<1> HIDE DEF h
<1> DEFINE A == {at \in DOMAIN h : a.at < at /\ at <= b.at}
           K == (a.rise + 1) .. b.rise
<1>20. SumFunctionOnSet(h, A) = SumFunctionOnSet(Payouts(p), K)
  <2>1. Settled(p, m, R, r.events, a, b)
    BY <1>0, <1>1, <1>4, <1>6, <1>10, <1>11, <1>12, <1>13, <1>14, <1>15, <1>16, <1>17 DEF Settled
  <2>2. h = ExactHistory(R, EventsAt(r.events, p), HeldAfter(p, m))
    BY <1>19 DEF EventsAt
  <2>3. A = RowsFrom(h, a, b)
    BY DEF RowsFrom
  <2> HIDE DEF A
  <2> QED BY <1>1, <2>1, <2>2, <2>3, RowsExact
<1>21. IsFiniteSet(A)
  <2> DEFINE f == [x \in R |-> x.at]
  <2>1. f \in Surjection(R, {x.at : x \in R})
    BY DEF Surjection
  <2>2. DOMAIN h = {x.at : x \in R}
    BY <1>19 DEF ExactHistory
  <2> QED BY <1>11, <2>1, <2>2, FS_Surjection, FS_Subset
<1>22. Sum(LAMBDA at : r.history[p][at], {at \in DOMAIN r.history[p] : a.at < at /\ at <= b.at}) = SumFunctionOnSet(h, A)
  <2> DEFINE B == {at \in DOMAIN r.history[p] : a.at < at /\ at <= b.at}
             w == [at \in B |-> r.history[p][at]]
  <2>1. Sum(LAMBDA at : r.history[p][at], B) = SumFunctionOnSet(w, B)
    BY DEF Sum, SumFunction
  <2>2. A = B /\ \A at \in A : w[at] = h[at]
    BY DEF h
  <2> HIDE DEF A, B, w
  <2> QED BY <1>21, <2>1, <2>2, SumOfSame DEF B
<1>23. Earned(p, a, b) = SumFunctionOnSet(Payouts(p), K)
  <2> DEFINE v == [n \in K |-> rises[n][p]]
  <2>1. Earned(p, a, b) = SumFunctionOnSet(v, K)
    BY DEF Earned, Sum, SumFunction
  <2>2. a.rise \in 0 .. Len(rises) /\ b.rise \in 0 .. Len(rises)
    BY <1>10 DEF ReadingTyped, R
  <2>3. DOMAIN rises = 1 .. Len(rises) /\ Len(rises) \in Nat
    BY <1>1 DEF ProgramTyped
  <2>4. IsFiniteSet(K) /\ K \subseteq DOMAIN rises
    <3>1. a.rise \in Nat /\ b.rise \in Nat /\ b.rise <= Len(rises)
      BY <2>2, <2>3
    <3>2. a.rise + 1 \in Int /\ b.rise \in Int
      BY <3>1
    <3>3. IsFiniteSet(K)
      BY <3>2, FS_Interval
    <3> QED BY <2>3, <3>1, <3>3
  <2>5. \A n \in K : v[n] = Payouts(p)[n]
    BY <2>4 DEF Payouts
  <2> HIDE DEF K, v
  <2> QED BY <2>1, <2>4, <2>5, SumOfSame
<1> QED BY <1>20, <1>22, <1>23 DEF r, R

-----------------------------------------------------------------------------
(* What is true of the past stays true as the program goes on.             *)
Goes ==
  /\ ProgramTyped /\ ProgramTyped' /\ tick <= tick'
  /\ Len(txs) <= Len(txs') /\ Len(rises) <= Len(rises')
  /\ \A i \in DOMAIN txs : txs'[i] = txs[i]
  /\ \A i \in DOMAIN txs' : Len(txs) < i => tick <= txs'[i].at
  /\ \A k \in DOMAIN rises : rises'[k] = rises[k]

LEMMA GoesDomains ==
  ASSUME Goes
  PROVE  /\ DOMAIN txs = 1 .. Len(txs) /\ Len(txs) \in Nat /\ DOMAIN txs' = 1 .. Len(txs') /\ Len(txs') \in Nat
         /\ DOMAIN rises = 1 .. Len(rises) /\ Len(rises) \in Nat /\ DOMAIN rises' = 1 .. Len(rises') /\ Len(rises') \in Nat
         /\ 1 .. Len(txs) \subseteq 1 .. Len(txs') /\ 1 .. Len(rises) \subseteq 1 .. Len(rises')
         /\ tick \in Nat /\ tick' \in Nat
<1>1. /\ txs \in Seq(StakeTxs) /\ txs' \in Seq(StakeTxs) /\ tick \in Nat /\ tick' \in Nat
      /\ rises \in Seq([Positions -> Int]) /\ rises' \in Seq([Positions -> Int])
  BY DEF Goes, ProgramTyped
<1>2. Len(txs) <= Len(txs') /\ Len(rises) <= Len(rises')
  BY DEF Goes
<1> QED BY <1>1, <1>2

LEMMA SumsStay ==
  ASSUME Goes, NEW p \in Positions
  PROVE  /\ \A n \in 0 .. Len(txs) : HeldAfter(p, n)' = HeldAfter(p, n) /\ PaidFor(p, n)' = PaidFor(p, n)
         /\ \A k \in 0 .. Len(rises) : Given(p, k)' = Given(p, k)
<1>1. ASSUME NEW n \in 0 .. Len(txs) PROVE HeldAfter(p, n)' = HeldAfter(p, n) /\ PaidFor(p, n)' = PaidFor(p, n)
  <2>0. 1 .. n \subseteq DOMAIN txs /\ 1 .. n \subseteq DOMAIN txs' /\ n \in Int
    BY GoesDomains
  <2>1. IsFiniteSet(1 .. n) /\ 1 .. n \subseteq DOMAIN txs /\ 1 .. n \subseteq DOMAIN txs'
    BY <2>0, FS_Interval
  <2>2. \A i \in 1 .. n : Deltas(p)'[i] = Deltas(p)[i] /\ Costs(p)'[i] = Costs(p)[i]
    BY <2>1 DEF Goes, Deltas, Costs
  <2>3. /\ SumFunctionOnSet(Deltas(p)', 1 .. n) = SumFunctionOnSet(Deltas(p), 1 .. n)
        /\ SumFunctionOnSet(Costs(p)', 1 .. n) = SumFunctionOnSet(Costs(p), 1 .. n)
    BY <2>1, <2>2, SumOfSame
  <2> QED BY <2>3 DEF HeldAfter, PaidFor
<1>2. ASSUME NEW k \in 0 .. Len(rises) PROVE Given(p, k)' = Given(p, k)
  <2>0. 1 .. k \subseteq DOMAIN rises /\ 1 .. k \subseteq DOMAIN rises' /\ k \in Int
    BY GoesDomains
  <2>1. IsFiniteSet(1 .. k) /\ 1 .. k \subseteq DOMAIN rises /\ 1 .. k \subseteq DOMAIN rises'
    BY <2>0, FS_Interval
  <2>2. \A i \in 1 .. k : Payouts(p)'[i] = Payouts(p)[i]
    BY <2>1 DEF Goes, Payouts
  <2>3. SumFunctionOnSet(Payouts(p)', 1 .. k) = SumFunctionOnSet(Payouts(p), 1 .. k)
    BY <2>1, <2>2, SumOfSame
  <2> QED BY <2>3 DEF Given
<1> QED BY <1>1, <1>2

LEMMA ReadingsStay ==
  ASSUME Goes, NEW x, ReadingTyped(x)
  PROVE  ReadingTyped(x)' /\ \A n \in 0 .. Len(txs) : ReadAfter(x, n) => ReadAfter(x, n)'
<1>1. ReadingTyped(x)'
  <2>1. x.rise \in 0 .. Len(rises)'
    BY GoesDomains DEF ReadingTyped, Goes
  <2>2. x.read <= tick'
    BY GoesDomains DEF ReadingTyped, Goes
  <2> QED BY <2>1, <2>2 DEF ReadingTyped
<1>2. ASSUME NEW n \in 0 .. Len(txs), ReadAfter(x, n) PROVE ReadAfter(x, n)'
  <2>1. n \in 0 .. Len(txs)'
    BY GoesDomains DEF Goes
  <2>2. ASSUME NEW i \in DOMAIN txs' PROVE (i <= n => txs'[i].at <= x.read) /\ (n < i => x.read <= txs'[i].at)
    <3>1. CASE i \in DOMAIN txs
      BY <1>2, <3>1 DEF ReadAfter, Goes
    <3>2. CASE i \notin DOMAIN txs
      <4>1. i \in Nat /\ Len(txs) < i /\ n <= Len(txs) /\ n \in Nat
        BY <3>2, GoesDomains
      <4>2. tick <= txs'[i].at
        BY <4>1 DEF Goes
      <4>3. txs'[i].at \in Nat
        <5>1. txs' \in Seq(StakeTxs)
          BY DEF Goes, ProgramTyped
        <5>2. txs'[i] \in StakeTxs
          BY <5>1
        <5> QED BY <5>2 DEF StakeTxs
      <4>4. x.read <= tick /\ x.read \in Nat /\ tick \in Nat
        BY GoesDomains DEF ReadingTyped
      <4> QED BY <4>1, <4>2, <4>3, <4>4
    <3> QED BY <3>1, <3>2
  <2>3. ASSUME NEW p \in Positions PROVE Given(p, x.rise)' = x.price * HeldAfter(p, n)' - PaidFor(p, n)' - 1
    <3>1. x.rise \in 0 .. Len(rises)
      BY DEF ReadingTyped
    <3>2. Given(p, x.rise) = x.price * HeldAfter(p, n) - PaidFor(p, n) - 1
      BY <1>2 DEF ReadAfter
    <3> QED BY <3>1, <3>2, SumsStay
  <2> QED BY <2>1, <2>2, <2>3 DEF ReadAfter
<1> QED BY <1>1, <1>2

LEMMA EventsStay ==
  ASSUME Goes, NEW i \in DOMAIN txs
  PROVE  i \in DOMAIN txs' /\ txs'[i] = txs[i] /\ \A o : EventsOf(i, o)' = EventsOf(i, o)
<1>1. i \in DOMAIN txs' /\ txs'[i] = txs[i]
  BY GoesDomains DEF Goes
<1> QED BY <1>1 DEF EventsOf

-----------------------------------------------------------------------------
(* The steps of the program.                                               *)
LEMMA PayoutTrue ==
  ASSUME ProgramTrue, Payout
  PROVE  Goes /\ ProgramTrue'
<1>1. ProgramTyped /\ rises \in Seq([Positions -> Int]) /\ shares \in [Positions -> Int] /\ price \in Int /\ Len(rises) \in Nat
  BY DEF ProgramTrue, ProgramTyped
<1>2. price' = price + 1 /\ rises' = Append(rises, shares) /\ tick' = tick /\ shares' = shares /\ txs' = txs
  BY DEF Payout
<1>3. /\ rises' \in Seq([Positions -> Int]) /\ Len(rises') = Len(rises) + 1
      /\ DOMAIN rises = 1 .. Len(rises) /\ DOMAIN rises' = 1 .. (Len(rises) + 1)
      /\ (\A k \in 1 .. Len(rises) : rises'[k] = rises[k]) /\ rises'[Len(rises) + 1] = shares
  BY <1>1, <1>2
<1>4. ProgramTyped'
  BY <1>1, <1>2, <1>3 DEF ProgramTyped
<1>5. Goes
  <2>1. tick \in Nat /\ Len(txs) \in Nat /\ DOMAIN txs = 1 .. Len(txs)
    BY <1>1, TxIs DEF ProgramTyped
  <2> QED BY <1>1, <1>2, <1>3, <1>4, <2>1 DEF Goes
<1>6. ASSUME NEW p \in Positions
      PROVE  /\ shares'[p] = HeldAfter(p, Len(txs))'
             /\ Given(p, Len(rises))' = price' * shares'[p] - PaidFor(p, Len(txs))' - 1
  <2> DEFINE n == Len(rises) + 1
  <2>1. Len(txs) \in 0 .. Len(txs) /\ Len(rises) \in 0 .. Len(rises)
    BY <1>1, TxIs
  <2>2. /\ HeldAfter(p, Len(txs))' = HeldAfter(p, Len(txs)) /\ PaidFor(p, Len(txs))' = PaidFor(p, Len(txs))
        /\ SumFunctionOnSet(Payouts(p)', 1 .. Len(rises)) = Given(p, Len(rises))
    BY <1>2, <1>5, <2>1, SumsStay DEF Given, HeldAfter, PaidFor
  <2>3. Given(p, Len(rises))' = shares[p] + SumFunctionOnSet(Payouts(p)', 1 .. Len(rises))
    <3>0. n \in 1 .. n /\ (1 .. n) \ {n} = 1 .. Len(rises) /\ n \in Int
      BY <1>1
    <3>1. IsFiniteSet(1 .. n) /\ n \in 1 .. n /\ (1 .. n) \ {n} = 1 .. Len(rises)
      BY <3>0, FS_Interval
    <3>2. \A k \in 1 .. n : rises'[k] \in [Positions -> Int]
      BY <1>3
    <3>3. \A k \in 1 .. n : Payouts(p)'[k] \in Int
      BY <1>3, <3>2 DEF Payouts
    <3>4. Payouts(p)'[n] = shares[p]
      BY <1>3, <3>1 DEF Payouts
    <3>5. SumFunctionOnSet(Payouts(p)', 1 .. n) = shares[p] + SumFunctionOnSet(Payouts(p)', 1 .. Len(rises))
      BY <3>1, <3>3, <3>4, SumOfOneMore
    <3> QED BY <1>3, <3>5 DEF Given
  <2>4. shares[p] = HeldAfter(p, Len(txs)) /\ Given(p, Len(rises)) = price * shares[p] - PaidFor(p, Len(txs)) - 1
    BY DEF ProgramTrue, Balanced
  <2>5. PaidFor(p, Len(txs)) \in Int
    BY <1>1, <2>1, TxIs, SumsSplit
  <2>6. shares[p] \in Int /\ (price + 1) * shares[p] = price * shares[p] + shares[p] /\ price * shares[p] \in Int
    BY <1>1
  <2>7. Given(p, Len(rises))' = (price + 1) * shares[p] - PaidFor(p, Len(txs)) - 1
    BY <2>2, <2>3, <2>4, <2>5, <2>6
  <2> QED BY <1>2, <2>2, <2>4, <2>7
<1>7. Balanced'
  BY <1>6 DEF Balanced
<1>8. \A i \in DOMAIN txs' : txs'[i].at <= tick'
  BY <1>2 DEF ProgramTrue
<1> QED BY <1>4, <1>5, <1>7, <1>8 DEF ProgramTrue

LEMMA TickTrue ==
  ASSUME ProgramTrue, TickOn
  PROVE  Goes /\ ProgramTrue'
<1>1. ProgramTyped /\ tick \in Nat /\ tick' = tick + 1 /\ UNCHANGED <<price, shares, rises, txs>>
  BY DEF TickOn, ProgramTrue, ProgramTyped
<1>2. ProgramTyped'
  BY <1>1 DEF ProgramTyped
<1>3. Goes
  <2>1. /\ Len(txs) \in Nat /\ DOMAIN txs = 1 .. Len(txs)
        /\ Len(rises) \in Nat
    BY <1>1, TxIs DEF ProgramTyped
  <2> QED BY <1>1, <1>2, <2>1 DEF Goes
<1>4. Balanced'
  BY <1>1 DEF ProgramTrue, Balanced, HeldAfter, PaidFor, Given, Deltas, Costs, Payouts
<1>5. \A i \in DOMAIN txs' : txs'[i].at <= tick'
  <2>1. \A i \in DOMAIN txs : txs[i].at <= tick /\ txs[i].at \in Nat
    BY <1>1, TxIs DEF ProgramTrue
  <2> QED BY <1>1, <2>1
<1> QED BY <1>2, <1>3, <1>4, <1>5 DEF ProgramTrue

LEMMA ProgramStands ==
  ASSUME ProgramTrue, UNCHANGED <<tick, price, shares, rises, txs>>
  PROVE  Goes /\ ProgramTrue'
<1>1. ProgramTyped /\ tick \in Nat
  BY DEF ProgramTrue, ProgramTyped
<1>2. ProgramTyped'
  BY <1>1 DEF ProgramTyped
<1>3. Goes
  <2>1. /\ Len(txs) \in Nat /\ DOMAIN txs = 1 .. Len(txs)
        /\ Len(rises) \in Nat
    BY <1>1, TxIs DEF ProgramTyped
  <2> QED BY <1>1, <1>2, <2>1 DEF Goes
<1>4. Balanced'
  BY DEF ProgramTrue, Balanced, HeldAfter, PaidFor, Given, Deltas, Costs, Payouts
<1>5. \A i \in DOMAIN txs' : txs'[i].at <= tick'
  BY DEF ProgramTrue
<1> QED BY <1>2, <1>3, <1>4, <1>5 DEF ProgramTrue

(* Stakes and unstakes.                                                    *)
LEMMA ShareEventTrue ==
  ASSUME ProgramTrue, NEW ps \in SUBSET Positions, NEW sign \in {1, -1}, ShareEvent(ps, sign)
  PROVE  Goes /\ ProgramTrue'
<1> DEFINE act(p) == [position |-> p, sharesDelta |-> sign, sharePrice |-> price]
           t == [at |-> tick, events |-> {act(p) : p \in ps}]
           n == Len(txs) + 1
           d(p) == IF p \in ps THEN sign ELSE 0
<1>1. /\ ProgramTyped /\ tick \in Nat /\ price \in Int /\ shares \in [Positions -> Int] /\ txs \in Seq(StakeTxs)
      /\ Len(txs) \in Nat /\ DOMAIN txs = 1 .. Len(txs) /\ Len(rises) \in Nat
  BY DEF ProgramTrue, ProgramTyped
<1>2. /\ UNCHANGED <<tick, price, rises>> /\ txs' = Append(txs, t)
      /\ shares' = [p \in Positions |-> IF p \in ps THEN shares[p] + sign ELSE shares[p]]
  BY DEF ShareEvent
<1>3. t \in StakeTxs /\ Once(t) /\ t.at = tick
  <2>1. \A p \in ps : act(p) \in [position : Positions, sharesDelta : Int, sharePrice : Int] /\ act(p).position = p
    BY <1>1
  <2>2. \A e \in t.events : \E p \in ps : e = act(p)
    OBVIOUS
  <2>3. Once(t)
    BY <2>1, <2>2 DEF Once
  <2>4. t.events \subseteq [position : Positions, sharesDelta : Int, sharePrice : Int]
    BY <2>1, <2>2
  <2>5. t = [at |-> tick, events |-> t.events]
    OBVIOUS
  <2> HIDE DEF t
  <2>6. t \in StakeTxs /\ t.at = tick
    BY <1>1, <2>4, <2>5 DEF StakeTxs
  <2> QED BY <2>3, <2>6
<1>4. \A p \in Positions : DeltaOf(t, p) = d(p) /\ CostOf(t, p) = d(p) * price
  <2> SUFFICES ASSUME NEW p \in Positions PROVE DeltaOf(t, p) = d(p) /\ CostOf(t, p) = d(p) * price
    OBVIOUS
  <2>1. \A e \in t.events : e.sharesDelta = sign /\ e.sharePrice = price /\ e.position \in ps
    OBVIOUS
  <2>2. CASE p \in ps
    <3>1. act(p) \in t.events /\ act(p).position = p
      BY <2>2
    <3>2. Touched(t, p) /\ ActOf(t, p) \in t.events
      BY <3>1 DEF Touched, ActOf
    <3>3. ActOf(t, p).sharesDelta = sign /\ ActOf(t, p).sharePrice = price
      BY <2>1, <3>2
    <3> QED BY <2>2, <3>2, <3>3 DEF DeltaOf, CostOf
  <2>3. CASE p \notin ps
    <3>1. ~Touched(t, p)
      BY <2>1, <2>3 DEF Touched
    <3>2. DeltaOf(t, p) = 0 /\ CostOf(t, p) = 0
      BY <3>1 DEF DeltaOf, CostOf
    <3> QED BY <1>1, <2>3, <3>2
  <2> QED BY <2>2, <2>3
<1> HIDE DEF t
<1>5. /\ txs' \in Seq(StakeTxs) /\ Len(txs') = n /\ DOMAIN txs' = 1 .. n
      /\ (\A i \in 1 .. Len(txs) : txs'[i] = txs[i]) /\ txs'[n] = t
  BY <1>1, <1>2, <1>3
<1>6. ProgramTyped'
  <2>1. shares' \in [Positions -> Int]
    BY <1>1, <1>2
  <2>2. \A i \in DOMAIN txs' : Once(txs'[i])
    <3> SUFFICES ASSUME NEW i \in 1 .. n PROVE Once(txs'[i])
      BY <1>5
    <3>1. CASE i \in 1 .. Len(txs)
      BY <1>1, <1>5, <3>1 DEF ProgramTyped
    <3>2. CASE i \notin 1 .. Len(txs)
      <4>1. i = n
        BY <1>1, <3>2
      <4> QED BY <1>3, <1>5, <4>1
    <3> QED BY <3>1, <3>2
  <2> QED BY <1>1, <1>2, <1>5, <2>1, <2>2 DEF ProgramTyped
<1>7. Goes
  <2>1. \A i \in DOMAIN txs' : Len(txs) < i => txs'[i].at = tick
    BY <1>1, <1>3, <1>5
  <2>2. \A k \in DOMAIN rises : rises'[k] = rises[k]
    BY <1>2
  <2> QED BY <1>1, <1>2, <1>5, <1>6, <2>1, <2>2 DEF Goes
<1>8. ASSUME NEW p \in Positions
      PROVE  /\ shares'[p] = HeldAfter(p, Len(txs))'
             /\ Given(p, Len(rises))' = price' * shares'[p] - PaidFor(p, Len(txs))' - 1
  <2>1. Len(txs) \in 0 .. Len(txs) /\ Len(rises) \in 0 .. Len(rises)
    BY <1>1
  <2>2. /\ SumFunctionOnSet(Deltas(p)', 1 .. Len(txs)) = HeldAfter(p, Len(txs)) - 1
        /\ SumFunctionOnSet(Costs(p)', 1 .. Len(txs)) = PaidFor(p, Len(txs))
        /\ HeldAfter(p, Len(txs)) \in Int /\ PaidFor(p, Len(txs)) \in Int
    <3>1. /\ 1 + SumFunctionOnSet(Deltas(p)', 1 .. Len(txs)) = HeldAfter(p, Len(txs))
          /\ SumFunctionOnSet(Costs(p)', 1 .. Len(txs)) = PaidFor(p, Len(txs))
      <4>1. HeldAfter(p, Len(txs)) = 1 + SumFunctionOnSet(Deltas(p), 1 .. Len(txs))
        BY DEF HeldAfter
      <4>2. PaidFor(p, Len(txs)) = SumFunctionOnSet(Costs(p), 1 .. Len(txs))
        BY DEF PaidFor
      <4>3. IsFiniteSet(1 .. Len(txs))
        BY <1>1, FS_Interval
      <4>4. \A i \in 1 .. Len(txs) : Deltas(p)'[i] = Deltas(p)[i] /\ Costs(p)'[i] = Costs(p)[i]
        BY <1>1, <1>5 DEF Deltas, Costs
      <4>5. /\ SumFunctionOnSet(Deltas(p)', 1 .. Len(txs)) = SumFunctionOnSet(Deltas(p), 1 .. Len(txs))
            /\ SumFunctionOnSet(Costs(p)', 1 .. Len(txs)) = SumFunctionOnSet(Costs(p), 1 .. Len(txs))
        BY <4>3, <4>4, SumOfSame
      <4> QED BY <4>1, <4>2, <4>5
    <3>2. SumFunctionOnSet(Deltas(p), 1 .. Len(txs)) \in Int /\ PaidFor(p, Len(txs)) \in Int
      BY <1>1, TxSums DEF PaidFor
    <3>3. HeldAfter(p, Len(txs)) = 1 + SumFunctionOnSet(Deltas(p), 1 .. Len(txs))
      BY DEF HeldAfter
    <3>4. SumFunctionOnSet(Deltas(p)', 1 .. Len(txs)) = SumFunctionOnSet(Deltas(p), 1 .. Len(txs))
      <4>3. IsFiniteSet(1 .. Len(txs))
        BY <1>1, FS_Interval
      <4>4. \A i \in 1 .. Len(txs) : Deltas(p)'[i] = Deltas(p)[i]
        BY <1>1, <1>5 DEF Deltas
      <4> QED BY <4>3, <4>4, SumOfSame
    <3> QED BY <3>1, <3>2, <3>3, <3>4
  <2>3. /\ HeldAfter(p, Len(txs))' = HeldAfter(p, Len(txs)) + d(p)
        /\ PaidFor(p, Len(txs))' = PaidFor(p, Len(txs)) + d(p) * price
    <3>1. n \in 1 .. n /\ (1 .. n) \ {n} = 1 .. Len(txs) /\ n \in Int /\ 1 .. n \subseteq DOMAIN txs'
      BY <1>1, <1>5
    <3>2. IsFiniteSet(1 .. n)
      BY <3>1, FS_Interval
    <3>3. \A i \in 1 .. n : Deltas(p)'[i] \in Int /\ Costs(p)'[i] \in Int
      <4>1. \A i \in DOMAIN txs' : DeltaOf(txs'[i], p) \in Int /\ CostOf(txs'[i], p) \in Int
        <5> SUFFICES ASSUME NEW i \in 1 .. n PROVE DeltaOf(txs'[i], p) \in Int /\ CostOf(txs'[i], p) \in Int
          BY <1>5
        <5>1. CASE i \in 1 .. Len(txs)
          BY <1>1, <1>5, <5>1, ActIs
        <5>2. CASE i \notin 1 .. Len(txs)
          <6>1. i = n /\ d(p) \in Int /\ d(p) * price \in Int
            BY <1>1, <5>2
          <6> QED BY <1>4, <1>5, <6>1
        <5> QED BY <5>1, <5>2
      <4> QED BY <3>1, <4>1 DEF Deltas, Costs
    <3>4. Deltas(p)'[n] = d(p) /\ Costs(p)'[n] = d(p) * price
      BY <1>4, <1>5, <3>1 DEF Deltas, Costs
    <3>5. /\ SumFunctionOnSet(Deltas(p)', 1 .. n) = d(p) + SumFunctionOnSet(Deltas(p)', 1 .. Len(txs))
          /\ SumFunctionOnSet(Costs(p)', 1 .. n) = d(p) * price + SumFunctionOnSet(Costs(p)', 1 .. Len(txs))
      <4>1. \A i \in 1 .. n : Deltas(p)'[i] \in Int
        BY <3>3
      <4>2. \A i \in 1 .. n : Costs(p)'[i] \in Int
        BY <3>3
      <4>3. SumFunctionOnSet(Deltas(p)', 1 .. n) = Deltas(p)'[n] + SumFunctionOnSet(Deltas(p)', (1 .. n) \ {n})
        BY <3>1, <3>2, <4>1, SumOfOneMore
      <4>4. SumFunctionOnSet(Costs(p)', 1 .. n) = Costs(p)'[n] + SumFunctionOnSet(Costs(p)', (1 .. n) \ {n})
        BY <3>1, <3>2, <4>2, SumOfOneMore
      <4> QED BY <3>1, <3>4, <4>3, <4>4
    <3>6. HeldAfter(p, Len(txs))' = 1 + SumFunctionOnSet(Deltas(p)', 1 .. n)
      BY <1>5 DEF HeldAfter
    <3>7. PaidFor(p, Len(txs))' = SumFunctionOnSet(Costs(p)', 1 .. n)
      BY <1>5 DEF PaidFor
    <3>8. d(p) \in Int /\ d(p) * price \in Int
      BY <1>1
    <3> HIDE DEF d
    <3> QED BY <2>2, <3>5, <3>6, <3>7, <3>8
  <2>4. shares[p] = HeldAfter(p, Len(txs)) /\ Given(p, Len(rises)) = price * shares[p] - PaidFor(p, Len(txs)) - 1
    BY DEF ProgramTrue, Balanced
  <2>5. Given(p, Len(rises))' = Given(p, Len(rises))
    BY <1>2, <1>7, <2>1, SumsStay
  <2>6. shares'[p] = shares[p] + d(p) /\ shares[p] \in Int
    BY <1>1, <1>2
  <2>7. d(p) \in Int /\ d(p) * price \in Int /\ price * shares[p] \in Int
        /\ price * (shares[p] + d(p)) = price * shares[p] + d(p) * price
    BY <1>1
  <2> HIDE DEF d
  <2>8. price' * shares'[p] - PaidFor(p, Len(txs))' - 1 = Given(p, Len(rises))
    BY <1>2, <2>2, <2>3, <2>4, <2>6, <2>7
  <2> QED BY <2>3, <2>4, <2>5, <2>6, <2>8
<1>9. Balanced'
  BY <1>8 DEF Balanced
<1>10. \A i \in DOMAIN txs' : txs'[i].at <= tick'
  <2> SUFFICES ASSUME NEW i \in 1 .. n PROVE txs'[i].at <= tick
    BY <1>2, <1>5
  <2>1. CASE i \in 1 .. Len(txs)
    BY <1>1, <1>5, <2>1 DEF ProgramTrue
  <2>2. CASE i \notin 1 .. Len(txs)
    <3>1. i = n
      BY <1>1, <2>2
    <3> QED BY <1>1, <1>3, <1>5, <3>1
  <2> QED BY <2>1, <2>2
<1> QED BY <1>6, <1>7, <1>9, <1>10 DEF ProgramTrue

-----------------------------------------------------------------------------
(* A price that is read now.                                               *)
NewReading(x) ==
  /\ UNCHANGED <<tick, price, shares, rises, txs>>
  /\ x.at \in Nat /\ x.at <= tick /\ x.price = price /\ x.rise = Len(rises) /\ x.read = tick

LEMMA NewIsTrue ==
  ASSUME ProgramTrue, NEW x, NewReading(x)
  PROVE  ReadingTyped(x) /\ \E n \in 0 .. Len(txs) : ReadAfter(x, n)
<1>1. ProgramTyped /\ tick \in Nat /\ price \in Int /\ Len(rises) \in Nat
  BY DEF ProgramTrue, ProgramTyped
<1>2. DOMAIN txs = 1 .. Len(txs) /\ Len(txs) \in Nat
  BY <1>1, TxIs
<1>3. x.at \in Nat /\ x.at <= tick /\ x.price = price /\ x.rise = Len(rises) /\ x.read = tick
  BY DEF NewReading
<1>4. ReadingTyped(x)
  BY <1>1, <1>3 DEF ReadingTyped
<1>5. \A i \in DOMAIN txs : (i <= Len(txs) => txs[i].at <= x.read) /\ (Len(txs) < i => x.read <= txs[i].at)
  BY <1>2, <1>3 DEF ProgramTrue
<1>6. \A p \in Positions : Given(p, x.rise) = x.price * HeldAfter(p, Len(txs)) - PaidFor(p, Len(txs)) - 1
  BY <1>3 DEF ProgramTrue, Balanced
<1>7. Len(txs) \in 0 .. Len(txs)
  BY <1>2
<1> QED BY <1>4, <1>5, <1>6, <1>7 DEF ReadAfter

LEMMA ReadingsTrueNext ==
  ASSUME ProgramTrue, ReadingsTrue, Goes, \A x \in Readings' : x \in Readings \/ NewReading(x)
  PROVE  ReadingsTrue'
<1>1. \A x \in Readings : ReadingTyped(x) /\ \E n \in 0 .. Len(txs) : ReadAfter(x, n)
  BY DEF ReadingsTrue
<1>2. \A x \in Readings' : ReadingTyped(x) /\ \E n \in 0 .. Len(txs) : ReadAfter(x, n)
  BY <1>1, NewIsTrue
<1>3. ASSUME NEW x \in Readings' PROVE ReadingTyped(x)' /\ \E n \in 0 .. Len(txs)' : ReadAfter(x, n)'
  <2>1. PICK n \in 0 .. Len(txs) : ReadAfter(x, n)
    BY <1>2
  <2>2. ReadingTyped(x)
    BY <1>2
  <2>3. ReadingTyped(x)' /\ ReadAfter(x, n)'
    BY <2>1, <2>2, ReadingsStay
  <2>4. n \in 0 .. Len(txs)'
    BY <2>1, GoesDomains DEF Goes
  <2> QED BY <2>3, <2>4
<1>4. ASSUME NEW x \in Readings', NEW y \in Readings', x.read < y.read PROVE x.rise <= y.rise
  <2>1. ReadingTyped(x) /\ ReadingTyped(y)
    BY <1>2
  <2>2. CASE x \in Readings /\ y \in Readings
    BY <1>4, <2>2 DEF ReadingsTrue
  <2>3. CASE NewReading(x)
    BY <1>4, <2>1, <2>3, GoesDomains DEF NewReading, ReadingTyped
  <2>4. CASE NewReading(y)
    BY <2>1, <2>4, GoesDomains DEF NewReading, ReadingTyped
  <2> QED BY <2>2, <2>3, <2>4
<1> QED BY <1>3, <1>4 DEF ReadingsTrue

LEMMA RequestStays ==
  ASSUME Goes, NEW r, NEW o \in Asking, RequestTrue(r, o), \A x \in r.records : ReadingTyped(x)
  PROVE  RequestTrue(r, o)'
<1>1. ASSUME r.pc \notin {"idle", "positions"}
      PROVE  r.heldAt \in 0 .. Len(txs)' /\ r.shares = [p \in Of(o) |-> HeldAfter(p, r.heldAt)']
  <2>1. r.heldAt \in 0 .. Len(txs) /\ r.shares = [p \in Of(o) |-> HeldAfter(p, r.heldAt)]
    BY <1>1 DEF RequestTrue
  <2>2. \A p \in Of(o) : HeldAfter(p, r.heldAt)' = HeldAfter(p, r.heldAt)
    BY <2>1, SumsStay DEF Of
  <2>3. r.heldAt \in 0 .. Len(txs)'
    BY <2>1, GoesDomains DEF Goes
  <2> QED BY <2>1, <2>2, <2>3
<1>2. ASSUME EventsTrue(r, o) , r.heldAt \in 0 .. Len(txs) PROVE EventsTrue(r, o)'
  <2>1. r.listedAt \in r.heldAt .. Len(txs) /\ r.listedAt \in r.heldAt .. Len(txs)' /\ r.listedAt \in Nat
    BY <1>2, GoesDomains DEF EventsTrue, Goes
  <2>2. ASSUME NEW x \in r.records PROVE \E n \in 0 .. r.listedAt : ReadAfter(x, n)'
    <3>1. PICK n \in 0 .. r.listedAt : ReadAfter(x, n)
      BY <1>2 DEF EventsTrue
    <3>2. n \in 0 .. Len(txs)
      BY <2>1, <3>1, GoesDomains
    <3> QED BY <3>1, <3>2, ReadingsStay
  <2>3. \A i \in 1 .. r.listedAt : i \in DOMAIN txs
    BY <1>2, <2>1, GoesDomains
  <2>4. \A i \in 1 .. r.listedAt : txs'[i] = txs[i] /\ EventsOf(i, o)' = EventsOf(i, o)
    BY <2>3, EventsStay
  <2>5. ListedBy(r)' = ListedBy(r) /\ ListedBy(r) \subseteq 1 .. r.listedAt
    BY <2>4 DEF ListedBy
  <2> QED BY <1>2, <2>1, <2>2, <2>4, <2>5 DEF EventsTrue
<1>3. r.at <= tick'
  BY GoesDomains DEF RequestTrue, Goes
<1> HIDE DEF EventsTrue
<1>4. r.pc = "events" \/ (r.pc = "replied" /\ r.history # <<>>) => EventsTrue(r, o)'
  <2> SUFFICES ASSUME r.pc = "events" \/ (r.pc = "replied" /\ r.history # <<>>) PROVE EventsTrue(r, o)'
    OBVIOUS
  <2>1. r.heldAt \in 0 .. Len(txs) /\ EventsTrue(r, o)
    BY DEF RequestTrue
  <2> QED BY <1>2, <2>1
<1> QED BY <1>1, <1>3, <1>4 DEF RequestTrue

LEMMA RequestsStay ==
  ASSUME Goes, SkrInv, stakeRead' = stakeRead
  PROVE  DOMAIN stakeRead' = Asking /\ \A o \in Asking : \A r \in {stakeRead'[o]} : RequestTrue(r, o)'
<1>1. DOMAIN stakeRead' = Asking
  BY DEF SkrInv
<1>2. ASSUME NEW o \in Asking, NEW r \in {stakeRead'[o]} PROVE RequestTrue(r, o)'
  <2>1. RequestTrue(r, o) /\ r = stakeRead[o]
    BY DEF SkrInv
  <2>2. \A x \in r.records : ReadingTyped(x)
    BY <2>1, ReadingsAre DEF IsReading, SkrInv, ReadingsTrue
  <2> QED BY <2>1, <2>2, RequestStays
<1> QED BY <1>1, <1>2

LEMMA KeptStays ==
  ASSUME Goes, KeptAsRead, UNCHANGED txEvents, Len(txs') = Len(txs)
  PROVE  KeptAsRead'
<1>1. ASSUME NEW i \in DOMAIN txs', txEvents'[i].owner # {}
      PROVE  \E q \in Owners : txEvents'[i].owner = {q} /\ txEvents'[i].events = EventsOf(i, q)'
  <2>1. i \in DOMAIN txs
    BY GoesDomains
  <2> QED BY <1>1, <2>1, EventsStay DEF KeptAsRead
<1> QED BY <1>1 DEF KeptAsRead

LEMMA ReadingsNextAre == \A x : x \in Readings' <=> IsReading(x)'
<1>1. (\A x : x \in Readings <=> IsReading(x))'
  BY ReadingsAre, PTL
<1> QED BY <1>1

-----------------------------------------------------------------------------
(* A request that goes on, in a program that stands.                       *)
Fields == {"pc", "at", "shares", "heldAt", "price", "rise", "read", "records", "toRead", "listedAt", "events",
           "unfound", "borrowed", "history"}

LEMMA FieldsAre == DOMAIN NoRead = Fields
  BY DEF NoRead, Fields

LEMMA RequestMoves ==
  ASSUME SkrInv, UNCHANGED <<tick, price, shares, rises, txs>>, job' = job, NEW o \in Asking, NEW q,
         stakeRead' = [stakeRead EXCEPT ![o] = q], RequestTrue(q, o), q.records \subseteq Readings,
         q.pc \in {"today", "store"} => ReadingOf(q) \in Readings \/ NewReading(ReadingOf(q)),
         DailyRecords', \A d \in Days : records'[d] \subseteq Readings, KeptAsRead'
  PROVE  SkrInv'
<1>1. Goes /\ ProgramTrue'
  BY ProgramStands DEF SkrInv
<1>2. stakeRead'[o] = q /\ (\A p \in Asking : p # o => stakeRead'[p] = stakeRead[p]) /\ DOMAIN stakeRead' = Asking
  BY DEF SkrInv
<1>3. \A x \in Readings' : x \in Readings \/ NewReading(x)
  <2> SUFFICES ASSUME NEW x, IsReading(x)' PROVE x \in Readings \/ NewReading(x)
    BY ReadingsNextAre
  <2>1. Days' = Days
    BY DEF Days
  <2>2. CASE \E d \in Days : x \in records'[d]
    BY <2>2
  <2>3. CASE \E p \in Asking : x \in stakeRead'[p].records
    <3>1. PICK p \in Asking : x \in stakeRead'[p].records
      BY <2>3
    <3>2. CASE p = o
      BY <1>2, <3>1, <3>2
    <3>3. CASE p # o
      <4>1. x \in stakeRead[p].records
        BY <1>2, <3>1, <3>3
      <4> QED BY <4>1, ReadingsAre DEF IsReading
    <3> QED BY <3>2, <3>3
  <2>4. CASE job'.pc = "store" /\ x = ReadingOf(job')
    BY <2>4, ReadingsAre DEF IsReading
  <2>5. CASE \E p \in Asking : stakeRead'[p].pc \in {"today", "store"} /\ x = ReadingOf(stakeRead'[p])
    <3>1. PICK p \in Asking : stakeRead'[p].pc \in {"today", "store"} /\ x = ReadingOf(stakeRead'[p])
      BY <2>5
    <3>2. CASE p = o
      BY <1>2, <3>1, <3>2
    <3>3. CASE p # o
      <4>1. stakeRead[p].pc \in {"today", "store"} /\ x = ReadingOf(stakeRead[p])
        BY <1>2, <3>1, <3>3
      <4> QED BY <4>1, ReadingsAre DEF IsReading
    <3> QED BY <3>2, <3>3
  <2>6. \/ \E d \in Days : x \in records'[d]
        \/ \E p \in Asking : x \in stakeRead'[p].records
        \/ job'.pc = "store" /\ x = ReadingOf(job')
        \/ \E p \in Asking : stakeRead'[p].pc \in {"today", "store"} /\ x = ReadingOf(stakeRead'[p])
    BY <2>1 DEF IsReading, ReadingOf
  <2> QED BY <2>2, <2>3, <2>4, <2>5, <2>6
<1>4. ReadingsTrue'
  BY <1>1, <1>3, ReadingsTrueNext DEF SkrInv
<1>5. JobTyped'
  BY DEF SkrInv, JobTyped
<1>6. ASSUME NEW p \in Asking, NEW r \in {stakeRead'[p]} PROVE RequestTrue(r, p)'
  <2>1. CASE p = o
    <3>1. r = q /\ \A x \in q.records : ReadingTyped(x)
      BY <1>2, <2>1 DEF SkrInv, ReadingsTrue
    <3> QED BY <1>1, <2>1, <3>1, RequestStays
  <2>2. CASE p # o
    <3>1. RequestTrue(r, p) /\ r = stakeRead[p]
      BY <1>2, <2>2 DEF SkrInv
    <3>2. \A x \in r.records : ReadingTyped(x)
      BY <3>1, ReadingsAre DEF IsReading, SkrInv, ReadingsTrue
    <3> QED BY <1>1, <3>1, <3>2, RequestStays
  <2> QED BY <2>1, <2>2
<1> QED BY <1>1, <1>2, <1>4, <1>5, <1>6 DEF SkrInv

(* The records as they are, and what is kept.                              *)
LEMMA RecordsStand ==
  ASSUME SkrInv, records' = records
  PROVE  DailyRecords' /\ \A d \in Days : records'[d] \subseteq Readings
<1>1. DailyRecords'
  BY DEF SkrInv, DailyRecords, Days, DayKey
<1>2. \A d \in Days : records'[d] \subseteq Readings
  BY ReadingsAre DEF IsReading
<1> QED BY <1>1, <1>2

LEMMA KeptStands ==
  ASSUME SkrInv, UNCHANGED <<tick, price, shares, rises, txs, txEvents>>
  PROVE  KeptAsRead'
  BY ProgramStands, KeptStays DEF SkrInv

LEMMA RequestIs ==
  ASSUME SkrInv, NEW o \in Asking, NEW r, r = stakeRead[o]
  PROVE  /\ RequestTrue(r, o) /\ r.records \subseteq Readings /\ DOMAIN r = Fields
         /\ r.pc \in {"today", "store"} => ReadingOf(r) \in Readings
<1>1. RequestTrue(r, o) /\ DOMAIN r = Fields
  BY FieldsAre DEF SkrInv, RequestTrue
<1>2. r.records \subseteq Readings
  BY ReadingsAre DEF IsReading
<1>3. r.pc \in {"today", "store"} => ReadingOf(r) \in Readings
  BY ReadingsAre DEF IsReading
<1> QED BY <1>1, <1>2, <1>3

LEMMA AskStakeTrue ==
  ASSUME SkrInv, NEW o \in Asking, AskStake(o), Program, UNCHANGED job
  PROVE  SkrInv'
<1>1. PICK r : r = stakeRead[o]
  OBVIOUS
<1>2. PICK q : q = [r EXCEPT !.pc = "positions", !.at = tick]
  OBVIOUS
<1>3. /\ RequestTrue(r, o) /\ r.records \subseteq Readings /\ DOMAIN r = Fields /\ r.pc = "idle"
      /\ stakeRead' = [stakeRead EXCEPT ![o] = q] /\ UNCHANGED <<tick, price, shares, rises, txs, records, txEvents, job>>
  BY <1>1, <1>2, RequestIs DEF AskStake, Reads, Program
<1>4. /\ DOMAIN q = Fields /\ q.pc = "positions" /\ q.at = tick
      /\ q.records = r.records /\ q.events = r.events /\ q.history = r.history
  BY <1>2, <1>3 DEF Fields
<1>5. tick \in Nat
  BY DEF SkrInv, ProgramTrue, ProgramTyped
<1>6. RequestTrue(q, o)
  BY <1>3, <1>4, <1>5, FieldsAre DEF RequestTrue
<1> QED BY <1>3, <1>4, <1>6, RequestMoves, RecordsStand, KeptStands

LEMMA GetProgramAccountsTrue ==
  ASSUME SkrInv, NEW o \in Asking, GetProgramAccounts(o), Program, UNCHANGED job
  PROVE  SkrInv'
<1>1. PICK r : r = stakeRead[o]
  OBVIOUS
<1>2. PICK q : q = [r EXCEPT !.pc = "config", !.heldAt = Len(txs), !.shares = [p \in Of(o) |-> shares[p]]]
  OBVIOUS
<1>3. /\ RequestTrue(r, o) /\ r.records \subseteq Readings /\ DOMAIN r = Fields /\ r.pc = "positions"
      /\ stakeRead' = [stakeRead EXCEPT ![o] = q] /\ UNCHANGED <<tick, price, shares, rises, txs, records, txEvents, job>>
  BY <1>1, <1>2, RequestIs DEF GetProgramAccounts, Reads, Program
<1>4. /\ DOMAIN q = Fields /\ q.pc = "config" /\ q.at = r.at
      /\ q.heldAt = Len(txs) /\ q.shares = [p \in Of(o) |-> shares[p]]
      /\ q.records = r.records /\ q.events = r.events /\ q.history = r.history
  BY <1>2, <1>3 DEF Fields
<1>5. Len(txs) \in 0 .. Len(txs)
  BY TxIs DEF SkrInv, ProgramTrue
<1>6. q.shares = [p \in Of(o) |-> HeldAfter(p, q.heldAt)]
  BY <1>4 DEF SkrInv, ProgramTrue, Balanced, Of
<1>7. RequestTrue(q, o)
  BY <1>3, <1>4, <1>5, <1>6, FieldsAre DEF RequestTrue
<1> QED BY <1>3, <1>4, <1>7, RequestMoves, RecordsStand, KeptStands

LEMMA GetStakeConfigTrue ==
  ASSUME SkrInv, NEW o \in Asking, GetStakeConfig(o), Program, UNCHANGED job
  PROVE  SkrInv'
<1>1. PICK r : r = stakeRead[o]
  OBVIOUS
<1>2. PICK q : q = [SharePrice(r) EXCEPT !.pc = "today"]
  OBVIOUS
<1>3. /\ RequestTrue(r, o) /\ r.records \subseteq Readings /\ DOMAIN r = Fields /\ r.pc = "config"
      /\ stakeRead' = [stakeRead EXCEPT ![o] = q] /\ UNCHANGED <<tick, price, shares, rises, txs, records, txEvents, job>>
  BY <1>1, <1>2, RequestIs DEF GetStakeConfig, Reads, Program
<1>4. /\ DOMAIN q = Fields /\ q.pc = "today" /\ q.at = r.at /\ q.heldAt = r.heldAt /\ q.shares = r.shares
      /\ q.price = price /\ q.rise = Len(rises) /\ q.read = tick
      /\ q.records = r.records /\ q.events = r.events /\ q.history = r.history
  BY <1>2, <1>3 DEF Fields, SharePrice
<1>5. NewReading(ReadingOf(q))
  BY <1>3, <1>4 DEF RequestTrue, NewReading, ReadingOf
<1>6. RequestTrue(q, o)
  BY <1>3, <1>4, FieldsAre DEF RequestTrue
<1> QED BY <1>3, <1>4, <1>5, <1>6, RequestMoves, RecordsStand, KeptStands

LEMMA NoRecordTodayTrue ==
  ASSUME SkrInv, NEW o \in Asking, NoRecordToday(o), Program, UNCHANGED job
  PROVE  SkrInv'
<1>1. PICK r : r = stakeRead[o]
  OBVIOUS
<1>2. PICK q : q = [r EXCEPT !.pc = "store"]
  OBVIOUS
<1>3. /\ RequestTrue(r, o) /\ r.records \subseteq Readings /\ DOMAIN r = Fields /\ r.pc = "today"
      /\ ReadingOf(r) \in Readings
      /\ stakeRead' = [stakeRead EXCEPT ![o] = q] /\ UNCHANGED <<tick, price, shares, rises, txs, records, txEvents, job>>
  BY <1>1, <1>2, RequestIs DEF NoRecordToday, Reads, Program
<1>4. /\ DOMAIN q = Fields /\ q.pc = "store" /\ q.at = r.at /\ q.heldAt = r.heldAt /\ q.shares = r.shares
      /\ q.price = r.price /\ q.rise = r.rise /\ q.read = r.read
      /\ q.records = r.records /\ q.events = r.events /\ q.history = r.history
  BY <1>2, <1>3 DEF Fields
<1>5. ReadingOf(q) \in Readings
  BY <1>3, <1>4 DEF ReadingOf
<1>6. RequestTrue(q, o)
  BY <1>3, <1>4, FieldsAre DEF RequestTrue
<1> QED BY <1>3, <1>4, <1>5, <1>6, RequestMoves, RecordsStand, KeptStands

LEMMA PriceStored ==
  ASSUME SkrInv, NEW r, StoreSharePrice(r), ReadingOf(r) \in Readings
  PROVE  DailyRecords' /\ \A d \in Days : records'[d] \subseteq Readings
<1>1. records' = [records EXCEPT ![DayKey(r.at)] = {ReadingOf(r)}] /\ DOMAIN records = Days
  BY DEF StoreSharePrice, ReadingOf, SkrInv, DailyRecords
<1>2. ReadingOf(r).at = r.at
  BY DEF ReadingOf
<1>3. DOMAIN records' = Days /\ \A d \in Days : records'[d] = IF d = DayKey(r.at) THEN {ReadingOf(r)} ELSE records[d]
  BY <1>1
<1>4. DailyRecords'
  BY <1>2, <1>3 DEF SkrInv, DailyRecords, Days, DayKey
<1>5. \A d \in Days : records[d] \subseteq Readings
  BY ReadingsAre DEF IsReading
<1> QED BY <1>3, <1>4, <1>5

LEMMA StoreTodayTrue ==
  ASSUME SkrInv, NEW o \in Asking, StoreToday(o), Program, UNCHANGED job
  PROVE  SkrInv'
<1>1. PICK r : r = stakeRead[o]
  OBVIOUS
<1>2. PICK q : q = [r EXCEPT !.pc = "today"]
  OBVIOUS
<1>3. /\ RequestTrue(r, o) /\ r.records \subseteq Readings /\ DOMAIN r = Fields /\ r.pc = "store"
      /\ ReadingOf(r) \in Readings /\ StoreSharePrice(r)
      /\ stakeRead' = [stakeRead EXCEPT ![o] = q] /\ UNCHANGED <<tick, price, shares, rises, txs, txEvents, job>>
  BY <1>1, <1>2, RequestIs DEF StoreToday, Reads, Program
<1>4. /\ DOMAIN q = Fields /\ q.pc = "today" /\ q.at = r.at /\ q.heldAt = r.heldAt /\ q.shares = r.shares
      /\ q.price = r.price /\ q.rise = r.rise /\ q.read = r.read
      /\ q.records = r.records /\ q.events = r.events /\ q.history = r.history
  BY <1>2, <1>3 DEF Fields
<1>5. ReadingOf(q) \in Readings
  BY <1>3, <1>4 DEF ReadingOf
<1>6. RequestTrue(q, o)
  BY <1>3, <1>4, FieldsAre DEF RequestTrue
<1>7. DailyRecords' /\ \A d \in Days : records'[d] \subseteq Readings
  BY <1>3, PriceStored
<1> QED BY <1>3, <1>4, <1>5, <1>6, <1>7, RequestMoves, KeptStands

LEMMA GetRecordsTrue ==
  ASSUME SkrInv, NEW o \in Asking, GetRecords(o), Program, UNCHANGED job
  PROVE  SkrInv'
<1>1. PICK r : r = stakeRead[o]
  OBVIOUS
<1> DEFINE today == DayKey(r.at)
           window == UNION {records[d] : d \in {e \in Days : today - HistoryDays < e /\ e <= today}}
<1>2. PICK q : q = [r EXCEPT !.records = window, !.pc = IF Cardinality(window) > 1 THEN "signatures" ELSE "reply"]
  OBVIOUS
<1>3. /\ RequestTrue(r, o) /\ r.records \subseteq Readings /\ DOMAIN r = Fields /\ r.pc = "today"
      /\ stakeRead' = [stakeRead EXCEPT ![o] = q] /\ UNCHANGED <<tick, price, shares, rises, txs, records, txEvents, job>>
  BY <1>1, <1>2, RequestIs DEF GetRecords, Reads, Program
<1>4. /\ DOMAIN q = Fields /\ q.pc \in {"signatures", "reply"} /\ q.at = r.at /\ q.heldAt = r.heldAt /\ q.shares = r.shares
      /\ q.records = window /\ q.events = r.events /\ q.history = r.history
  BY <1>2, <1>3 DEF Fields
<1>5. \A x \in window : DayKey(x.at) \in Days /\ x \in records[DayKey(x.at)] /\ x \in Readings
  <2> SUFFICES ASSUME NEW x \in window PROVE DayKey(x.at) \in Days /\ x \in records[DayKey(x.at)] /\ x \in Readings
    OBVIOUS
  <2>1. PICK d \in Days : x \in records[d]
    OBVIOUS
  <2>2. DayKey(x.at) = d
    BY <2>1 DEF SkrInv, DailyRecords
  <2> QED BY <2>1, <2>2, ReadingsAre DEF IsReading
<1>6. \A x, y \in window : DayKey(x.at) = DayKey(y.at) => x = y
  BY <1>5 DEF SkrInv, DailyRecords
<1> HIDE DEF window
<1>7. RequestTrue(q, o)
  BY <1>3, <1>4, <1>5, <1>6, FieldsAre DEF RequestTrue
<1> QED BY <1>3, <1>4, <1>5, <1>7, RequestMoves, RecordsStand, KeptStands

(* The signatures that are found, newest first.                            *)
PlacesTo(s, n) == n \in Nat /\ s \in Seq(Nat) /\ Len(s) = n /\ \A i \in 1 .. n : s[i] = i

Lists(L, S) == L \in Seq(Nat) /\ (\A j \in DOMAIN L : L[j] \in S) /\ \A i \in S : \E j \in DOMAIN L : L[j] = i

LEMMA SignaturesAre ==
  ASSUME NEW S, NEW n, NEW s, PlacesTo(s, n), S \subseteq 1 .. n
  PROVE  Lists(Reverse(SelectAt(s, S)), S)
<1> DEFINE F == SelectAt(s, S)
           c == Cardinality(S)
           L == Reverse(F)
<1>1. (\A i \in S : s[i] = i) /\ \A i \in S : i \in Nat
  BY DEF PlacesTo
<1>2. S \subseteq DOMAIN s /\ s \in Seq(Nat)
  BY DEF PlacesTo
<1>5. /\ S \subseteq Int /\ IsFiniteSet(S) /\ c \in Nat /\ F \in Seq(Nat) /\ Len(F) = c
      /\ \A k \in 1 .. c : Nth(S, k) \in S /\ F[k] = s[Nth(S, k)]
  BY ONLY <1>2, Selected
<1>3. \A k \in 1 .. c : F[k] \in S /\ F[k] = Nth(S, k)
  BY <1>1, <1>5
<1>4. \A i \in S : \E k \in 1 .. c : Nth(S, k) = i
  BY <1>5, NthOnto
<1> HIDE DEF F, c
<1>6. L = [k \in 1 .. c |-> F[(c - k) + 1]]
  BY <1>5 DEF Reverse
<1> HIDE DEF L
<1>7. \A k \in 1 .. c : (c - k) + 1 \in 1 .. c /\ (c - ((c - k) + 1)) + 1 = k
  BY <1>5
<1>8. DOMAIN L = 1 .. c /\ \A k \in 1 .. c : L[k] = F[(c - k) + 1]
  BY ONLY <1>6
<1>9. \A j \in 1 .. c : L[j] \in S /\ F[(c - j) + 1] \in Nat
  <2> SUFFICES ASSUME NEW j \in 1 .. c PROVE L[j] \in S /\ F[(c - j) + 1] \in Nat
    OBVIOUS
  <2>1. (c - j) + 1 \in 1 .. c /\ L[j] = F[(c - j) + 1]
    BY <1>7, <1>8
  <2>2. F[(c - j) + 1] \in S
    BY <1>3, <2>1
  <2> QED BY <1>1, <2>1, <2>2
<1>10. L \in Seq(Nat)
  <2>1. L \in [1 .. c -> Nat]
    BY ONLY <1>6, <1>9
  <2>2. c \in Nat
    BY <1>5
  <2> QED BY ONLY <2>1, <2>2
<1>11. \A i \in S : \E j \in DOMAIN L : L[j] = i
  <2> SUFFICES ASSUME NEW i \in S PROVE \E j \in DOMAIN L : L[j] = i
    OBVIOUS
  <2>1. PICK k \in 1 .. c : Nth(S, k) = i
    BY <1>4
  <2>2. (c - k) + 1 \in 1 .. c /\ L[(c - k) + 1] = F[(c - ((c - k) + 1)) + 1]
    BY ONLY <1>7, <1>8, k \in 1 .. c
  <2>3. L[(c - k) + 1] = F[k]
    BY <1>7, <2>2
  <2> QED BY <1>3, <1>8, <2>1, <2>2, <2>3
<1>12. Lists(L, S)
  BY ONLY <1>8, <1>9, <1>10, <1>11 DEF Lists
<1> QED BY <1>12 DEF L, F

LEMMA EventsUntouched ==
  ASSUME NEW o, NEW i \in DOMAIN txs, i \notin Touching(o)
  PROVE  EventsOf(i, o) = {}
  BY DEF EventsOf, Touching

LEMMA GetOwnerSignaturesTrue ==
  ASSUME SkrInv, NEW o \in Asking, GetOwnerSignatures(o), Program, UNCHANGED job
  PROVE  SkrInv'
<1>1. PICK r : r = stakeRead[o]
  OBVIOUS
<1> DEFINE since == Since(r.records)
           S == {i \in DOMAIN txs : i \in Touching(o) /\ txs[i].at >= since}
           L == Signatures(o, since)
<1>2. PICK q : q = [r EXCEPT !.pc = "events", !.listedAt = Len(txs), !.toRead = L]
  OBVIOUS
<1>3. DOMAIN txs = 1 .. Len(txs) /\ Len(txs) \in Nat /\ ProgramTyped
  BY TxIs DEF SkrInv, ProgramTrue
<1>4. L = Reverse(SelectAt([i \in DOMAIN txs |-> i], S))
  <2>1. {k \in DOMAIN [i \in DOMAIN txs |-> i] : [i \in DOMAIN txs |-> i][k] \in Touching(o)
                                                 /\ txs[[i \in DOMAIN txs |-> i][k]].at >= since} = S
    OBVIOUS
  <2> QED BY <2>1, Zenon DEF Signatures, Where
<1> HIDE DEF L
<1>5. /\ RequestTrue(r, o) /\ r.records \subseteq Readings /\ DOMAIN r = Fields /\ r.pc = "signatures"
      /\ stakeRead' = [stakeRead EXCEPT ![o] = q] /\ UNCHANGED <<tick, price, shares, rises, txs, records, txEvents, job>>
  BY <1>1, <1>2, RequestIs DEF GetOwnerSignatures, Reads, Program, L
<1>7. /\ DOMAIN q = Fields /\ q.pc = "events" /\ q.at = r.at /\ q.heldAt = r.heldAt /\ q.shares = r.shares
      /\ q.listedAt = Len(txs) /\ q.toRead = L /\ q.records = r.records /\ q.events = r.events /\ q.history = r.history
  BY <1>2, <1>5 DEF Fields
<1>8. Lists(L, S)
  <2> DEFINE s == [i \in DOMAIN txs |-> i]
  <2>1. S \subseteq 1 .. Len(txs) /\ PlacesTo(s, Len(txs))
    BY <1>3 DEF PlacesTo
  <2>2. L = Reverse(SelectAt(s, S))
    BY <1>4
  <2> HIDE DEF S, s
  <2> QED BY <2>1, <2>2, SignaturesAre
<1>9. S \subseteq ListedBy(q) /\ \A i \in ListedBy(q) : i \in DOMAIN txs /\ (i \in S \/ EventsOf(i, o) = {})
  <2>1. ListedBy(q) = {i \in 1 .. Len(txs) : since <= txs[i].at}
    BY <1>7 DEF ListedBy
  <2>2. \A i \in 1 .. Len(txs) : i \in DOMAIN txs /\ (txs[i].at >= since <=> since <= txs[i].at)
    BY <1>3
  <2> HIDE DEF since
  <2>3. S \subseteq ListedBy(q) /\ \A i \in ListedBy(q) : i \in DOMAIN txs /\ (i \in S \/ i \notin Touching(o))
    BY <1>3, <2>1, <2>2
  <2> QED BY <2>3, EventsUntouched
<1> HIDE DEF S, since
<1>10. EventsTrue(q, o)
  <2>1. r.heldAt \in 0 .. Len(txs) /\ r.events = {}
    BY <1>5 DEF RequestTrue
  <2>2. q.listedAt \in q.heldAt .. Len(txs)
    BY <1>3, <1>7, <2>1
  <2>3. \A x \in q.records : \E n \in 0 .. q.listedAt : ReadAfter(x, n)
    BY <1>5, <1>7 DEF SkrInv, ReadingsTrue
  <2>4. \A i \in ListedBy(q) : EventsOf(i, o) \subseteq q.events \/ \E j \in DOMAIN q.toRead : q.toRead[j] = i
    BY <1>7, <1>8, <1>9, <2>1 DEF Lists
  <2>5. \A e \in q.events : \E i \in ListedBy(q) : e \in EventsOf(i, o)
    BY <1>7, <2>1
  <2> QED BY <1>7, <1>8, <1>9, <2>2, <2>3, <2>4, <2>5 DEF EventsTrue, Lists
<1>11. RequestTrue(q, o)
  BY <1>5, <1>7, <1>10, FieldsAre DEF RequestTrue
<1> QED BY <1>5, <1>7, <1>11, RequestMoves, RecordsStand, KeptStands

LEMMA StakeReplyTrue ==
  ASSUME SkrInv, NEW o \in Asking, StakeReply(o), Program, UNCHANGED job
  PROVE  SkrInv'
<1>1. PICK r : r = stakeRead[o]
  OBVIOUS
<1> DEFINE history == IF r.pc = "events" THEN HistoryOf(r, o) ELSE <<>>
<1>2. PICK q : q = [r EXCEPT !.pc = "replied", !.history = history]
  OBVIOUS
<1>3. /\ RequestTrue(r, o) /\ r.records \subseteq Readings /\ DOMAIN r = Fields /\ r.pc \in {"events", "reply"}
      /\ r.toRead = <<>> /\ UNCHANGED <<tick, price, shares, rises, txs, records, txEvents, job>>
  BY <1>1, RequestIs DEF StakeReply, Reads, Program
<1>4. stakeRead' = [stakeRead EXCEPT ![o] = q]
  BY <1>1, <1>2, Zenon DEF StakeReply, Reads, HistoryOf
<1>5. /\ DOMAIN q = Fields /\ q.pc = "replied" /\ q.at = r.at /\ q.heldAt = r.heldAt /\ q.shares = r.shares
      /\ q.listedAt = r.listedAt /\ q.toRead = r.toRead /\ q.records = r.records /\ q.events = r.events
      /\ q.unfound = r.unfound /\ q.borrowed = r.borrowed /\ q.history = history
  <2> HIDE DEF history
  <2> QED BY <1>2, <1>3 DEF Fields
<1>6. ASSUME r.pc = "events" PROVE RequestTrue(q, o)
  <2>1. EventsTrue(r, o)
    BY <1>3, <1>6 DEF RequestTrue
  <2>2. ListedBy(q) = ListedBy(r)
    BY <1>5 DEF ListedBy
  <2>3. EventsTrue(q, o)
    BY <1>5, <2>1, <2>2 DEF EventsTrue
  <2>4. q.history = HistoryOf(q, o)
    BY <1>5, <1>6 DEF HistoryOf
  <2> HIDE DEF history
  <2> QED BY <1>3, <1>5, <1>6, <2>3, <2>4, FieldsAre DEF RequestTrue
<1>7. ASSUME r.pc # "events" PROVE RequestTrue(q, o)
  <2>1. q.history = <<>>
    BY <1>5, <1>7
  <2> HIDE DEF history
  <2> QED BY <1>3, <1>5, <1>7, <2>1, FieldsAre DEF RequestTrue
<1>8. RequestTrue(q, o)
  BY <1>6, <1>7
<1> QED BY <1>3, <1>4, <1>5, <1>8, RequestMoves, RecordsStand, KeptStands

LEMMA StakeCallFailsTrue ==
  ASSUME SkrInv, NEW o \in Asking, StakeCallFails(o), Program, UNCHANGED job
  PROVE  SkrInv'
<1>1. PICK r : r = stakeRead[o]
  OBVIOUS
<1>2. /\ RequestTrue(r, o) /\ r.records \subseteq Readings /\ DOMAIN r = Fields
      /\ UNCHANGED <<tick, price, shares, rises, txs, records, txEvents, job>>
  BY <1>1, RequestIs DEF StakeCallFails, Program
<1>3. CASE \E pc \in {"signatures", "events"} : Reads(o, pc, [r EXCEPT !.pc = "reply", !.toRead = <<>>])
  <2>1. PICK q : q = [r EXCEPT !.pc = "reply", !.toRead = <<>>]
    OBVIOUS
  <2>2. r.pc \in {"signatures", "events"} /\ stakeRead' = [stakeRead EXCEPT ![o] = q]
    BY <1>1, <1>3, <2>1 DEF Reads
  <2>3. /\ DOMAIN q = Fields /\ q.pc = "reply" /\ q.at = r.at /\ q.heldAt = r.heldAt /\ q.shares = r.shares
        /\ q.records = r.records
    BY <1>2, <2>1 DEF Fields
  <2>4. RequestTrue(q, o)
    BY <1>2, <2>2, <2>3, FieldsAre DEF RequestTrue
  <2> QED BY <1>2, <2>2, <2>3, <2>4, RequestMoves, RecordsStand, KeptStands
<1>4. CASE \E pc \in {"positions", "config"} : Reads(o, pc, NoRead)
  <2>1. stakeRead' = [stakeRead EXCEPT ![o] = NoRead]
    BY <1>4 DEF Reads
  <2>2. NoRead.pc = "idle" /\ NoRead.at = 0 /\ NoRead.records = {} /\ NoRead.events = {} /\ NoRead.history = <<>>
    BY DEF NoRead
  <2>3. tick \in Nat
    BY DEF SkrInv, ProgramTrue, ProgramTyped
  <2>4. RequestTrue(NoRead, o)
    BY <2>2, <2>3 DEF RequestTrue
  <2> QED BY <1>2, <2>1, <2>2, <2>4, RequestMoves, RecordsStand, KeptStands
<1> QED BY <1>1, <1>3, <1>4 DEF StakeCallFails

(* One more transaction read.                                              *)
ReadMore(r, es, u, b) ==
  [r EXCEPT !.toRead = Tail(r.toRead), !.events = r.events \cup es,
            !.unfound = r.unfound \/ u, !.borrowed = r.borrowed \/ b]

LEMMA EventsRead ==
  ASSUME NEW o, NEW r, RequestTrue(r, o), DOMAIN r = Fields, r.pc = "events", r.toRead # <<>>,
         NEW es, NEW u \in BOOLEAN, NEW b \in BOOLEAN, ~u /\ ~b => es = EventsOf(Head(r.toRead), o),
         NEW q, q = ReadMore(r, es, u, b)
  PROVE  RequestTrue(q, o) /\ q.records = r.records /\ q.pc = "events"
<1> DEFINE L == r.toRead
           i == Head(L)
<1>1. /\ DOMAIN q = Fields /\ q.pc = "events" /\ q.at = r.at /\ q.heldAt = r.heldAt /\ q.shares = r.shares
      /\ q.listedAt = r.listedAt /\ q.toRead = Tail(L) /\ q.records = r.records /\ q.events = r.events \cup es
      /\ (~q.unfound <=> ~r.unfound /\ ~u) /\ (~q.borrowed <=> ~r.borrowed /\ ~b)
  BY DEF Fields, ReadMore
<1>2. EventsTrue(r, o)
  BY DEF RequestTrue
<1>3. L \in Seq(Nat) /\ L # <<>> /\ \A j \in DOMAIN L : L[j] \in ListedBy(r)
  BY <1>2 DEF EventsTrue
<1>4. ListedBy(q) = ListedBy(r)
  BY <1>1 DEF ListedBy
<1> HIDE DEF L
<1>5. /\ Tail(L) \in Seq(Nat) /\ DOMAIN Tail(L) = 1 .. (Len(L) - 1) /\ Len(L) \in Nat /\ DOMAIN L = 1 .. Len(L)
      /\ 1 \in DOMAIN L /\ i = L[1] /\ \A j \in DOMAIN Tail(L) : j + 1 \in DOMAIN L /\ Tail(L)[j] = L[j + 1]
  BY <1>3
<1> HIDE DEF i
<1>6. i \in ListedBy(r) /\ \A j \in DOMAIN Tail(L) : Tail(L)[j] \in ListedBy(r)
  BY <1>3, <1>5
<1>7. \A n \in ListedBy(r) : (\E j \in DOMAIN L : L[j] = n) => n = i \/ \E j \in DOMAIN Tail(L) : Tail(L)[j] = n
  <2> SUFFICES ASSUME NEW n, NEW j \in DOMAIN L, L[j] = n, n # i PROVE \E k \in DOMAIN Tail(L) : Tail(L)[k] = n
    OBVIOUS
  <2>1. j - 1 \in DOMAIN Tail(L) /\ (j - 1) + 1 = j
    BY <1>5
  <2> QED BY <1>5, <2>1
<1>8. ASSUME ~q.unfound, ~q.borrowed
      PROVE  /\ \A e \in q.events : \E n \in ListedBy(q) : e \in EventsOf(n, o)
             /\ \A n \in ListedBy(q) : EventsOf(n, o) \subseteq q.events \/ \E j \in DOMAIN q.toRead : q.toRead[j] = n
  <2>1. es = EventsOf(i, o) /\ ~r.unfound /\ ~r.borrowed
    BY <1>1, <1>8 DEF i, L
  <2>2. /\ \A e \in r.events : \E n \in ListedBy(r) : e \in EventsOf(n, o)
        /\ \A n \in ListedBy(r) : EventsOf(n, o) \subseteq r.events \/ \E j \in DOMAIN L : L[j] = n
    BY <1>2, <2>1 DEF EventsTrue, L
  <2>3. \A e \in q.events : \E n \in ListedBy(q) : e \in EventsOf(n, o)
    BY <1>1, <1>4, <1>6, <2>1, <2>2
  <2>4. \A n \in ListedBy(q) : EventsOf(n, o) \subseteq q.events \/ \E j \in DOMAIN q.toRead : q.toRead[j] = n
    BY <1>1, <1>4, <1>7, <2>1, <2>2
  <2> QED BY <2>3, <2>4
<1>9. EventsTrue(q, o)
  BY <1>1, <1>2, <1>4, <1>5, <1>6, <1>8 DEF EventsTrue
<1> QED BY <1>1, <1>9, FieldsAre DEF RequestTrue

(* What the first reader of a transaction keeps of it.                     *)
LEMMA KeptNow ==
  ASSUME SkrInv, UNCHANGED <<tick, price, shares, rises, txs>>, NEW i \in DOMAIN txs, NEW o \in Owners,
         txEvents' = [txEvents EXCEPT ![i] = [owner |-> {o}, events |-> EventsOf(i, o)]]
  PROVE  KeptAsRead'
<1> DEFINE Entries == [owner : SUBSET Owners, events : SUBSET KeptEvents]
           e == [owner |-> {o}, events |-> EventsOf(i, o)]
<1>1. ProgramTyped /\ txEvents \in Seq(Entries) /\ Len(txEvents) = Len(txs)
  BY DEF SkrInv, ProgramTrue, KeptAsRead
<1>2. EventsOf(i, o) \subseteq KeptEvents
  <2>1. txs[i] \in StakeTxs /\ i \in Nat
    <3>1. txs \in Seq(StakeTxs)
      BY <1>1 DEF ProgramTyped
    <3> QED BY <3>1
  <2> QED BY <2>1 DEF EventsOf, KeptEvents, StakeTxs
<1>3. e \in Entries
  BY <1>2
<1>4. EventsOf(i, o)' = EventsOf(i, o)
  BY DEF EventsOf
<1> HIDE DEF Entries
<1>5. DOMAIN txs = 1 .. Len(txs) /\ DOMAIN txEvents = 1 .. Len(txs)
  BY <1>1, TxIs
<1>6. /\ txEvents' \in Seq(Entries) /\ Len(txEvents') = Len(txs') /\ txEvents'[i] = e
      /\ \A j \in DOMAIN txs : j # i => txEvents'[j] = txEvents[j]
  BY <1>1, <1>3, <1>5
<1>7. ASSUME NEW j \in DOMAIN txs', txEvents'[j].owner # {}
      PROVE  \E q \in Owners : txEvents'[j].owner = {q} /\ txEvents'[j].events = EventsOf(j, q)'
  <2>1. CASE j = i
    BY <1>4, <1>6, <2>1
  <2>2. CASE j # i
    <3>1. j \in DOMAIN txs /\ txEvents'[j] = txEvents[j] /\ \A q : EventsOf(j, q)' = EventsOf(j, q)
      BY <1>6, <2>2 DEF EventsOf
    <3> QED BY <1>7, <3>1 DEF SkrInv, KeptAsRead
  <2> QED BY <2>1, <2>2
<1> QED BY <1>6, <1>7 DEF KeptAsRead, Entries

LEMMA TransactionEventsTrue ==
  ASSUME SkrInv, NEW o \in Asking, TransactionEvents(o), Program, UNCHANGED job
  PROVE  SkrInv'
<1>1. PICK r : r = stakeRead[o]
  OBVIOUS
<1> DEFINE i == Head(r.toRead)
           kept(es, unfound, borrowed) ==
             Reads(o, "events", [r EXCEPT !.toRead = Tail(r.toRead), !.events = r.events \cup es,
                                          !.unfound = @ \/ unfound, !.borrowed = @ \/ borrowed])
<1>2. /\ RequestTrue(r, o) /\ r.records \subseteq Readings /\ DOMAIN r = Fields /\ r.toRead # <<>>
      /\ UNCHANGED <<tick, price, shares, rises, txs, records, job>>
  BY <1>1, RequestIs DEF TransactionEvents, Program
<1>3. \/ /\ txEvents[i].owner # {}
         /\ kept(txEvents[i].events, FALSE, txEvents[i].owner # {o})
         /\ UNCHANGED <<txEvents, unread>>
      \/ /\ txEvents[i].owner = {} /\ kept(EventsOf(i, o), FALSE, FALSE)
         /\ txEvents' = [txEvents EXCEPT ![i] = [owner |-> {o}, events |-> EventsOf(i, o)]]
         /\ UNCHANGED unread
      \/ /\ txEvents[i].owner = {} /\ unread < MaxUnread /\ unread' = unread + 1
         /\ kept({}, TRUE, FALSE) /\ UNCHANGED txEvents
  BY <1>1, Zenon DEF TransactionEvents
<1>4. ASSUME NEW es, NEW u, NEW b, kept(es, u, b)
      PROVE  /\ r.pc = "events"
             /\ stakeRead' = [stakeRead EXCEPT ![o] = ReadMore(r, es, u, b)]
  BY <1>1, <1>4, Zenon DEF Reads, ReadMore
<1> HIDE DEF kept
<1>5. r.pc = "events"
  BY <1>3, <1>4
<1>6. i \in DOMAIN txs
  <2>1. r.toRead \in Seq(Nat) /\ (\A j \in DOMAIN r.toRead : r.toRead[j] \in ListedBy(r)) /\ r.listedAt <= Len(txs)
    BY <1>2, <1>5 DEF RequestTrue, EventsTrue
  <2>2. i \in ListedBy(r)
    BY <1>2, <2>1
  <2>3. DOMAIN txs = 1 .. Len(txs) /\ Len(txs) \in Nat /\ r.listedAt \in Int
    BY <1>2, <1>5, TxIs DEF RequestTrue, EventsTrue, SkrInv, ProgramTrue
  <2> QED BY <2>1, <2>2, <2>3 DEF ListedBy
<1>7. ASSUME NEW es, NEW u \in BOOLEAN, NEW b \in BOOLEAN, kept(es, u, b), ~u /\ ~b => es = EventsOf(i, o), KeptAsRead'
      PROVE  SkrInv'
  <2>1. PICK q : q = ReadMore(r, es, u, b) /\ stakeRead' = [stakeRead EXCEPT ![o] = q]
    BY <1>4, <1>7
  <2>2. RequestTrue(q, o) /\ q.records = r.records /\ q.pc = "events"
    BY <1>2, <1>5, <1>7, <2>1, EventsRead
  <2> QED BY <1>2, <1>7, <2>1, <2>2, RequestMoves, RecordsStand
<1>8. CASE txEvents[i].owner # {} /\ kept(txEvents[i].events, FALSE, txEvents[i].owner # {o}) /\ UNCHANGED txEvents
  <2>1. PICK q \in Owners : txEvents[i].owner = {q} /\ txEvents[i].events = EventsOf(i, q)
    BY <1>6, <1>8 DEF SkrInv, KeptAsRead
  <2>2. ~(txEvents[i].owner # {o}) => txEvents[i].events = EventsOf(i, o)
    <3> SUFFICES ASSUME txEvents[i].owner = {o} PROVE q = o
      BY <2>1
    <3> QED BY <2>1
  <2>3. KeptAsRead'
    BY <1>2, <1>8, KeptStands
  <2>4. (txEvents[i].owner # {o}) \in BOOLEAN
    OBVIOUS
  <2> QED BY <1>7, <1>8, <2>2, <2>3, <2>4
<1>9. CASE kept(EventsOf(i, o), FALSE, FALSE) /\ txEvents' = [txEvents EXCEPT ![i] = [owner |-> {o}, events |-> EventsOf(i, o)]]
  <2>1. KeptAsRead'
    BY <1>2, <1>6, <1>9, KeptNow, SkrAssumption
  <2> QED BY <1>7, <1>9, <2>1
<1>10. CASE kept({}, TRUE, FALSE) /\ UNCHANGED txEvents
  <2>1. KeptAsRead'
    BY <1>2, <1>10, KeptStands
  <2> QED BY <1>7, <1>10, <2>1
<1> QED BY <1>3, <1>8, <1>9, <1>10

-----------------------------------------------------------------------------
(* The steps of no request.                                                *)
LEMMA RequestsWait ==
  ASSUME SkrInv, Goes, ProgramTrue', stakeRead' = stakeRead, DailyRecords', JobTyped', KeptAsRead',
         \A x \in Readings' : x \in Readings \/ NewReading(x)
  PROVE  SkrInv'
<1>1. ReadingsTrue'
  BY ReadingsTrueNext DEF SkrInv
<1>2. DOMAIN stakeRead' = Asking /\ \A o \in Asking : \A r \in {stakeRead'[o]} : RequestTrue(r, o)'
  BY RequestsStay
<1> QED BY <1>1, <1>2 DEF SkrInv

LEMMA ReadingsSame ==
  ASSUME UNCHANGED <<records, job, stakeRead>>
  PROVE  Readings' = Readings
  BY DEF Readings, ReadingOf, Days

LEMMA RecordsSame ==
  ASSUME SkrInv, records' = records
  PROVE  DailyRecords'
  BY RecordsStand

LEMMA JobSame ==
  ASSUME SkrInv, Goes, job' = job
  PROVE  JobTyped'
<1>1. tick \in Nat /\ tick' \in Nat /\ tick <= tick'
  BY GoesDomains DEF Goes
<1> QED BY <1>1 DEF SkrInv, JobTyped

LEMMA PayoutInv ==
  ASSUME SkrInv, Payout
  PROVE  SkrInv'
<1>1. Goes /\ ProgramTrue' /\ UNCHANGED <<tick, shares, txs, records, txEvents, job, stakeRead>>
  BY PayoutTrue DEF SkrInv, Payout
<1>2. KeptAsRead'
  BY <1>1, KeptStays DEF SkrInv
<1> QED BY <1>1, <1>2, RequestsWait, ReadingsSame, RecordsSame, JobSame

LEMMA TickInv ==
  ASSUME SkrInv, TickOn
  PROVE  SkrInv'
<1>1. Goes /\ ProgramTrue' /\ UNCHANGED <<price, shares, rises, txs, records, txEvents, job, stakeRead>>
  BY TickTrue DEF SkrInv, TickOn
<1>2. KeptAsRead'
  BY <1>1, KeptStays DEF SkrInv
<1> QED BY <1>1, <1>2, RequestsWait, ReadingsSame, RecordsSame, JobSame

LEMMA ShareEventInv ==
  ASSUME SkrInv, NEW ps \in SUBSET Positions, NEW sign \in {1, -1}, ShareEvent(ps, sign)
  PROVE  SkrInv'
<1> DEFINE Entries == [owner : SUBSET Owners, events : SUBSET KeptEvents]
           e == [owner |-> {}, events |-> {}]
<1>1. Goes /\ ProgramTrue' /\ UNCHANGED <<tick, price, rises, records, job, stakeRead>>
  BY ShareEventTrue DEF SkrInv, ShareEvent
<1>2. KeptAsRead'
  <2>1. txEvents \in Seq(Entries) /\ Len(txEvents) = Len(txs) /\ txEvents' = Append(txEvents, e) /\ e \in Entries /\ e.owner = {}
    BY DEF SkrInv, KeptAsRead, ShareEvent
  <2>2. Len(txs') = Len(txs) + 1 /\ DOMAIN txs' = 1 .. (Len(txs) + 1)
    <3>1. \E t : txs' = Append(txs, t) /\ t \in StakeTxs
      <4>1. txs \in Seq(StakeTxs) /\ txs' \in Seq(StakeTxs)
        BY <1>1 DEF Goes, ProgramTyped
      <4> DEFINE t == [at |-> tick, events |-> {[position |-> p, sharesDelta |-> sign, sharePrice |-> price] : p \in ps}]
      <4>2. t \in StakeTxs /\ txs' = Append(txs, t)
        BY DEF ShareEvent, SkrInv, ProgramTrue, ProgramTyped, StakeTxs
      <4> QED BY <4>2
    <3>2. txs \in Seq(StakeTxs)
      BY <1>1 DEF Goes, ProgramTyped
    <3> QED BY <3>1, <3>2
  <2> HIDE DEF Entries, e
  <2>3. /\ txEvents' \in Seq(Entries) /\ Len(txEvents') = Len(txs') /\ txEvents'[Len(txs) + 1] = e
        /\ \A i \in 1 .. Len(txs) : txEvents'[i] = txEvents[i]
    BY <2>1, <2>2
  <2>4. ASSUME NEW i \in DOMAIN txs', txEvents'[i].owner # {}
        PROVE  \E q \in Owners : txEvents'[i].owner = {q} /\ txEvents'[i].events = EventsOf(i, q)'
    <3>1. DOMAIN txs = 1 .. Len(txs) /\ Len(txs) \in Nat
      BY <1>1, GoesDomains
    <3>2. i # Len(txs) + 1
      BY <2>1, <2>3, <2>4
    <3>3. i \in DOMAIN txs
      BY <2>2, <3>1, <3>2
    <3>4. txEvents'[i] = txEvents[i] /\ \A q : EventsOf(i, q)' = EventsOf(i, q)
      BY <1>1, <2>3, <3>1, <3>3, EventsStay
    <3> QED BY <2>4, <3>3, <3>4 DEF SkrInv, KeptAsRead
  <2> QED BY <2>3, <2>4 DEF KeptAsRead, Entries
<1> QED BY <1>1, <1>2, RequestsWait, ReadingsSame, RecordsSame, JobSame

LEMMA OtherOwnerReadsInv ==
  ASSUME SkrInv, NEW i \in DOMAIN txs, NEW o \in Owners, OtherOwnerReads(i, o)
  PROVE  SkrInv'
<1>1. UNCHANGED <<tick, price, shares, rises, txs, records, job, stakeRead>>
  BY DEF OtherOwnerReads, Program
<1>2. Goes /\ ProgramTrue'
  BY <1>1, ProgramStands DEF SkrInv
<1>3. KeptAsRead'
  BY <1>1, KeptNow DEF OtherOwnerReads
<1> QED BY <1>1, <1>2, <1>3, RequestsWait, ReadingsSame, RecordsSame, JobSame

LEMMA RecordSharePriceInv ==
  ASSUME SkrInv, RecordSharePrice
  PROVE  SkrInv'
<1>1. UNCHANGED <<tick, price, shares, rises, txs, txEvents, stakeRead>>
  BY DEF RecordSharePrice, Program
<1>2. Goes /\ ProgramTrue' /\ KeptAsRead'
  BY <1>1, ProgramStands, KeptStands DEF SkrInv
<1>3. tick \in Nat /\ price \in Int /\ Len(rises) \in Nat
  BY DEF SkrInv, ProgramTrue, ProgramTyped
<1>4. ASSUME DailyRecords', JobTyped', \A d \in Days : records'[d] \subseteq Readings,
             job'.pc = "store" => ReadingOf(job') \in Readings \/ NewReading(ReadingOf(job'))
      PROVE  SkrInv'
  <2>1. ASSUME NEW x \in Readings' PROVE x \in Readings \/ NewReading(x)
    <3>1. \/ \E d \in Days : x \in records'[d]
          \/ \E o \in Asking : x \in stakeRead[o].records
          \/ job'.pc = "store" /\ x = ReadingOf(job')
          \/ \E o \in Asking : stakeRead[o].pc \in {"today", "store"} /\ x = ReadingOf(stakeRead[o])
      <4>1. IsReading(x)'
        BY <2>1, ReadingsNextAre
      <4> QED BY <1>1, <4>1 DEF IsReading, ReadingOf, Days
    <3> QED BY <1>4, <3>1, ReadingsAre DEF IsReading
  <2> QED BY <1>1, <1>2, <1>4, <2>1, RequestsWait
<1>5. JobTyped
  BY DEF SkrInv
<1>6. CASE JobStarts
  <2>1. job' = [job EXCEPT !.pc = "read", !.at = tick] /\ records' = records
    BY <1>6 DEF JobStarts
  <2>2. job' = [pc |-> "read", at |-> tick, price |-> job.price, rise |-> job.rise, read |-> job.read]
    BY <1>5, <2>1 DEF JobTyped
  <2>3. JobTyped' /\ job'.pc = "read"
    BY <1>1, <1>3, <1>5, <2>2 DEF JobTyped
  <2> QED BY <1>4, <2>1, <2>3, RecordsStand
<1>7. CASE JobReads
  <2>1. /\ job.pc = "read" /\ job' = [job EXCEPT !.price = price, !.rise = Len(rises), !.read = tick, !.pc = "store"]
        /\ records' = records
    BY <1>7 DEF JobReads, SharePrice
  <2>0. job' = [pc |-> "store", at |-> job.at, price |-> price, rise |-> Len(rises), read |-> tick]
    BY <1>5, <2>1 DEF JobTyped
  <2>2. JobTyped' /\ job'.at = job.at /\ job'.price = price /\ job'.rise = Len(rises) /\ job'.read = tick
    BY <1>1, <1>3, <1>5, <2>0, <2>1 DEF JobTyped
  <2>3. NewReading(ReadingOf(job'))
    BY <1>1, <1>5, <2>1, <2>2 DEF NewReading, ReadingOf, JobTyped
  <2> QED BY <1>4, <2>1, <2>2, <2>3, RecordsStand
<1>8. CASE JobStores
  <2>1. job.pc = "store" /\ StoreSharePrice(job) /\ job' = [NoJob EXCEPT !.at = job.at]
    BY <1>8 DEF JobStores
  <2>2. JobTyped' /\ job'.pc = "off"
    BY <1>1, <1>3, <1>5, <2>1 DEF JobTyped, NoJob
  <2>3. ReadingOf(job) \in Readings
    BY <2>1, ReadingsAre DEF IsReading
  <2> QED BY <1>4, <2>1, <2>2, <2>3, PriceStored
<1> QED BY <1>6, <1>7, <1>8 DEF RecordSharePrice

-----------------------------------------------------------------------------
(* The invariant from the start and by every step.                         *)
LEMMA SkrInvInit == SkrInit => SkrInv
<1> SUFFICES ASSUME SkrInit PROVE SkrInv
  OBVIOUS
<1>1. /\ tick = 0 /\ price = 1 /\ shares = [p \in Positions |-> 1] /\ rises = <<>> /\ txs = <<>>
      /\ records = [d \in Days |-> {}] /\ txEvents = <<>> /\ job = NoJob /\ stakeRead = [o \in Asking |-> NoRead]
  BY DEF SkrInit
<1>2. ProgramTyped
  BY <1>1 DEF ProgramTyped
<1>3. ProgramTrue
  <2>1. Len(txs) = 0 /\ Len(rises) = 0 /\ 1 .. 0 = {} /\ DOMAIN txs = {}
    BY <1>1
  <2>2. ASSUME NEW p \in Positions
        PROVE  shares[p] = HeldAfter(p, Len(txs)) /\ Given(p, Len(rises)) = price * shares[p] - PaidFor(p, Len(txs)) - 1
    <3>1. HeldAfter(p, Len(txs)) = 1 /\ PaidFor(p, Len(txs)) = 0 /\ Given(p, Len(rises)) = 0
      BY <2>1, SumOfNone DEF HeldAfter, PaidFor, Given
    <3>2. shares[p] = 1
      BY <1>1
    <3> QED BY <1>1, <3>1, <3>2
  <2> QED BY <1>2, <2>1, <2>2 DEF ProgramTrue, Balanced
<1>4. NoRead.pc = "idle" /\ NoRead.at = 0 /\ NoRead.records = {} /\ NoRead.events = {} /\ NoRead.history = <<>>
  BY DEF NoRead
<1>5. ReadingsTrue
  <2>1. \A o \in Asking : stakeRead[o] = NoRead
    BY <1>1
  <2>2. \A d \in Days : records[d] = {}
    BY <1>1
  <2>3. job.pc = "off"
    BY <1>1 DEF NoJob
  <2>4. \A x : ~IsReading(x)
    BY <1>4, <2>1, <2>2, <2>3 DEF IsReading
  <2> QED BY <2>4, ReadingsAre DEF ReadingsTrue
<1>6. DailyRecords
  BY <1>1 DEF DailyRecords
<1>7. JobTyped
  BY <1>1 DEF JobTyped, NoJob
<1>8. KeptAsRead
  BY <1>1 DEF KeptAsRead
<1>9. \A o \in Asking : \A r \in {stakeRead[o]} : RequestTrue(r, o)
  <2>1. \A o \in Asking : RequestTrue(NoRead, o)
    BY <1>1, <1>4 DEF RequestTrue
  <2> QED BY <1>1, <2>1
<1> QED BY <1>1, <1>3, <1>5, <1>6, <1>7, <1>8, <1>9 DEF SkrInv

LEMMA SkrInvNext == SkrInv /\ [SkrNext]_skrVars => SkrInv'
<1> SUFFICES ASSUME SkrInv, [SkrNext]_skrVars PROVE SkrInv'
  OBVIOUS
<1>1. CASE Payout
  BY <1>1, PayoutInv
<1>2. CASE TickOn
  BY <1>2, TickInv
<1>3. CASE RecordSharePrice
  BY <1>3, RecordSharePriceInv
<1>4. CASE \E ps \in SUBSET Positions \ {{}}, sign \in {1, -1} : ShareEvent(ps, sign)
  BY <1>4, ShareEventInv
<1>5. ASSUME NEW o \in Asking, GetSkrStake(o) PROVE SkrInv'
  <2>1. Program /\ UNCHANGED job
    BY <1>5 DEF GetSkrStake
  <2>2. \/ AskStake(o) \/ GetProgramAccounts(o) \/ GetStakeConfig(o) \/ NoRecordToday(o) \/ StoreToday(o)
        \/ GetRecords(o) \/ GetOwnerSignatures(o) \/ TransactionEvents(o) \/ StakeReply(o) \/ StakeCallFails(o)
    BY <1>5 DEF GetSkrStake
  <2> QED BY <2>1, <2>2, AskStakeTrue, GetProgramAccountsTrue, GetStakeConfigTrue, NoRecordTodayTrue, StoreTodayTrue,
             GetRecordsTrue, GetOwnerSignaturesTrue, TransactionEventsTrue, StakeReplyTrue, StakeCallFailsTrue
<1>6. CASE \E i \in DOMAIN txs, o \in Owners \ Asking : OtherOwnerReads(i, o)
  BY <1>6, OtherOwnerReadsInv
<1>7. CASE UNCHANGED skrVars
  <2>1. UNCHANGED <<tick, price, shares, rises, txs, records, txEvents, job, stakeRead>>
    BY <1>7 DEF skrVars
  <2>2. Goes /\ ProgramTrue' /\ KeptAsRead'
    BY <2>1, ProgramStands, KeptStands DEF SkrInv
  <2> QED BY <2>1, <2>2, RequestsWait, ReadingsSame, RecordsSame, JobSame
<1> QED BY <1>1, <1>2, <1>3, <1>4, <1>5, <1>6, <1>7 DEF SkrNext

LEMMA SkrInvAlways == ServicesSpec => []SkrInv
<1>1. ServicesInit => SkrInv
  BY SkrInvInit DEF ServicesInit
<1>2. SkrInv /\ [ServicesNext]_serviceVars => SkrInv'
  <2>1. [ServicesNext]_serviceVars => [SkrNext]_skrVars
    BY DEF ServicesNext, serviceVars, Transactions, SkrStake, Staking, Nfts, NftAction, Events, Bitcoin, Balance
  <2> QED BY <2>1, SkrInvNext
<1> QED BY <1>1, <1>2, PTL DEF ServicesSpec

(* A history that is given says between any two quiet records exactly what *)
(* the payouts gave the position, however its owner staked and unstaked    *)
(* between them and however the reads of other owners, the job and the     *)
(* program went on meanwhile (getSkrStake, exactHistory, ownerEvents).     *)
THEOREM HistoryRowsExact == ServicesSpec => []CalmHistoryExact
<1> QED BY SkrInvAlways, ExactFromInv, PTL
=============================================================================

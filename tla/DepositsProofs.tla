--------------------------- MODULE DepositsProofs ---------------------------
(***************************************************************************)
(* For every set of deposits and payments, and any number of credits and   *)
(* reversals at once: no payment is credited twice, or taken and credited  *)
(* to nobody; every deposit gets the bonus of its number; the ledger adds  *)
(* up to the balance, which its last row shows and which is never          *)
(* negative; the cumulative total is the sum of what was credited; and a   *)
(* reversal takes back all that its deposit brought.                       *)
(*                                                                         *)
(* A sum over a finite set is a recursive function in the library; that it *)
(* moves by as much as the one row that changes is proved first, by        *)
(* induction on the set, and used for the CFD desk as well (CfdProofs).    *)
(***************************************************************************)
EXTENDS Deposits, FiniteSetTheorems, SequenceTheorems, WellFoundedInduction, TLAPS

(* Induction on finite sets, for a property that is given as the set of     *)
(* those that have it.                                                      *)
LEMMA SmallestSet ==
  ASSUME NEW S, IsFiniteSet(S), NEW Bad \in SUBSET SUBSET S, Bad # {}
  PROVE  \E T \in Bad : \A x \in T : T \ {x} \notin Bad
<1>1. Bad \subseteq FiniteSubsetsOf(S)
  BY FS_Subset DEF FiniteSubsetsOf
<1>2. IsWellFoundedOn(StrictSubsetOrdering(S), FiniteSubsetsOf(S))
  BY FS_StrictSubsetOrderingWellFounded
<1>3. PICK T \in Bad : \A U \in Bad : ~(<<U, T>> \in StrictSubsetOrdering(S))
  BY <1>1, <1>2, WFMin
<1>4. ASSUME NEW x \in T, T \ {x} \in Bad PROVE FALSE
  <2>1. <<T \ {x}, T>> \in StrictSubsetOrdering(S)
    BY <1>4 DEF StrictSubsetOrdering
  <2>2. QED
    BY <1>3, <1>4, <2>1
<1>5. QED
  BY <1>4

LEMMA EveryNumber ==
  ASSUME NEW Good \in SUBSET Nat, 0 \in Good, \A n \in Good : n + 1 \in Good
  PROVE  Good = Nat
<1>1. SUFFICES ASSUME NEW b \in Nat \ Good PROVE FALSE
  OBVIOUS
<1>2. PICK S : S = 0..b /\ IsFiniteSet(S)
  BY FS_Interval
<1>3. PICK Bad : Bad = {T \in SUBSET S : \E k \in S \ Good : T = 0..k}
  OBVIOUS
<1>4. Bad \in SUBSET SUBSET S /\ 0..b \in Bad
  BY <1>2, <1>3
<1>5. PICK T \in Bad : \A x \in T : T \ {x} \notin Bad
  BY <1>2, <1>4, SmallestSet
<1>6. PICK k \in S \ Good : T = 0..k
  BY <1>3, <1>5
<1>7. PICK j : j = k - 1 /\ j \in S \ Good /\ j + 1 = k
  BY <1>2, <1>6
<1>8. T \ {k} = 0..j /\ k \in T
  BY <1>2, <1>6, <1>7
<1>9. T \ {k} \in Bad
  BY <1>2, <1>3, <1>7, <1>8
<1>10. QED
  BY <1>5, <1>8, <1>9

----------------------------------------------------------------------------
Picked(s) == CHOOSE x \in s : TRUE

(* One step of the recursion that adds up f. *)
Added(f, sum, s) == IF s = {} THEN 0 ELSE f[Picked(s)] + sum[s \ {Picked(s)}]

(* The rows have amounts; sum adds them up over every part of S; two        *)
(* columns agree.                                                           *)
Numbers(f, S)   == \A x \in S : f[x] \in Int
Adds(f, S, sum) == \A s \in SUBSET S : sum[s] = Added(f, sum, s)
Agree(f, g, S)  == \A x \in S : f[x] = g[x]

Solves(f, S, sum) == sum = [s \in SUBSET S |-> Added(f, sum, s)]

LEMMA SumIs ==
  ASSUME NEW f, NEW S
  PROVE  SumFunctionOnSet(f, S) = (CHOOSE sum : Solves(f, S, sum))[S]
BY DEF SumFunctionOnSet, FoldFunctionOnSet, MapThenFoldSet, Added, Picked, Solves

LEMMA PickedFrom ==
  ASSUME NEW s, s # {}
  PROVE  Picked(s) \in s
BY DEF Picked

(* The recursion has a solution: first up to sets of n elements, then for   *)
(* all.                                                                     *)
LEMMA SumExists ==
  ASSUME NEW S, IsFiniteSet(S), NEW f, Numbers(f, S)
  PROVE  \E sum : Solves(f, S, sum)
<1>1. PICK Good : Good = {n \in Nat : \E sum \in [SUBSET S -> Int] :
                            \A s \in SUBSET S : Cardinality(s) <= n => sum[s] = Added(f, sum, s)}
  OBVIOUS
<1>2. \A s \in SUBSET S : IsFiniteSet(s) /\ Cardinality(s) \in Nat
  BY FS_Subset, FS_CardinalityType
<1>3. 0 \in Good
  <2>1. PICK sum : sum = [s \in SUBSET S |-> 0]
    OBVIOUS
  <2>2. \A s \in SUBSET S : Cardinality(s) <= 0 => s = {}
    BY <1>2, FS_EmptySet
  <2>3. \A s \in SUBSET S : Cardinality(s) <= 0 => sum[s] = Added(f, sum, s)
    BY <2>1, <2>2 DEF Added
  <2>4. sum \in [SUBSET S -> Int]
    BY <2>1
  <2>5. QED
    BY <1>1, <2>3, <2>4
<1>4. ASSUME NEW n \in Good PROVE n + 1 \in Good
  <2>1. n \in Nat
    BY <1>1
  <2>2. PICK sum \in [SUBSET S -> Int] :
          \A s \in SUBSET S : Cardinality(s) <= n => sum[s] = Added(f, sum, s)
    BY <1>1
  <2>3. \A s \in SUBSET S : Added(f, sum, s) \in Int
    BY PickedFrom DEF Added, Numbers
  <2>4. PICK new : new = [s \in SUBSET S |-> Added(f, sum, s)]
    OBVIOUS
  <2>5. new \in [SUBSET S -> Int] /\ \A s \in SUBSET S : new[s] = Added(f, sum, s)
    BY <2>3, <2>4
  <2>6. \A s \in SUBSET S : Cardinality(s) <= n => new[s] = sum[s]
    BY <2>2, <2>5
  <2>7. ASSUME NEW s \in SUBSET S, Cardinality(s) <= n + 1 PROVE new[s] = Added(f, new, s)
    <3>1. CASE s = {}
      BY <2>5, <3>1 DEF Added
    <3>2. CASE s # {}
      <4>1. Picked(s) \in s
        BY <3>2, PickedFrom
      <4>2. PICK r : r = s \ {Picked(s)}
        OBVIOUS
      <4>3. Cardinality(r) = Cardinality(s) - 1 /\ r \in SUBSET S
        BY <1>2, <4>1, <4>2, FS_RemoveElement
      <4>4. Cardinality(r) <= n
        BY <1>2, <2>1, <2>7, <4>3
      <4>5. new[r] = sum[r]
        BY <2>6, <4>3, <4>4
      <4>6. QED
        BY <2>5, <4>2, <4>5 DEF Added
    <3>3. QED
      BY <3>1, <3>2
  <2>8. n + 1 \in Nat
    BY <2>1
  <2>9. QED
    BY <1>1, <2>5, <2>7, <2>8
<1>5. Cardinality(S) \in Good
  <2>1. Good \in SUBSET Nat
    BY <1>1
  <2>2. Good = Nat
    BY <1>3, <1>4, <2>1, EveryNumber
  <2>3. QED
    BY <1>2, <2>2
<1>6. PICK sum \in [SUBSET S -> Int] :
        \A s \in SUBSET S : Cardinality(s) <= Cardinality(S) => sum[s] = Added(f, sum, s)
  BY <1>1, <1>5
<1>7. \A s \in SUBSET S : sum[s] = Added(f, sum, s)
  BY <1>6, FS_Subset
<1>8. Solves(f, S, sum)
  BY <1>7 DEF Solves
<1>9. QED
  BY <1>8

(* The sums of all parts of S, as SumIs chooses them for S. *)
LEMMA SumsOf ==
  ASSUME NEW S, IsFiniteSet(S), NEW f, Numbers(f, S)
  PROVE  \E sum : SumFunctionOnSet(f, S) = sum[S] /\ Adds(f, S, sum)
<1>1. PICK sum : sum = CHOOSE some : Solves(f, S, some)
  OBVIOUS
<1>2. \E some : Solves(f, S, some)
  BY SumExists
<1>3. Solves(f, S, sum)
  BY ONLY <1>1, <1>2, Zenon
<1>4. SumFunctionOnSet(f, S) = sum[S]
  BY <1>1, SumIs
<1>5. \A s \in SUBSET S : sum[s] = Added(f, sum, s)
  BY <1>3 DEF Solves
<1>6. QED
  BY <1>4, <1>5 DEF Adds

(* Two sums of rows that agree are equal, wherever the recursion started.   *)
LEMMA SumsAgree ==
  ASSUME NEW S, IsFiniteSet(S), NEW f, NEW g, Agree(f, g, S),
         NEW sum, Adds(f, S, sum), NEW tot, Adds(g, S, tot)
  PROVE  sum[S] = tot[S]
<1>1. PICK Bad : Bad = {s \in SUBSET S : sum[s] # tot[s]}
  OBVIOUS
<1>2. SUFFICES ASSUME Bad # {} PROVE FALSE
  BY <1>1
<1>3. Bad \in SUBSET SUBSET S
  BY <1>1
<1>4. PICK T \in Bad : \A x \in T : T \ {x} \notin Bad
  BY <1>2, <1>3, SmallestSet
<1>5. T \in SUBSET S /\ sum[T] # tot[T] /\ sum[T] = Added(f, sum, T) /\ tot[T] = Added(g, tot, T)
  BY <1>1, <1>4 DEF Adds
<1>6. T # {}
  BY <1>5 DEF Added
<1>7. Picked(T) \in T
  BY <1>6, PickedFrom
<1>8. sum[T \ {Picked(T)}] = tot[T \ {Picked(T)}]
  BY <1>1, <1>4, <1>5, <1>7
<1>9. f[Picked(T)] = g[Picked(T)]
  BY <1>5, <1>7 DEF Agree
<1>10. QED
  BY <1>5, <1>6, <1>8, <1>9 DEF Added

(* The order in which the elements are taken does not matter.               *)
LEMMA AnyComesFirst ==
  ASSUME NEW S, IsFiniteSet(S), NEW f, Numbers(f, S), NEW sum, Adds(f, S, sum)
  PROVE  \A s \in SUBSET S : sum[s] \in Int /\ \A x \in s : sum[s] = f[x] + sum[s \ {x}]
<1>1. ASSUME NEW s \in SUBSET S, s # {}
      PROVE  \E c \in s : sum[s] = f[c] + sum[s \ {c}] /\ f[c] \in Int
  BY <1>1, PickedFrom DEF Adds, Added, Numbers
<1>2. sum[{}] = 0
  BY DEF Adds, Added
<1>3. \A s \in SUBSET S : sum[s] \in Int
  <2>1. PICK Bad : Bad = {s \in SUBSET S : sum[s] \notin Int}
    OBVIOUS
  <2>2. SUFFICES ASSUME Bad # {} PROVE FALSE
    BY <2>1
  <2>3. Bad \in SUBSET SUBSET S
    BY <2>1
  <2>4. PICK T \in Bad : \A x \in T : T \ {x} \notin Bad
    BY <2>2, <2>3, SmallestSet
  <2>5. T \in SUBSET S /\ sum[T] \notin Int
    BY <2>1, <2>4
  <2>6. T # {}
    BY <1>2, <2>5
  <2>7. PICK c \in T : sum[T] = f[c] + sum[T \ {c}] /\ f[c] \in Int
    BY <1>1, <2>5, <2>6
  <2>8. sum[T \ {c}] \in Int
    BY <2>1, <2>4, <2>5
  <2>9. QED
    BY <2>5, <2>7, <2>8
<1>4. \A s \in SUBSET S : \A x \in s : sum[s] = f[x] + sum[s \ {x}]
  <2>1. PICK Bad : Bad = {s \in SUBSET S : \E x \in s : sum[s] # f[x] + sum[s \ {x}]}
    OBVIOUS
  <2>2. SUFFICES ASSUME Bad # {} PROVE FALSE
    BY <2>1
  <2>3. Bad \in SUBSET SUBSET S
    BY <2>1
  <2>4. PICK T \in Bad : \A x \in T : T \ {x} \notin Bad
    BY <2>2, <2>3, SmallestSet
  <2>5. T \in SUBSET S
    BY <2>1
  <2>6. PICK x \in T : sum[T] # f[x] + sum[T \ {x}]
    BY <2>1, <2>4
  <2>7. PICK c \in T : sum[T] = f[c] + sum[T \ {c}]
    BY <1>1, <2>5, <2>6
  <2>8. x # c
    BY <2>6, <2>7
  <2>9. /\ T \ {c} \in SUBSET S /\ T \ {x} \in SUBSET S
        /\ T \ {c} \notin Bad /\ T \ {x} \notin Bad
        /\ x \in T \ {c} /\ c \in T \ {x}
    BY <2>4, <2>5, <2>8
  <2>10. sum[T \ {c}] = f[x] + sum[(T \ {c}) \ {x}]
    BY <2>1, <2>9
  <2>11. sum[T \ {x}] = f[c] + sum[(T \ {x}) \ {c}]
    BY <2>1, <2>9
  <2>12. (T \ {c}) \ {x} = (T \ {x}) \ {c}
    OBVIOUS
  <2>13. PICK r : r = sum[(T \ {c}) \ {x}] /\ r = sum[(T \ {x}) \ {c}]
    BY <2>12
  <2>14. (T \ {c}) \ {x} \in SUBSET S
    BY <2>5
  <2>15. r \in Int
    BY <1>3, <2>13, <2>14
  <2>16. f[x] \in Int /\ f[c] \in Int
    BY <2>5 DEF Numbers
  <2>17. sum[T] = f[c] + (f[x] + r) /\ sum[T \ {x}] = f[c] + r
    BY <2>7, <2>10, <2>11, <2>13
  <2>18. f[c] + (f[x] + r) = f[x] + (f[c] + r)
    BY ONLY <2>15, <2>16
  <2>19. QED
    BY <2>6, <2>17, <2>18
<1>5. QED
  BY <1>3, <1>4

----------------------------------------------------------------------------
(* What there is to know of a sum. *)

LEMMA SumEmpty == ASSUME NEW f PROVE SumFunctionOnSet(f, {}) = 0
<1>1. Numbers(f, {}) /\ IsFiniteSet({})
  BY FS_EmptySet DEF Numbers
<1>2. PICK sum : SumFunctionOnSet(f, {}) = sum[{}] /\ Adds(f, {}, sum)
  BY <1>1, SumsOf
<1>3. QED
  BY <1>2 DEF Adds, Added

LEMMA SumOfZeros ==
  ASSUME NEW S, IsFiniteSet(S), NEW f, \A x \in S : f[x] = 0
  PROVE  SumFunctionOnSet(f, S) = 0
<1>1. Numbers(f, S)
  BY DEF Numbers
<1>2. PICK sum : SumFunctionOnSet(f, S) = sum[S] /\ Adds(f, S, sum)
  BY <1>1, SumsOf
<1>3. PICK Bad : Bad = {s \in SUBSET S : sum[s] # 0}
  OBVIOUS
<1>4. SUFFICES ASSUME Bad # {} PROVE FALSE
  BY <1>2, <1>3
<1>5. PICK T \in Bad : \A x \in T : T \ {x} \notin Bad
  BY <1>3, <1>4, SmallestSet
<1>6. CASE T = {}
  BY <1>2, <1>3, <1>5, <1>6 DEF Adds, Added
<1>7. CASE T # {}
  <2>1. PICK x : x = Picked(T) /\ x \in T
    BY <1>7, PickedFrom
  <2>2. sum[T] = f[x] + sum[T \ {x}]
    BY <1>2, <1>3, <1>5, <1>7, <2>1 DEF Adds, Added
  <2>3. sum[T \ {x}] = 0 /\ f[x] = 0
    BY <1>3, <1>5, <2>1
  <2>4. QED
    BY <1>3, <1>5, <2>2, <2>3
<1>8. QED
  BY <1>6, <1>7

LEMMA SumInt ==
  ASSUME NEW S, IsFiniteSet(S), NEW f, Numbers(f, S)
  PROVE  SumFunctionOnSet(f, S) \in Int
<1>1. PICK sum : SumFunctionOnSet(f, S) = sum[S] /\ Adds(f, S, sum)
  BY SumsOf
<1>2. QED
  BY <1>1, AnyComesFirst

LEMMA SumOfSame ==
  ASSUME NEW S, IsFiniteSet(S), NEW f, NEW g, Numbers(f, S), Agree(f, g, S)
  PROVE  SumFunctionOnSet(f, S) = SumFunctionOnSet(g, S)
<1>1. PICK sum : SumFunctionOnSet(f, S) = sum[S] /\ Adds(f, S, sum)
  BY SumsOf
<1>2. Numbers(g, S)
  BY DEF Numbers, Agree
<1>3. PICK tot : SumFunctionOnSet(g, S) = tot[S] /\ Adds(g, S, tot)
  BY <1>2, SumsOf
<1>4. QED
  BY <1>1, <1>3, SumsAgree

LEMMA SumTakes ==
  ASSUME NEW S, IsFiniteSet(S), NEW f, Numbers(f, S), NEW e \in S
  PROVE  SumFunctionOnSet(f, S) = f[e] + SumFunctionOnSet(f, S \ {e})
<1>1. PICK sum : SumFunctionOnSet(f, S) = sum[S] /\ Adds(f, S, sum)
  BY SumsOf
<1>2. PICK R : R = S \ {e} /\ IsFiniteSet(R)
  BY FS_RemoveElement
<1>3. Numbers(f, R) /\ Agree(f, f, R)
  BY <1>2 DEF Numbers, Agree
<1>4. PICK tot : SumFunctionOnSet(f, R) = tot[R] /\ Adds(f, R, tot)
  BY <1>2, <1>3, SumsOf
<1>5. Adds(f, R, sum)
  BY <1>1, <1>2 DEF Adds
<1>6. sum[R] = tot[R]
  BY <1>2, <1>3, <1>4, <1>5, SumsAgree
<1>7. sum[S] = f[e] + sum[R]
  BY <1>1, <1>2, AnyComesFirst
<1>8. QED
  BY <1>1, <1>2, <1>4, <1>6, <1>7

LEMMA SumAdds ==
  ASSUME NEW S, IsFiniteSet(S), NEW f, NEW e, e \notin S, Numbers(f, S \cup {e})
  PROVE  SumFunctionOnSet(f, S \cup {e}) = SumFunctionOnSet(f, S) + f[e]
<1>1. PICK A : A = S \cup {e} /\ IsFiniteSet(A) /\ A \ {e} = S /\ e \in A
  BY FS_AddElement
<1>2. Numbers(f, A) /\ Numbers(f, S) /\ f[e] \in Int
  BY <1>1 DEF Numbers
<1>3. SumFunctionOnSet(f, A) = f[e] + SumFunctionOnSet(f, S)
  BY <1>1, <1>2, SumTakes
<1>4. SumFunctionOnSet(f, S) \in Int
  BY <1>2, SumInt
<1>5. QED
  BY <1>1, <1>2, <1>3, <1>4

(* One row changes: the sum changes by as much. *)
LEMMA SumMoves ==
  ASSUME NEW S, IsFiniteSet(S), NEW f, NEW g, NEW e \in S,
         Numbers(f, S), Numbers(g, S), Agree(f, g, S \ {e})
  PROVE  SumFunctionOnSet(g, S) = SumFunctionOnSet(f, S) + (g[e] - f[e])
<1>1. PICK R : R = S \ {e} /\ IsFiniteSet(R)
  BY FS_RemoveElement
<1>2. Numbers(f, R)
  BY <1>1 DEF Numbers
<1>3. SumFunctionOnSet(f, R) = SumFunctionOnSet(g, R) /\ SumFunctionOnSet(f, R) \in Int
  BY <1>1, <1>2, SumOfSame, SumInt
<1>4. SumFunctionOnSet(f, S) = f[e] + SumFunctionOnSet(f, R)
  BY <1>1, SumTakes
<1>5. SumFunctionOnSet(g, S) = g[e] + SumFunctionOnSet(g, R)
  BY <1>1, SumTakes
<1>6. f[e] \in Int /\ g[e] \in Int
  BY DEF Numbers
<1>7. QED
  BY <1>3, <1>4, <1>5, <1>6

----------------------------------------------------------------------------
(* The calls, by how far they are. *)
ReadCredit    == [pc: {"read", "claimed", "consumed"}, deposit: Deposits,
                  payment: Payments \cup {None}, admin: BOOLEAN, amount: Nat, credit: Int]
CountedCredit == [pc: {"counted"}, deposit: Deposits, payment: Payments \cup {None},
                  admin: BOOLEAN, amount: Nat, credit: Int, number: Nat]
ReadReversal  == [pc: {"read"}, deposit: Deposits, force: BOOLEAN, requeue: BOOLEAN,
                  credit: Int, bonus: Int]
FreshReversal == [pc: {"fresh", "claimed"}, deposit: Deposits, requeue: BOOLEAN,
                  credit: Int, bonus: Int, version: Nat, balance: Int,
                  realCap: Int, bonusCap: Int]

CreditCall   == {NoCredit} \cup ReadCredit \cup CountedCredit
ReversalCall == {NoReversal} \cup ReadReversal \cup FreshReversal

NotCredited == Live \cup {"NONE", "EXPIRED"}
DepositRow == [status: NotCredited \cup {"COMPLETED", "REJECTED"}, amount: Nat,
               matched: Payments \cup {None}, credited: Int, shortfall: Int]
PaymentRow == [status: {"NONE", "PENDING", "MATCHED", "DISMISSED"} \cup Reviewable,
               amount: Nat, consumed: BOOLEAN]
LedgerRow  == [kind: {"DEPOSIT", "BONUS_GRANT", "BONUS_CONVERT", "TRADE_STAKE"}, amount: Int,
               after: Int, ref: Deposits \cup {None}]

Typed ==
  /\ account \in AccountRecord /\ ledger \in Seq(LedgerRow) /\ rail \in Rails
  /\ deposit \in [Deposits -> DepositRow] /\ payment \in [Payments -> PaymentRow]
  /\ crediting \in [Credits -> CreditCall]
  /\ reversing \in [Reversals -> ReversalCall]

(* A deposit that was not credited is matched with nothing, and a payment   *)
(* that is matched says so.                                                 *)
MatchInv ==
  /\ PaymentCreditsOnce
  /\ \A d \in Deposits :
       /\ deposit[d].status \in NotCredited => deposit[d].matched = None
       /\ deposit[d].matched # None => payment[deposit[d].matched].status = "MATCHED"

Taken(c) == crediting[c].pc \in {"consumed", "counted"}
Counted(c) == crediting[c].pc = "counted"

(* Every row lock has one holder. *)
LockInv ==
  /\ \A b, c \in Credits :
       /\ InCredit(b) /\ InCredit(c) /\ crediting[b].deposit = crediting[c].deposit => b = c
       /\ Taken(b) /\ Taken(c) /\ crediting[b].payment = crediting[c].payment =>
            b = c \/ crediting[b].payment = None
       /\ Counted(b) /\ Counted(c) => b = c
  /\ \A v, w \in Reversals :
       InReversal(v) /\ InReversal(w) /\ reversing[v].deposit = reversing[w].deposit => v = w
  /\ \A c \in Credits, v \in Reversals :
       InCredit(c) /\ InReversal(v) => crediting[c].deposit # reversing[v].deposit

(* What a credit has found under its locks still holds. *)
CreditInv ==
  \A c \in Credits :
    /\ crediting[c] # NoCredit /\ crediting[c].payment # None =>
         payment[crediting[c].payment].status # "NONE"
    /\ InCredit(c) => deposit[crediting[c].deposit].status \in Live \cup {"EXPIRED"}
    /\ Taken(c) /\ crediting[c].payment # None => ~payment[crediting[c].payment].consumed
    /\ Counted(c) => crediting[c].number = Cardinality(Completed) + 1

(* A deposit that is being reversed is never credited again; what the call  *)
(* has read of the account holds as long as the version does.               *)
ReversalInv ==
  \A v \in Reversals : reversing[v] # NoReversal =>
    LET call == reversing[v]
    IN /\ deposit[call.deposit].status \in {"COMPLETED", "REJECTED"}
       /\ call.requeue /\ deposit[call.deposit].status = "COMPLETED" =>
            deposit[call.deposit].matched # None
       /\ call.pc = "claimed" => deposit[call.deposit].status = "COMPLETED"
       /\ call.pc \in {"fresh", "claimed"} =>
            /\ call.version <= account.version
            /\ call.version = account.version => call.balance = Balance(account)

DepositIInv ==
  /\ Typed
  /\ MatchInv
  /\ LockInv
  /\ CreditInv
  /\ ReversalInv
  /\ LastRowShowsBalance

USE DepositAssumption

----------------------------------------------------------------------------
LEMMA NoneIsNoPayment == None \notin Payments
  BY DEF None

LEMMA CreditKinds ==
  ASSUME NEW call \in CreditCall
  PROVE  /\ call.pc \in {"idle", "read", "claimed", "consumed", "counted"}
         /\ call.pc = "idle" <=> call = NoCredit
         /\ call.pc # "idle" =>
              /\ call.deposit \in Deposits /\ call.payment \in Payments \cup {None}
              /\ call.admin \in BOOLEAN /\ call.amount \in Nat /\ call.credit \in Int
         /\ call.pc \in {"read", "claimed", "consumed"} => call \in ReadCredit
         /\ call.pc = "counted" => call.number \in Nat
  BY DEF CreditCall, NoCredit, ReadCredit, CountedCredit

LEMMA ReversalKinds ==
  ASSUME NEW call \in ReversalCall
  PROVE  /\ call.pc \in {"idle", "read", "fresh", "claimed"}
         /\ call.pc = "idle" <=> call = NoReversal
         /\ call.pc # "idle" =>
              call.deposit \in Deposits /\ call.requeue \in BOOLEAN
              /\ call.credit \in Int /\ call.bonus \in Int
         /\ call.pc \in {"fresh", "claimed"} =>
              /\ call \in FreshReversal /\ call.version \in Nat /\ call.balance \in Int
              /\ call.realCap \in Int /\ call.bonusCap \in Int
  BY DEF ReversalCall, NoReversal, ReadReversal, FreshReversal

(* The number of completed deposits is a number. *)
LEMMA CountCompleted == Cardinality(Completed) \in Nat
<1>1. PICK S \in SUBSET Deposits : S = Completed
  BY DEF Completed
<1>2. IsFiniteSet(S)
  BY FS_Subset
<1>3. Cardinality(S) \in Nat
  BY <1>2, FS_CardinalityType
<1>4. QED
  BY <1>1, <1>3

(* A step of one credit, as far as its next state. *)
LEMMA CreditMoves ==
  ASSUME DepositIInv, NEW c \in Credits, NEW new \in CreditCall,
         crediting' = [crediting EXCEPT ![c] = new],
         UNCHANGED <<account, ledger, rail, deposit, payment, reversing>>,
         new # NoCredit /\ new.payment # None => payment[new.payment].status # "NONE",
         new.pc \in {"claimed", "consumed", "counted"} =>
           /\ deposit[new.deposit].status \in Live \cup {"EXPIRED"}
           /\ \A b \in Credits : b # c /\ InCredit(b) => crediting[b].deposit # new.deposit
           /\ \A v \in Reversals : InReversal(v) => reversing[v].deposit # new.deposit,
         new.pc \in {"consumed", "counted"} /\ new.payment # None =>
           /\ ~payment[new.payment].consumed
           /\ \A b \in Credits : b # c /\ Taken(b) => crediting[b].payment # new.payment,
         new.pc = "counted" =>
           /\ new.number = Cardinality(Completed) + 1
           /\ \A b \in Credits : b # c => ~Counted(b)
  PROVE  DepositIInv'
<1>1. /\ crediting'[c] = new
      /\ \A b \in Credits : b # c => crediting'[b] = crediting[b]
      /\ crediting' \in [Credits -> CreditCall]
  BY DEF DepositIInv, Typed
<1>2. Typed'
  BY <1>1 DEF DepositIInv, Typed
<1>3. MatchInv'
  BY DEF DepositIInv, MatchInv, PaymentCreditsOnce
<1>4. Completed' = Completed
  BY DEF Completed
<1>5. /\ InCredit(c)' <=> new.pc \in {"claimed", "consumed", "counted"}
      /\ Taken(c)' <=> new.pc \in {"consumed", "counted"}
      /\ Counted(c)' <=> new.pc = "counted"
      /\ \A b \in Credits : b # c => /\ InCredit(b)' <=> InCredit(b)
                                     /\ Taken(b)' <=> Taken(b)
                                     /\ Counted(b)' <=> Counted(b)
      /\ \A v \in Reversals : InReversal(v)' <=> InReversal(v)
  BY <1>1 DEF InCredit, Taken, Counted, InReversal
<1>6. LockInv'
  BY <1>1, <1>5 DEF DepositIInv, LockInv
<1>7. CreditInv'
  BY <1>1, <1>4, <1>5 DEF DepositIInv, CreditInv
<1>8. ReversalInv' /\ LastRowShowsBalance'
  BY DEF DepositIInv, ReversalInv, LastRowShowsBalance, Balance
<1>9. QED
  BY <1>2, <1>3, <1>6, <1>7, <1>8 DEF DepositIInv

(* A step of one reversal, as far as its next state. *)
LEMMA ReversalMoves ==
  ASSUME DepositIInv, NEW v \in Reversals, NEW new \in ReversalCall,
         reversing' = [reversing EXCEPT ![v] = new],
         UNCHANGED <<account, ledger, rail, deposit, payment, crediting>>,
         new # NoReversal =>
           /\ deposit[new.deposit].status \in {"COMPLETED", "REJECTED"}
           /\ new.requeue /\ deposit[new.deposit].status = "COMPLETED" =>
                deposit[new.deposit].matched # None,
         new.pc = "claimed" =>
           /\ deposit[new.deposit].status = "COMPLETED"
           /\ \A c \in Credits : InCredit(c) => crediting[c].deposit # new.deposit
           /\ \A w \in Reversals : w # v /\ InReversal(w) => reversing[w].deposit # new.deposit,
         new.pc \in {"fresh", "claimed"} =>
           /\ new.version <= account.version
           /\ new.version = account.version => new.balance = Balance(account)
  PROVE  DepositIInv'
<1>1. /\ reversing'[v] = new
      /\ \A w \in Reversals : w # v => reversing'[w] = reversing[w]
      /\ reversing' \in [Reversals -> ReversalCall]
  BY DEF DepositIInv, Typed
<1>2. Typed'
  BY <1>1 DEF DepositIInv, Typed
<1>3. MatchInv'
  BY DEF DepositIInv, MatchInv, PaymentCreditsOnce
<1>4. Completed' = Completed
  BY DEF Completed
<1>5. /\ InReversal(v)' <=> new.pc = "claimed"
      /\ \A w \in Reversals : w # v => (InReversal(w)' <=> InReversal(w))
      /\ \A c \in Credits : /\ InCredit(c)' <=> InCredit(c)
                            /\ Taken(c)' <=> Taken(c)
                            /\ Counted(c)' <=> Counted(c)
  BY <1>1 DEF InReversal, InCredit, Taken, Counted
<1>6. LockInv'
  BY <1>1, <1>5 DEF DepositIInv, LockInv
<1>7. CreditInv'
  BY <1>4, <1>5 DEF DepositIInv, CreditInv
<1>8. ReversalInv'
  <2>1. \A w \in Reversals : w # v => reversing'[w] = reversing[w]
    BY <1>1
  <2>2. Balance(account)' = Balance(account)
    BY DEF Balance
  <2>3. QED
    BY <1>1, <2>1, <2>2 DEF DepositIInv, ReversalInv
<1>9. LastRowShowsBalance'
  BY DEF DepositIInv, LastRowShowsBalance, Balance
<1>10. QED
  BY <1>2, <1>3, <1>6, <1>7, <1>8, <1>9 DEF DepositIInv

(* A deposit nobody holds is created, claimed, rejected or expired. *)
LEMMA DepositMoves ==
  ASSUME DepositIInv, NEW d \in Deposits, DepositFree(d),
         NEW new \in DepositRow, deposit' = [deposit EXCEPT ![d] = new],
         deposit[d].status \in NotCredited, new.status # "COMPLETED", new.matched = None,
         UNCHANGED <<account, ledger, rail, payment, crediting, reversing>>
  PROVE  DepositIInv'
<1>1. /\ deposit'[d] = new
      /\ \A e \in Deposits : e # d => deposit'[e] = deposit[e]
      /\ deposit' \in [Deposits -> DepositRow]
  BY DEF DepositIInv, Typed
<1>2. Typed'
  BY <1>1 DEF DepositIInv, Typed
<1>3. deposit[d].matched = None /\ \A e \in Deposits : deposit'[e].matched = deposit[e].matched
  BY <1>1 DEF DepositIInv, MatchInv
<1>4. MatchInv'
  BY <1>1, <1>3, NoneIsNoPayment DEF DepositIInv, MatchInv, PaymentCreditsOnce
<1>5. deposit[d].status # "COMPLETED" /\ deposit[d].status # "REJECTED"
  BY DEF NotCredited, Live
<1>6. Completed' = Completed
  BY <1>1, <1>5 DEF Completed
<1>7. LockInv'
  BY DEF DepositIInv, LockInv, InCredit, InReversal, Taken, Counted
<1>8. CreditInv'
  <2>1. \A c \in Credits : InCredit(c) => crediting[c].deposit \in Deposits /\ crediting[c].deposit # d
    BY CreditKinds DEF DepositFree, InCredit, DepositIInv, Typed
  <2>2. QED
    BY <1>1, <1>6, <2>1 DEF DepositIInv, CreditInv, InCredit, Taken, Counted
<1>9. ReversalInv'
  <2>1. \A v \in Reversals : reversing[v] # NoReversal =>
          reversing[v].deposit \in Deposits /\ reversing[v].deposit # d
    BY <1>5, ReversalKinds DEF DepositIInv, Typed, ReversalInv
  <2>2. Balance(account)' = Balance(account)
    BY DEF Balance
  <2>3. QED
    BY <1>1, <2>1, <2>2 DEF DepositIInv, ReversalInv
<1>10. LastRowShowsBalance'
  BY DEF DepositIInv, LastRowShowsBalance, Balance
<1>11. QED
  BY <1>2, <1>4, <1>7, <1>8, <1>9, <1>10 DEF DepositIInv

(* A payment nobody holds arrives, goes to review or is dismissed. *)
LEMMA PaymentMoves ==
  ASSUME DepositIInv, NEW p \in Payments, PaymentFree(p),
         NEW new \in PaymentRow, payment' = [payment EXCEPT ![p] = new],
         payment[p].status # "MATCHED", ~payment[p].consumed,
         new.consumed = (new.status = "DISMISSED"), new.status # "NONE",
         UNCHANGED <<account, ledger, rail, deposit, crediting, reversing>>
  PROVE  DepositIInv'
<1>1. /\ payment'[p] = new
      /\ \A q \in Payments : q # p => payment'[q] = payment[q]
      /\ payment' \in [Payments -> PaymentRow]
  BY DEF DepositIInv, Typed
<1>2. Typed'
  BY <1>1 DEF DepositIInv, Typed
<1>3. \A d \in Deposits : deposit[d].matched # p /\ deposit[d].matched \in Payments \cup {None}
  BY NoneIsNoPayment DEF DepositIInv, Typed, MatchInv, DepositRow
<1>4. MatchInv'
  BY <1>1, <1>3 DEF DepositIInv, MatchInv, PaymentCreditsOnce
<1>5. LockInv'
  BY DEF DepositIInv, LockInv, InCredit, InReversal, Taken, Counted
<1>6. Completed' = Completed
  BY DEF Completed
<1>7. CreditInv'
  <2>1. \A c \in Credits : Taken(c) =>
          crediting[c].payment # p /\ crediting[c].payment \in Payments \cup {None}
    BY CreditKinds DEF PaymentFree, Taken, DepositIInv, Typed
  <2>2. QED
    BY <1>1, <1>6, <2>1 DEF DepositIInv, CreditInv, InCredit, Taken, Counted
<1>8. ReversalInv' /\ LastRowShowsBalance'
  BY DEF DepositIInv, ReversalInv, LastRowShowsBalance, Balance
<1>9. QED
  BY <1>2, <1>4, <1>5, <1>7, <1>8 DEF DepositIInv

----------------------------------------------------------------------------
LEMMA CreateDepositStep ==
  ASSUME DepositIInv, NEW d \in Deposits, NEW amount \in Amounts, CreateDeposit(d, amount)
  PROVE  DepositIInv'
<1>1. PICK new : new = [status |-> "AWAITING_PAYMENT", amount |-> amount, matched |-> None,
                        credited |-> 0, shortfall |-> 0]
  OBVIOUS
<1>2. /\ new \in DepositRow /\ new.status = "AWAITING_PAYMENT" /\ new.matched = None
      /\ NoDeposit.status = "NONE"
  <2>1. amount \in Nat /\ "AWAITING_PAYMENT" \in NotCredited
    BY DEF NotCredited, Live
  <2>2. new \in DepositRow
    BY <1>1, <2>1 DEF DepositRow
  <2>3. QED
    BY <1>1, <2>2 DEF NoDeposit
<1>3. /\ deposit[d] = NoDeposit /\ deposit \in [Deposits -> DepositRow]
      /\ deposit' = [deposit EXCEPT ![d] = new]
      /\ UNCHANGED <<account, ledger, rail, payment, crediting, reversing>>
  BY <1>1 DEF CreateDeposit, NoDeposit, DepositIInv, Typed, accountVars
<1>4. DepositFree(d)
  BY <1>2, <1>3 DEF DepositIInv, CreditInv, ReversalInv, DepositFree, Live, InReversal, NoReversal
<1>5. deposit[d].status \in NotCredited
  BY <1>2, <1>3 DEF NotCredited
<1>6. QED
  BY <1>2, <1>3, <1>4, <1>5, DepositMoves

LEMMA SetDepositStatusStep ==
  ASSUME DepositIInv, NEW d \in Deposits, NEW from \in SUBSET Live,
         NEW to \in {"PENDING_CONFIRMATION", "REJECTED", "EXPIRED"},
         SetDepositStatus(d, from, to)
  PROVE  DepositIInv'
<1>1. /\ deposit[d].status \in Live /\ DepositFree(d) /\ deposit \in [Deposits -> DepositRow]
      /\ deposit' = [deposit EXCEPT ![d].status = to]
      /\ UNCHANGED <<account, ledger, rail, payment, crediting, reversing>>
  BY DEF SetDepositStatus, DepositIInv, Typed, accountVars
<1>2. PICK x \in DepositRow : x = deposit[d]
  BY <1>1
<1>3. x.matched = None /\ x.status \in NotCredited
  BY <1>1, <1>2 DEF DepositIInv, MatchInv, NotCredited
<1>4. PICK new : new = [x EXCEPT !.status = to]
  OBVIOUS
<1>5. new \in DepositRow /\ new.status = to /\ new.matched = None /\ to # "COMPLETED"
  BY <1>3, <1>4 DEF DepositRow, NotCredited, Live
<1>6. deposit' = [deposit EXCEPT ![d] = new]
  BY <1>1, <1>2, <1>4
<1>7. QED
  BY <1>1, <1>2, <1>3, <1>5, <1>6, DepositMoves

LEMMA ArriveStep ==
  ASSUME DepositIInv, NEW p \in Payments, NEW amount \in Amounts, Arrive(p, amount)
  PROVE  DepositIInv'
<1>1. PICK new : new = [NoPayment EXCEPT !.status = "PENDING", !.amount = amount]
  OBVIOUS
<1>2. /\ new \in PaymentRow /\ new.status = "PENDING" /\ new.consumed = FALSE
      /\ NoPayment.status = "NONE" /\ ~NoPayment.consumed
  BY <1>1 DEF NoPayment, PaymentRow
<1>3. /\ payment[p] = NoPayment /\ payment \in [Payments -> PaymentRow]
      /\ payment' = [payment EXCEPT ![p] = new]
      /\ UNCHANGED <<account, ledger, rail, deposit, crediting, reversing>>
  BY <1>1 DEF Arrive, DepositIInv, Typed, accountVars
<1>4. PaymentFree(p)
  BY <1>2, <1>3, NoneIsNoPayment DEF DepositIInv, CreditInv, PaymentFree, NoCredit
<1>5. QED
  BY <1>2, <1>3, <1>4, PaymentMoves

LEMMA SendToReviewStep ==
  ASSUME DepositIInv, NEW p \in Payments, NEW s \in Reviewable, SendToReview(p, s)
  PROVE  DepositIInv'
<1>1. /\ PaymentFree(p) /\ payment[p].status = "PENDING" /\ payment \in [Payments -> PaymentRow]
      /\ payment' = [payment EXCEPT ![p].status = s]
      /\ UNCHANGED <<account, ledger, rail, deposit, crediting, reversing>>
  BY DEF SendToReview, DepositIInv, Typed, accountVars
<1>2. PICK x \in PaymentRow : x = payment[p]
  BY <1>1
<1>3. ~x.consumed
  <2>1. \A d \in Deposits : deposit[d].matched # p
    BY <1>1, NoneIsNoPayment DEF DepositIInv, MatchInv
  <2>2. QED
    BY <1>1, <1>2, <2>1 DEF DepositIInv, MatchInv, PaymentCreditsOnce
<1>4. PICK new : new = [x EXCEPT !.status = s]
  OBVIOUS
<1>5. /\ new \in PaymentRow /\ new.consumed = FALSE /\ new.status = s
      /\ s # "DISMISSED" /\ s # "NONE"
  BY <1>3, <1>4 DEF PaymentRow, Reviewable
<1>6. payment' = [payment EXCEPT ![p] = new]
  BY <1>1, <1>2, <1>4
<1>7. QED
  BY <1>1, <1>2, <1>3, <1>5, <1>6, PaymentMoves

LEMMA DismissStep ==
  ASSUME DepositIInv, NEW p \in Payments, DismissChainCredit(p)
  PROVE  DepositIInv'
<1>1. /\ PaymentFree(p) /\ payment[p].status \in Reviewable /\ ~payment[p].consumed
      /\ payment \in [Payments -> PaymentRow]
      /\ payment' = [payment EXCEPT ![p].status = "DISMISSED", ![p].consumed = TRUE]
      /\ UNCHANGED <<account, ledger, rail, deposit, crediting, reversing>>
  BY DEF DismissChainCredit, DepositIInv, Typed, accountVars
<1>2. PICK x \in PaymentRow : x = payment[p]
  BY <1>1
<1>3. PICK new : new = [x EXCEPT !.status = "DISMISSED", !.consumed = TRUE]
  OBVIOUS
<1>4. new \in PaymentRow /\ new.consumed = TRUE /\ new.status = "DISMISSED"
  BY <1>2, <1>3 DEF PaymentRow
<1>5. payment' = [payment EXCEPT ![p] = new]
  BY <1>1, <1>2, <1>3
<1>6. payment[p].status # "MATCHED"
  BY <1>1 DEF Reviewable
<1>7. QED
  BY <1>1, <1>4, <1>5, <1>6, PaymentMoves

----------------------------------------------------------------------------
LEMMA CreditMinorType ==
  ASSUME NEW amount \in Nat, NEW currency
  PROVE  CreditMinor(amount, currency) \in Int
<1>1. Rate \in Nat /\ amount * Rate \in Int
  OBVIOUS
<1>2. QED
  BY <1>1 DEF CreditMinor

LEMMA BeginCreditStep ==
  ASSUME DepositIInv, NEW c \in Credits, NEW d \in Deposits, NEW p \in Payments \cup {None},
         NEW admin \in BOOLEAN, BeginCredit(c, d, p, admin)
  PROVE  DepositIInv'
<1>1. PICK a \in Nat : a = Received(d, p)
  <2>1. deposit[d].amount \in Nat
    BY DEF DepositIInv, Typed, DepositRow
  <2>2. p # None => payment[p].amount \in Nat
    BY DEF DepositIInv, Typed, PaymentRow
  <2>3. QED
    BY <2>1, <2>2 DEF Received
<1>2. PICK x \in Int : x = CreditMinor(a, account.currency)
  BY CreditMinorType
<1>3. PICK new : new = [pc |-> "read", deposit |-> d, payment |-> p, admin |-> admin,
                        amount |-> a, credit |-> x]
  OBVIOUS
<1>4. new \in CreditCall /\ new.pc = "read" /\ new.payment = p
  BY <1>3 DEF CreditCall, ReadCredit
<1>5. /\ crediting' = [crediting EXCEPT ![c] = new]
      /\ UNCHANGED <<account, ledger, rail, deposit, payment, reversing>>
      /\ Pairs(d, p, admin)
  BY <1>1, <1>2, <1>3 DEF BeginCredit, accountVars
<1>6. p # None => payment[p].status # "NONE"
  BY <1>5 DEF Pairs, Reviewable
<1>7. QED
  BY <1>4, <1>5, <1>6, CreditMoves

LEMMA ClaimDepositStep ==
  ASSUME DepositIInv, NEW c \in Credits, ClaimDeposit(c)
  PROVE  DepositIInv'
<1>1. PICK call \in CreditCall : call = crediting[c]
  BY DEF DepositIInv, Typed
<1>2. /\ call.pc = "read" /\ DepositFree(call.deposit)
      /\ crediting' = [crediting EXCEPT ![c] =
           IF deposit[call.deposit].status \in Creditable(call.admin) /\ ~MatchTaken(call.payment)
           THEN [call EXCEPT !.pc = "claimed"] ELSE NoCredit]
      /\ UNCHANGED <<account, ledger, rail, deposit, payment, reversing>>
  BY <1>1 DEF ClaimDeposit, accountVars
<1>3. call \in ReadCredit /\ call # NoCredit
  BY <1>2, CreditKinds DEF NoCredit
<1>4. call.payment # None => payment[call.payment].status # "NONE"
  BY <1>1, <1>3 DEF DepositIInv, CreditInv
<1>5. CASE deposit[call.deposit].status \in Creditable(call.admin) /\ ~MatchTaken(call.payment)
  <2>1. PICK new : new = [call EXCEPT !.pc = "claimed"]
    OBVIOUS
  <2>2. /\ new \in CreditCall /\ new.pc = "claimed"
        /\ new.deposit = call.deposit /\ new.payment = call.payment
    BY <1>3, <2>1 DEF CreditCall, ReadCredit
  <2>3. crediting' = [crediting EXCEPT ![c] = new]
    BY <1>2, <1>5, <2>1
  <2>4. /\ deposit[new.deposit].status \in Live \cup {"EXPIRED"}
        /\ \A b \in Credits : b # c /\ InCredit(b) => crediting[b].deposit # new.deposit
        /\ \A v \in Reversals : InReversal(v) => reversing[v].deposit # new.deposit
    BY <1>2, <1>5, <2>2 DEF Creditable, DepositFree
  <2>5. /\ new.payment # None => payment[new.payment].status # "NONE"
        /\ new.pc \notin {"consumed", "counted"}
    BY <1>4, <2>2
  <2>6. QED
    BY <1>2, <2>2, <2>3, <2>4, <2>5, CreditMoves
<1>6. CASE ~(deposit[call.deposit].status \in Creditable(call.admin) /\ ~MatchTaken(call.payment))
  <2>1. crediting' = [crediting EXCEPT ![c] = NoCredit]
    BY <1>2, <1>6
  <2>2. NoCredit \in CreditCall /\ NoCredit.pc = "idle"
    BY DEF CreditCall, NoCredit
  <2>3. QED
    BY <1>2, <2>1, <2>2, CreditMoves
<1>7. QED
  BY <1>5, <1>6

LEMMA ConsumePaymentStep ==
  ASSUME DepositIInv, NEW c \in Credits, ConsumePayment(c)
  PROVE  DepositIInv'
<1>1. PICK call \in CreditCall : call = crediting[c]
  BY DEF DepositIInv, Typed
<1>2. /\ call.pc = "claimed"
      /\ call.payment # None => PaymentFree(call.payment)
      /\ crediting' = [crediting EXCEPT ![c] =
           IF call.payment = None \/ Consumable(call.payment, call.admin)
           THEN [call EXCEPT !.pc = "consumed"] ELSE NoCredit]
      /\ UNCHANGED <<account, ledger, rail, deposit, payment, reversing>>
  BY <1>1 DEF ConsumePayment, accountVars
<1>3. call \in ReadCredit /\ call # NoCredit /\ InCredit(c)
  BY <1>1, <1>2, CreditKinds DEF NoCredit, InCredit
<1>4. /\ call.payment # None => payment[call.payment].status # "NONE"
      /\ deposit[call.deposit].status \in Live \cup {"EXPIRED"}
      /\ \A b \in Credits : b # c /\ InCredit(b) => crediting[b].deposit # call.deposit
      /\ \A v \in Reversals : InReversal(v) => reversing[v].deposit # call.deposit
  BY <1>1, <1>3 DEF DepositIInv, CreditInv, LockInv
<1>5. CASE call.payment = None \/ Consumable(call.payment, call.admin)
  <2>1. PICK new : new = [call EXCEPT !.pc = "consumed"]
    OBVIOUS
  <2>2. /\ new \in CreditCall /\ new.pc = "consumed"
        /\ new.deposit = call.deposit /\ new.payment = call.payment
    BY <1>3, <2>1 DEF CreditCall, ReadCredit
  <2>3. crediting' = [crediting EXCEPT ![c] = new]
    BY <1>2, <1>5, <2>1
  <2>4. call.payment # None =>
          /\ ~payment[call.payment].consumed
          /\ \A b \in Credits : b # c /\ Taken(b) => crediting[b].payment # call.payment
    BY <1>2, <1>5 DEF Consumable, PaymentFree, Taken
  <2>5. /\ new.payment # None => payment[new.payment].status # "NONE"
        /\ deposit[new.deposit].status \in Live \cup {"EXPIRED"}
        /\ \A b \in Credits : b # c /\ InCredit(b) => crediting[b].deposit # new.deposit
        /\ \A v \in Reversals : InReversal(v) => reversing[v].deposit # new.deposit
    BY <1>4, <2>2
  <2>6. /\ new.payment # None =>
             /\ ~payment[new.payment].consumed
             /\ \A b \in Credits : b # c /\ Taken(b) => crediting[b].payment # new.payment
        /\ new.pc # "counted"
    BY <2>2, <2>4
  <2>7. QED
    BY <1>2, <2>2, <2>3, <2>5, <2>6, CreditMoves
<1>6. CASE ~(call.payment = None \/ Consumable(call.payment, call.admin))
  <2>1. crediting' = [crediting EXCEPT ![c] = NoCredit]
    BY <1>2, <1>6
  <2>2. NoCredit \in CreditCall /\ NoCredit.pc = "idle"
    BY DEF CreditCall, NoCredit
  <2>3. QED
    BY <1>2, <2>1, <2>2, CreditMoves
<1>7. QED
  BY <1>5, <1>6

LEMMA LockAndCountStep ==
  ASSUME DepositIInv, NEW c \in Credits, LockAndCount(c)
  PROVE  DepositIInv'
<1>1. PICK call \in CreditCall : call = crediting[c]
  BY DEF DepositIInv, Typed
<1>2. PICK n \in Nat : n = Cardinality(Completed) + 1
  BY CountCompleted
<1>3. PICK new : new = [pc |-> "counted", deposit |-> call.deposit, payment |-> call.payment,
                        admin |-> call.admin, amount |-> call.amount, credit |-> call.credit,
                        number |-> n]
  OBVIOUS
<1>4. /\ call.pc = "consumed" /\ AccountFree
      /\ crediting' = [crediting EXCEPT ![c] = new]
      /\ UNCHANGED <<account, ledger, rail, deposit, payment, reversing>>
  BY <1>1, <1>2, <1>3 DEF LockAndCount, accountVars
<1>5. call \in ReadCredit /\ call # NoCredit /\ InCredit(c) /\ Taken(c)
  BY <1>1, <1>4, CreditKinds DEF NoCredit, InCredit, Taken
<1>6. /\ new \in CreditCall /\ new.pc = "counted" /\ new.number = n
      /\ new.deposit = call.deposit /\ new.payment = call.payment
  BY <1>3, <1>5 DEF CreditCall, ReadCredit, CountedCredit
<1>7. /\ call.payment # None => payment[call.payment].status # "NONE"
      /\ deposit[call.deposit].status \in Live \cup {"EXPIRED"}
      /\ \A b \in Credits : b # c /\ InCredit(b) => crediting[b].deposit # call.deposit
      /\ \A v \in Reversals : InReversal(v) => reversing[v].deposit # call.deposit
  BY <1>1, <1>5 DEF DepositIInv, CreditInv, LockInv
<1>8. call.payment # None =>
        /\ ~payment[call.payment].consumed
        /\ \A b \in Credits : b # c /\ Taken(b) => crediting[b].payment # call.payment
  BY <1>1, <1>5 DEF DepositIInv, CreditInv, LockInv
<1>9. \A b \in Credits : ~Counted(b)
  BY <1>4 DEF AccountFree, Counted
<1>10. QED
  BY <1>2, <1>4, <1>6, <1>7, <1>8, <1>9, CreditMoves

LEMMA AbortCreditStep ==
  ASSUME DepositIInv, NEW c \in Credits, AbortCredit(c)
  PROVE  DepositIInv'
<1>1. /\ crediting' = [crediting EXCEPT ![c] = NoCredit]
      /\ UNCHANGED <<account, ledger, rail, deposit, payment, reversing>>
  BY DEF AbortCredit, accountVars
<1>2. NoCredit \in CreditCall /\ NoCredit.pc = "idle"
  BY DEF CreditCall, NoCredit
<1>3. QED
  BY <1>1, <1>2, CreditMoves

----------------------------------------------------------------------------
(* The bonus read back from the ledger is an amount. *)
LEMMA GrantedBonusType ==
  ASSUME ledger \in Seq(LedgerRow), NEW d, NEW x
  PROVE  GrantedBonus(d, x) \in Int
<1>1. CASE \E i \in DOMAIN ledger : ledger[i].kind = "BONUS_GRANT" /\ ledger[i].ref = d
  <2>1. PICK R : R = {ledger[i] : i \in DOMAIN ledger}
    OBVIOUS
  <2>2. \A r \in R : r.amount \in Int
    <3>1. \A i \in DOMAIN ledger : ledger[i] \in LedgerRow
      BY ElementOfSeq
    <3>2. QED
      BY <2>1, <3>1 DEF LedgerRow
  <2>3. \E r \in R : r.kind = "BONUS_GRANT" /\ r.ref = d
    BY <1>1, <2>1
  <2>4. PICK y : y = CHOOSE r \in R : r.kind = "BONUS_GRANT" /\ r.ref = d
    OBVIOUS
  <2>5. y \in R
    BY <2>3, <2>4
  <2>6. GrantedBonus(d, x) = y.amount
    BY <1>1, <2>1, <2>4 DEF GrantedBonus
  <2>7. QED
    BY <2>2, <2>5, <2>6
<1>2. CASE ~\E i \in DOMAIN ledger : ledger[i].kind = "BONUS_GRANT" /\ ledger[i].ref = d
  BY <1>2 DEF GrantedBonus
<1>3. QED
  BY <1>1, <1>2

LEMMA BeginReversalStep ==
  ASSUME DepositIInv, NEW v \in Reversals, NEW d \in Deposits, NEW force \in BOOLEAN,
         NEW requeue \in BOOLEAN, BeginReversal(v, d, force, requeue)
  PROVE  DepositIInv'
<1>1. PICK x \in Int : x = CreditMinor(deposit[d].amount, account.currency)
  <2>1. deposit[d].amount \in Nat
    BY DEF DepositIInv, Typed, DepositRow
  <2>2. PICK a \in Nat : a = deposit[d].amount
    BY <2>1
  <2>3. QED
    BY <2>2, CreditMinorType
<1>2. PICK y \in Int : y = GrantedBonus(d, x)
  BY GrantedBonusType DEF DepositIInv, Typed
<1>3. PICK new : new = [pc |-> "read", deposit |-> d, force |-> force, requeue |-> requeue,
                        credit |-> x, bonus |-> y]
  OBVIOUS
<1>4. /\ reversing' = [reversing EXCEPT ![v] = new]
      /\ UNCHANGED <<account, ledger, rail, deposit, payment, crediting>>
      /\ deposit[d].status = "COMPLETED"
      /\ requeue => deposit[d].matched # None
  BY <1>1, <1>2, <1>3 DEF BeginReversal, accountVars
<1>5. new \in ReversalCall /\ new.pc = "read" /\ new.deposit = d /\ new.requeue = requeue
  BY <1>3 DEF ReversalCall, ReadReversal
<1>6. QED
  BY <1>4, <1>5, ReversalMoves

LEMMA ReadFreshStep ==
  ASSUME DepositIInv, NEW v \in Reversals, ReadFresh(v)
  PROVE  DepositIInv'
<1>1. PICK call \in ReversalCall : call = reversing[v]
  BY DEF DepositIInv, Typed
<1>2. PICK a \in AccountRecord : a = account
  BY DEF DepositIInv, Typed
<1>3. PICK b \in Int : b = Balance(account)
  BY <1>2 DEF Balance, AccountRecord
<1>4. call.pc = "read"
  BY <1>1 DEF ReadFresh
<1>5. /\ call.deposit \in Deposits /\ call.requeue \in BOOLEAN
      /\ call.credit \in Int /\ call.bonus \in Int /\ call # NoReversal
  BY <1>4, ReversalKinds DEF NoReversal
<1>6. PICK rc, bc \in Int : rc = Lower(call.credit, a.real) /\ bc = Lower(call.bonus, a.bonus)
  BY <1>2, <1>5 DEF Lower, AccountRecord
<1>7. PICK new : new = [pc |-> "fresh", deposit |-> call.deposit, requeue |-> call.requeue,
                        credit |-> call.credit, bonus |-> call.bonus, version |-> a.version,
                        balance |-> b, realCap |-> rc, bonusCap |-> bc]
  OBVIOUS
<1>8. /\ reversing' = [reversing EXCEPT ![v] =
           IF Short(call, account) /\ ~call.force THEN NoReversal ELSE new]
      /\ UNCHANGED <<account, ledger, rail, deposit, payment, crediting>>
  BY <1>1, <1>2, <1>3, <1>6, <1>7 DEF ReadFresh, accountVars
<1>9. /\ new \in ReversalCall /\ new.pc = "fresh" /\ new.deposit = call.deposit
      /\ new.requeue = call.requeue /\ new.version = account.version
      /\ new.balance = Balance(account) /\ account.version \in Nat
  <2>1. a.version \in Nat
    BY <1>2 DEF AccountRecord
  <2>2. new \in FreshReversal
    BY <1>5, <1>7, <2>1 DEF FreshReversal
  <2>3. QED
    BY <1>2, <1>3, <1>7, <2>1, <2>2 DEF ReversalCall
<1>10. /\ deposit[call.deposit].status \in {"COMPLETED", "REJECTED"}
       /\ call.requeue /\ deposit[call.deposit].status = "COMPLETED" =>
            deposit[call.deposit].matched # None
  BY <1>1, <1>5 DEF DepositIInv, ReversalInv
<1>11. CASE Short(call, account) /\ ~call.force
  <2>1. NoReversal \in ReversalCall /\ NoReversal.pc = "idle"
    BY DEF ReversalCall, NoReversal
  <2>2. QED
    BY <1>8, <1>11, <2>1, ReversalMoves
<1>12. CASE ~(Short(call, account) /\ ~call.force)
  <2>1. /\ deposit[new.deposit].status \in {"COMPLETED", "REJECTED"}
        /\ new.requeue /\ deposit[new.deposit].status = "COMPLETED" =>
             deposit[new.deposit].matched # None
        /\ new.pc # "claimed" /\ new.version <= account.version
    BY <1>9, <1>10
  <2>2. reversing' = [reversing EXCEPT ![v] = new]
    BY <1>8, <1>12
  <2>3. QED
    BY <1>8, <1>9, <2>1, <2>2, ReversalMoves
<1>13. QED
  BY <1>11, <1>12

LEMMA ClaimReversalStep ==
  ASSUME DepositIInv, NEW v \in Reversals, ClaimReversal(v)
  PROVE  DepositIInv'
<1>1. PICK call \in ReversalCall : call = reversing[v]
  BY DEF DepositIInv, Typed
<1>2. /\ call.pc = "fresh" /\ DepositFree(call.deposit)
      /\ reversing' = [reversing EXCEPT ![v] =
           IF Reversible(call.deposit) THEN [call EXCEPT !.pc = "claimed"] ELSE NoReversal]
      /\ UNCHANGED <<account, ledger, rail, deposit, payment, crediting>>
  BY <1>1 DEF ClaimReversal, accountVars
<1>3. call \in FreshReversal /\ call # NoReversal
  BY <1>2, ReversalKinds DEF NoReversal
<1>4. /\ call.requeue /\ deposit[call.deposit].status = "COMPLETED" =>
           deposit[call.deposit].matched # None
      /\ call.version <= account.version
      /\ call.version = account.version => call.balance = Balance(account)
  BY <1>1, <1>2, <1>3 DEF DepositIInv, ReversalInv
<1>5. CASE Reversible(call.deposit)
  <2>1. PICK new : new = [call EXCEPT !.pc = "claimed"]
    OBVIOUS
  <2>2. /\ new \in ReversalCall /\ new.pc = "claimed" /\ new.deposit = call.deposit
        /\ new.requeue = call.requeue /\ new.version = call.version /\ new.balance = call.balance
    BY <1>3, <2>1 DEF ReversalCall, FreshReversal
  <2>3. reversing' = [reversing EXCEPT ![v] = new]
    BY <1>2, <1>5, <2>1
  <2>4. deposit[new.deposit].status = "COMPLETED"
    BY <1>5, <2>2 DEF Reversible
  <2>5. /\ \A c \in Credits : InCredit(c) => crediting[c].deposit # new.deposit
        /\ \A w \in Reversals : w # v /\ InReversal(w) => reversing[w].deposit # new.deposit
    BY <1>2, <2>2 DEF DepositFree
  <2>6. /\ new.requeue /\ deposit[new.deposit].status = "COMPLETED" =>
             deposit[new.deposit].matched # None
        /\ new.version <= account.version
        /\ new.version = account.version => new.balance = Balance(account)
    BY <1>4, <2>2
  <2>7. QED
    BY <1>2, <2>2, <2>3, <2>4, <2>5, <2>6, ReversalMoves
<1>6. CASE ~Reversible(call.deposit)
  <2>1. NoReversal \in ReversalCall /\ NoReversal.pc = "idle"
    BY DEF ReversalCall, NoReversal
  <2>2. reversing' = [reversing EXCEPT ![v] = NoReversal]
    BY <1>2, <1>6
  <2>3. QED
    BY <1>2, <2>1, <2>2, ReversalMoves
<1>7. QED
  BY <1>5, <1>6

LEMMA AbortReversalStep ==
  ASSUME DepositIInv, NEW v \in Reversals, AbortReversal(v)
  PROVE  DepositIInv'
<1>1. /\ reversing' = [reversing EXCEPT ![v] = NoReversal]
      /\ UNCHANGED <<account, ledger, rail, deposit, payment, crediting>>
  BY DEF AbortReversal, accountVars
<1>2. NoReversal \in ReversalCall /\ NoReversal.pc = "idle"
  BY DEF ReversalCall, NoReversal
<1>3. QED
  BY <1>1, <1>2, ReversalMoves

----------------------------------------------------------------------------
(* Money moves. *)

LEMMA BonusType ==
  ASSUME NEW x \in Int, NEW n \in Nat
  PROVE  Bonus(x, n) \in Int
<1>1. PICK q \in 0..100 : q = BonusPercent(n)
  <2>1. \A i \in 1..Len(BonusTiers) : BonusTiers[i] \in 0..100
    BY ElementOfSeq
  <2>2. QED
    BY <2>1 DEF BonusPercent
<1>2. x * q \in Int
  OBVIOUS
<1>3. QED
  BY <1>1, <1>2 DEF Bonus

LEMMA MovedAccount ==
  ASSUME NEW a \in AccountRecord, NEW dReal \in Int, NEW dBonus \in Int
  PROVE  /\ Moved(a, dReal, dBonus) \in AccountRecord
         /\ Moved(a, dReal, dBonus).bonus = a.bonus + dBonus
         /\ Moved(a, dReal, dBonus).version = a.version + 1
         /\ Balance(Moved(a, dReal, dBonus)) = Balance(a) + dReal + dBonus
  BY DEF Moved, AccountRecord, Balance

(* One or two rows of the same balance join the ledger. *)
ShowsAtTheEnd(m, after) == m \in Seq(LedgerRow) /\ m # <<>> /\ m[Len(m)].after = after

LEMMA RowJoins ==
  ASSUME NEW l \in Seq(LedgerRow), NEW r \in LedgerRow
  PROVE  ShowsAtTheEnd(l \o <<r>>, r.after)
<1>1. PICK k : k = l \o <<r>>
  OBVIOUS
<1>2. k \in Seq(LedgerRow) /\ Len(k) = Len(l) + 1 /\ k[Len(l) + 1] = r /\ Len(l) \in Nat
  BY <1>1
<1>3. k # <<>>
  BY <1>2, EmptySeq
<1>4. QED
  BY <1>1, <1>2, <1>3 DEF ShowsAtTheEnd

LEMMA RowsJoin ==
  ASSUME NEW l \in Seq(LedgerRow), NEW r \in LedgerRow, NEW s \in LedgerRow, r.after = s.after
  PROVE  /\ ShowsAtTheEnd(l \o <<r>> \o <<s>>, r.after)
         /\ ShowsAtTheEnd(l \o <<r>> \o <<>>, r.after)
<1>1. PICK k : k = l \o <<r>>
  OBVIOUS
<1>2. k \in Seq(LedgerRow) /\ ShowsAtTheEnd(k, r.after)
  BY <1>1, RowJoins DEF ShowsAtTheEnd
<1>3. ShowsAtTheEnd(k \o <<s>>, r.after)
  BY <1>2, RowJoins
<1>4. k \o <<>> = k
  BY <1>2, ConcatEmptySeq
<1>5. QED
  BY <1>1, <1>2, <1>3, <1>4

(* What a credit that commits does, and what it found: payment p for        *)
(* deposit d, the n-th, of value x and with bonus b.                        *)
Credited(c, d, p, x, n, b) ==
  /\ InCredit(c) /\ Taken(c) /\ Counted(c)
  /\ crediting[c].deposit = d /\ crediting[c].payment = p
  /\ deposit[d].status \in Live \cup {"EXPIRED"}
  /\ n = Cardinality(Completed) + 1 /\ b = Bonus(x, n)
  /\ deposit' \in [Deposits -> DepositRow] /\ payment' \in [Payments -> PaymentRow]
  /\ deposit'[d].status = "COMPLETED" /\ deposit'[d].matched = p
  /\ deposit'[d].credited = x
  /\ \A e \in Deposits : e # d => deposit'[e] = deposit[e]
  /\ \A q \in Payments :
       IF q = p THEN payment'[q].consumed = TRUE /\ payment'[q].status = "MATCHED"
       ELSE payment'[q] = payment[q]
  /\ account' \in AccountRecord /\ account'.bonus = account.bonus + b
  /\ account'.version = account.version + 1
  /\ ledger' \in Seq(LedgerRow) /\ LastRowShowsBalance'
  /\ crediting' = [crediting EXCEPT ![c] = NoCredit]
  /\ UNCHANGED <<rail, reversing>>

LEMMA CommitCreditFacts ==
  ASSUME DepositIInv, NEW c \in Credits, CommitCredit(c)
  PROVE  \E d \in Deposits, p \in Payments \cup {None}, x \in Int, n \in Nat, b \in Int :
           Credited(c, d, p, x, n, b)
<1>1. PICK call \in CreditCall : call = crediting[c]
  BY DEF DepositIInv, Typed
<1>2. call.pc = "counted" /\ InCredit(c) /\ Taken(c) /\ Counted(c)
  BY <1>1 DEF CommitCredit, InCredit, Taken, Counted
<1>3. /\ call.amount \in Nat
      /\ call.deposit \in Deposits /\ call.payment \in Payments \cup {None}
      /\ call.credit \in Int /\ call.number \in Nat
  BY <1>2, CreditKinds
<1>4. PICK d \in Deposits, p \in Payments \cup {None}, x \in Int, n \in Nat :
        d = call.deposit /\ p = call.payment /\ x = call.credit /\ n = call.number
  BY <1>3
<1>5. deposit[d].status \in Live \cup {"EXPIRED"} /\ n = Cardinality(Completed) + 1
  BY <1>1, <1>2, <1>4 DEF DepositIInv, CreditInv
<1>6. PICK b \in Int : b = Bonus(x, n)
  BY BonusType
<1>7. PICK a \in AccountRecord : a = account
  BY DEF DepositIInv, Typed
<1>8. PICK after \in Int : after = Balance(a) + x + b
  BY <1>7 DEF Balance, AccountRecord
<1>9. PICK row \in DepositRow : row = deposit[d]
  BY DEF DepositIInv, Typed
<1>10. PICK new : new = [row EXCEPT !.status = "COMPLETED", !.matched = p,
                                    !.amount = call.amount, !.credited = x]
  OBVIOUS
<1>11. new \in DepositRow /\ new.status = "COMPLETED" /\ new.matched = p /\ new.credited = x
  BY <1>3, <1>9, <1>10 DEF DepositRow
<1>12. deposit' = [deposit EXCEPT ![d] = new]
  BY <1>1, <1>4, <1>9, <1>10 DEF CommitCredit
<1>13. /\ deposit' \in [Deposits -> DepositRow] /\ deposit'[d] = new
       /\ \A e \in Deposits : e # d => deposit'[e] = deposit[e]
  BY <1>11, <1>12 DEF DepositIInv, Typed
<1>14. payment' = [q \in Payments |->
         IF q = p THEN [payment[q] EXCEPT !.consumed = TRUE, !.status = "MATCHED"] ELSE payment[q]]
  BY <1>1, <1>4 DEF CommitCredit
<1>15. \A q \in Payments :
         /\ payment'[q] \in PaymentRow
         /\ IF q = p THEN payment'[q].consumed = TRUE /\ payment'[q].status = "MATCHED"
            ELSE payment'[q] = payment[q]
  <2>1. SUFFICES ASSUME NEW q \in Payments
                 PROVE  /\ payment'[q] \in PaymentRow
                        /\ IF q = p THEN payment'[q].consumed = TRUE /\ payment'[q].status = "MATCHED"
                           ELSE payment'[q] = payment[q]
    OBVIOUS
  <2>2. PICK y \in PaymentRow : y = payment[q]
    BY DEF DepositIInv, Typed
  <2>3. PICK z : z = [y EXCEPT !.consumed = TRUE, !.status = "MATCHED"]
    OBVIOUS
  <2>4. z \in PaymentRow /\ z.consumed = TRUE /\ z.status = "MATCHED"
    BY <2>2, <2>3 DEF PaymentRow
  <2>5. QED
    BY <1>14, <2>2, <2>3, <2>4
<1>16. payment' \in [Payments -> PaymentRow]
  BY <1>14, <1>15
<1>17. account' = Moved(a, x, b)
  BY <1>1, <1>4, <1>6, <1>7 DEF CommitCredit
<1>18. /\ account' \in AccountRecord /\ account'.bonus = account.bonus + b
       /\ account'.version = account.version + 1
       /\ Balance(account)' = after
  BY <1>7, <1>8, <1>17, MovedAccount DEF Balance
<1>19. ledger' \in Seq(LedgerRow) /\ LastRowShowsBalance'
  <2>1. PICK l \in Seq(LedgerRow) : l = ledger
    BY DEF DepositIInv, Typed
  <2>2. PICK r : r = Row("DEPOSIT", x, after, d)
    OBVIOUS
  <2>3. PICK s : s = Row("BONUS_GRANT", b, after, d)
    OBVIOUS
  <2>4. r \in LedgerRow /\ s \in LedgerRow /\ r.after = after /\ s.after = after
    BY <2>2, <2>3 DEF Row, LedgerRow
  <2>5. ledger' = l \o <<r>> \o (IF b > 0 THEN <<s>> ELSE <<>>)
    BY <1>1, <1>4, <1>6, <1>7, <1>8, <2>1, <2>2, <2>3 DEF CommitCredit
  <2>6. r.after = s.after
    BY <2>4
  <2>7. /\ ShowsAtTheEnd(l \o <<r>> \o <<s>>, r.after)
        /\ ShowsAtTheEnd(l \o <<r>> \o <<>>, r.after)
    BY ONLY <2>4, <2>6, RowsJoin
  <2>8. ShowsAtTheEnd(ledger', after)
    <3>1. CASE b > 0
      BY <2>4, <2>5, <2>7, <3>1
    <3>2. CASE ~(b > 0)
      BY <2>4, <2>5, <2>7, <3>2
    <3>3. QED
      BY <3>1, <3>2
  <2>9. QED
    BY <1>18, <2>8 DEF LastRowShowsBalance, ShowsAtTheEnd
<1>20. crediting' = [crediting EXCEPT ![c] = NoCredit] /\ UNCHANGED <<rail, reversing>>
  BY DEF CommitCredit
<1>21. /\ InCredit(c) /\ Taken(c) /\ Counted(c)
       /\ crediting[c].deposit = d /\ crediting[c].payment = p
       /\ deposit[d].status \in Live \cup {"EXPIRED"}
       /\ n = Cardinality(Completed) + 1 /\ b = Bonus(x, n)
       /\ deposit' \in [Deposits -> DepositRow] /\ payment' \in [Payments -> PaymentRow]
       /\ deposit'[d].status = "COMPLETED" /\ deposit'[d].matched = p
       /\ deposit'[d].credited = x
  BY <1>1, <1>2, <1>4, <1>5, <1>6, <1>11, <1>13, <1>16
<1>22. Credited(c, d, p, x, n, b)
  BY <1>13, <1>15, <1>18, <1>19, <1>20, <1>21 DEF Credited
<1>23. QED
  BY <1>22

LEMMA CommitCreditStep ==
  ASSUME DepositIInv, NEW c \in Credits, CommitCredit(c)
  PROVE  DepositIInv'
<1>0. PICK d \in Deposits, p \in Payments \cup {None}, x \in Int, n \in Nat, b \in Int :
        Credited(c, d, p, x, n, b)
  BY CommitCreditFacts
<1>1. /\ InCredit(c) /\ Taken(c) /\ Counted(c)
      /\ crediting[c].deposit = d /\ crediting[c].payment = p
      /\ deposit[d].status \in Live \cup {"EXPIRED"}
      /\ deposit' \in [Deposits -> DepositRow] /\ payment' \in [Payments -> PaymentRow]
      /\ deposit'[d].status = "COMPLETED" /\ deposit'[d].matched = p
      /\ \A e \in Deposits : e # d => deposit'[e] = deposit[e]
      /\ \A q \in Payments :
           IF q = p THEN payment'[q].consumed = TRUE /\ payment'[q].status = "MATCHED"
           ELSE payment'[q] = payment[q]
      /\ account' \in AccountRecord /\ account'.version = account.version + 1
      /\ ledger' \in Seq(LedgerRow) /\ LastRowShowsBalance'
      /\ crediting' = [crediting EXCEPT ![c] = NoCredit]
      /\ UNCHANGED <<rail, reversing>>
  BY <1>0 DEF Credited
<1>2. /\ crediting'[c] = NoCredit /\ NoCredit.pc = "idle"
      /\ \A o \in Credits : o # c => crediting'[o] = crediting[o]
      /\ crediting' \in [Credits -> CreditCall]
  BY <1>1 DEF DepositIInv, Typed, NoCredit, CreditCall
<1>3. Typed'
  BY <1>1, <1>2 DEF DepositIInv, Typed
<1>4. /\ deposit[d].matched = None /\ d \in Deposits
      /\ deposit[d].status # "COMPLETED" /\ deposit[d].status # "REJECTED"
  BY <1>1 DEF DepositIInv, MatchInv, NotCredited, Live
<1>5. \A e \in Deposits : p # None => deposit[e].matched # p
  <2>1. p # None => p \in Payments /\ ~payment[p].consumed
    BY <1>1 DEF DepositIInv, CreditInv
  <2>2. QED
    BY <2>1 DEF DepositIInv, MatchInv, PaymentCreditsOnce
<1>6. MatchInv'
  <2>1. \A q \in Payments :
          payment'[q].consumed =
            (payment'[q].status = "DISMISSED" \/ \E e \in Deposits : deposit'[e].matched = q)
    <3>1. SUFFICES ASSUME NEW q \in Payments
                   PROVE  payment'[q].consumed =
                            (payment'[q].status = "DISMISSED" \/ \E e \in Deposits : deposit'[e].matched = q)
      OBVIOUS
    <3>2. CASE q = p
      BY <1>1, <3>2
    <3>3. CASE q # p
      <4>1. payment'[q] = payment[q]
        BY <1>1, <3>3
      <4>2. (\E e \in Deposits : deposit'[e].matched = q) <=> (\E e \in Deposits : deposit[e].matched = q)
        BY <1>1, <1>4, <3>3, NoneIsNoPayment
      <4>3. QED
        BY <4>1, <4>2 DEF DepositIInv, MatchInv, PaymentCreditsOnce
    <3>4. QED
      BY <3>2, <3>3
  <2>2. \A e, f \in Deposits : deposit'[e].matched = deposit'[f].matched /\ e # f =>
          deposit'[e].matched = None
    BY <1>1, <1>5 DEF DepositIInv, MatchInv, PaymentCreditsOnce
  <2>3. ASSUME NEW e \in Deposits
        PROVE  /\ deposit'[e].status \in NotCredited => deposit'[e].matched = None
               /\ deposit'[e].matched # None => payment'[deposit'[e].matched].status = "MATCHED"
    <3>1. CASE e = d
      BY <1>1, <3>1 DEF NotCredited, Live
    <3>2. CASE e # d
      <4>1. deposit'[e] = deposit[e] /\ deposit[e].matched \in Payments \cup {None}
        BY <1>1, <3>2 DEF DepositIInv, Typed, DepositRow
      <4>2. QED
        BY <1>1, <1>5, <4>1 DEF DepositIInv, MatchInv
    <3>3. QED
      BY <3>1, <3>2
  <2>4. QED
    BY <2>1, <2>2, <2>3 DEF MatchInv, PaymentCreditsOnce
<1>7. /\ ~InCredit(c)' /\ ~Taken(c)' /\ ~Counted(c)'
      /\ \A o \in Credits : o # c => /\ InCredit(o)' <=> InCredit(o)
                                     /\ Taken(o)' <=> Taken(o)
                                     /\ Counted(o)' <=> Counted(o)
      /\ \A v \in Reversals : InReversal(v)' <=> InReversal(v)
  BY <1>1, <1>2 DEF InCredit, Taken, Counted, InReversal
<1>8. LockInv'
  BY <1>1, <1>2, <1>7 DEF DepositIInv, LockInv
<1>9. CreditInv'
  <2>1. ASSUME NEW o \in Credits, o # c
        PROVE  /\ crediting[o] # NoCredit /\ crediting[o].payment # None =>
                    payment'[crediting[o].payment].status # "NONE"
               /\ InCredit(o) => deposit'[crediting[o].deposit].status \in Live \cup {"EXPIRED"}
               /\ Taken(o) /\ crediting[o].payment # None => ~payment'[crediting[o].payment].consumed
               /\ ~Counted(o)
    <3>1. crediting[o] \in CreditCall
      BY DEF DepositIInv, Typed
    <3>2. crediting[o] # NoCredit =>
            crediting[o].payment \in Payments \cup {None} /\ crediting[o].deposit \in Deposits
      BY <3>1, CreditKinds
    <3>3. /\ InCredit(o) => crediting[o] # NoCredit /\ crediting[o].deposit # d
          /\ Taken(o) => crediting[o] # NoCredit /\ (crediting[o].payment # p \/ crediting[o].payment = None)
          /\ ~Counted(o)
      BY <1>1, <1>2, <2>1 DEF DepositIInv, LockInv, InCredit, Taken
    <3>4. crediting[o] # NoCredit /\ crediting[o].payment # None =>
            payment'[crediting[o].payment].status # "NONE"
      BY <1>1, <3>2 DEF DepositIInv, CreditInv
    <3>5. InCredit(o) => deposit'[crediting[o].deposit].status \in Live \cup {"EXPIRED"}
      BY <1>1, <3>2, <3>3 DEF DepositIInv, CreditInv
    <3>6. Taken(o) /\ crediting[o].payment # None => ~payment'[crediting[o].payment].consumed
      BY <1>1, <3>2, <3>3 DEF DepositIInv, CreditInv
    <3>7. QED
      BY <3>3, <3>4, <3>5, <3>6
  <2>2. QED
    BY <1>2, <1>7, <2>1 DEF CreditInv
<1>10. ReversalInv'
  <2>1. ASSUME NEW v \in Reversals, reversing[v] # NoReversal
        PROVE  LET call == reversing[v]
               IN /\ call.deposit \in Deposits /\ call.deposit # d
                  /\ call.pc \in {"fresh", "claimed"} =>
                       call.version \in Nat /\ call.version <= account.version
    BY <1>4, <2>1, ReversalKinds DEF DepositIInv, Typed, ReversalInv
  <2>2. account.version \in Nat
    BY DEF DepositIInv, Typed, AccountRecord
  <2>3. QED
    BY <1>1, <2>1, <2>2 DEF DepositIInv, ReversalInv
<1>11. QED
  BY <1>1, <1>3, <1>6, <1>8, <1>9, <1>10 DEF DepositIInv

(* What a reversal that commits does, and what it found: deposit d, and the *)
(* payment m that it gives back, if any.                                    *)
TakenBack(v, d, m) ==
  /\ InReversal(v) /\ reversing[v].deposit = d /\ deposit[d].status = "COMPLETED"
  /\ \A c \in Credits : ~Counted(c)
  /\ m # None => /\ m = deposit[d].matched
                 /\ \A c \in Credits : Taken(c) => crediting[c].payment # m
  /\ deposit' \in [Deposits -> DepositRow] /\ payment' \in [Payments -> PaymentRow]
  /\ deposit'[d].status = "REJECTED"
  /\ deposit'[d].matched = IF m # None THEN None ELSE deposit[d].matched
  /\ \A e \in Deposits : e # d => deposit'[e] = deposit[e]
  /\ \A q \in Payments :
       IF q = m THEN payment'[q].consumed = FALSE /\ payment'[q].status = "MANUAL_REVIEW"
       ELSE payment'[q] = payment[q]
  /\ account' \in AccountRecord /\ account'.version = account.version + 1
  /\ ledger' \in Seq(LedgerRow) /\ LastRowShowsBalance'
  /\ reversing' = [reversing EXCEPT ![v] = NoReversal]
  /\ UNCHANGED <<rail, crediting>>

LEMMA CommitReversalFacts ==
  ASSUME DepositIInv, NEW v \in Reversals, CommitReversal(v)
  PROVE  \E d \in Deposits, m \in Payments \cup {None} : TakenBack(v, d, m)
<1>1. PICK call \in ReversalCall : call = reversing[v]
  BY DEF DepositIInv, Typed
<1>2. call.pc = "claimed" /\ InReversal(v)
  BY <1>1 DEF CommitReversal, InReversal
<1>3. /\ call.deposit \in Deposits /\ call.requeue \in BOOLEAN
      /\ call.credit \in Int /\ call.bonus \in Int /\ call.balance \in Int
      /\ call.realCap \in Int /\ call.bonusCap \in Int /\ call # NoReversal
  BY <1>2, ReversalKinds
<1>4. PICK d \in Deposits, x \in Int, b \in Int, short \in Int :
        /\ d = call.deposit /\ x = -call.realCap /\ b = -call.bonusCap
        /\ short = (call.credit - call.realCap) + (call.bonus - call.bonusCap)
  <2>1. /\ call.deposit \in Deposits /\ -call.realCap \in Int /\ -call.bonusCap \in Int
        /\ (call.credit - call.realCap) + (call.bonus - call.bonusCap) \in Int
    BY <1>3
  <2>2. QED
    BY ONLY <2>1, Zenon
<1>5. PICK a \in AccountRecord : a = account
  BY DEF DepositIInv, Typed
<1>6. PICK after \in Int : after = call.balance - call.realCap - call.bonusCap
  BY <1>3
<1>7. /\ deposit[d].status = "COMPLETED"
      /\ call.requeue => deposit[d].matched # None
      /\ after = Balance(a) + x + b
  <2>1. call.version = account.version
    BY <1>1 DEF CommitReversal, SameVersion
  <2>2. /\ deposit[d].status = "COMPLETED"
        /\ call.requeue => deposit[d].matched # None
        /\ call.balance = Balance(a)
    BY <1>1, <1>2, <1>3, <1>4, <1>5, <2>1 DEF DepositIInv, ReversalInv
  <2>3. QED
    BY <1>3, <1>4, <1>6, <2>2
<1>8. PICK row \in DepositRow : row = deposit[d]
  BY DEF DepositIInv, Typed
<1>9. PICK m \in Payments \cup {None} : m = IF call.requeue THEN row.matched ELSE None
  BY <1>8 DEF DepositRow
<1>10. \A c \in Credits : ~Counted(c)
  BY DEF CommitReversal, AccountFree, Counted
<1>11. m # None => /\ call.requeue /\ m = deposit[d].matched
                   /\ \A c \in Credits : Taken(c) => crediting[c].payment # m
  BY <1>1, <1>4, <1>8, <1>9 DEF CommitReversal, PaymentFree, Taken
<1>12. PICK back : back = [row EXCEPT !.status = "REJECTED", !.matched = None]
  OBVIOUS
<1>13. PICK kept : kept = [row EXCEPT !.status = "REJECTED"]
  OBVIOUS
<1>14. PICK new : new = [(IF call.requeue THEN back ELSE kept) EXCEPT !.shortfall = short]
  OBVIOUS
<1>15. /\ back \in DepositRow /\ back.status = "REJECTED" /\ back.matched = None
       /\ kept \in DepositRow /\ kept.status = "REJECTED" /\ kept.matched = row.matched
  BY <1>8, <1>12, <1>13 DEF DepositRow
<1>16. /\ new \in DepositRow /\ new.status = "REJECTED"
       /\ new.matched = IF call.requeue THEN None ELSE row.matched
  <2>1. CASE call.requeue
    <3>1. new = [back EXCEPT !.shortfall = short]
      BY <1>14, <2>1
    <3>2. QED
      BY <1>4, <1>15, <2>1, <3>1 DEF DepositRow
  <2>2. CASE ~call.requeue
    <3>1. new = [kept EXCEPT !.shortfall = short]
      BY <1>14, <2>2
    <3>2. QED
      BY <1>4, <1>15, <2>2, <3>1 DEF DepositRow
  <2>3. QED
    BY <2>1, <2>2
<1>17. deposit' = [deposit EXCEPT ![d] = new]
  BY <1>1, <1>4, <1>8, <1>12, <1>13, <1>14 DEF CommitReversal, ReclaimedReal, Requeued
<1>18. /\ deposit' \in [Deposits -> DepositRow] /\ deposit'[d] = new
       /\ \A e \in Deposits : e # d => deposit'[e] = deposit[e]
  BY <1>16, <1>17 DEF DepositIInv, Typed
<1>19. deposit'[d].matched = IF m # None THEN None ELSE deposit[d].matched
  BY <1>7, <1>8, <1>9, <1>16, <1>18
<1>20. payment' = [q \in Payments |->
         IF call.requeue /\ q = row.matched
         THEN [payment[q] EXCEPT !.consumed = FALSE, !.status = "MANUAL_REVIEW"] ELSE payment[q]]
  BY <1>1, <1>4, <1>8 DEF CommitReversal
<1>21. \A q \in Payments :
         /\ payment'[q] \in PaymentRow
         /\ IF q = m THEN payment'[q].consumed = FALSE /\ payment'[q].status = "MANUAL_REVIEW"
            ELSE payment'[q] = payment[q]
  <2>1. SUFFICES ASSUME NEW q \in Payments
                 PROVE  /\ payment'[q] \in PaymentRow
                        /\ IF q = m
                           THEN payment'[q].consumed = FALSE /\ payment'[q].status = "MANUAL_REVIEW"
                           ELSE payment'[q] = payment[q]
    OBVIOUS
  <2>2. PICK y \in PaymentRow : y = payment[q]
    BY DEF DepositIInv, Typed
  <2>3. PICK z : z = [y EXCEPT !.consumed = FALSE, !.status = "MANUAL_REVIEW"]
    OBVIOUS
  <2>4. z \in PaymentRow /\ z.consumed = FALSE /\ z.status = "MANUAL_REVIEW"
    BY <2>2, <2>3 DEF PaymentRow, Reviewable
  <2>5. (call.requeue /\ q = row.matched) <=> q = m
    BY <1>9, NoneIsNoPayment
  <2>6. QED
    BY <1>20, <2>2, <2>3, <2>4, <2>5
<1>22. payment' \in [Payments -> PaymentRow]
  BY <1>20, <1>21
<1>23. account' = Moved(a, x, b)
  BY <1>1, <1>4, <1>5 DEF CommitReversal, ReclaimedReal
<1>24. /\ account' \in AccountRecord /\ account'.version = account.version + 1
       /\ Balance(account)' = after
  BY <1>5, <1>7, <1>23, MovedAccount DEF Balance
<1>25. ledger' \in Seq(LedgerRow) /\ LastRowShowsBalance'
  <2>1. PICK l \in Seq(LedgerRow) : l = ledger
    BY DEF DepositIInv, Typed
  <2>2. PICK r : r = Row("DEPOSIT", x, after, d)
    OBVIOUS
  <2>3. PICK s : s = Row("BONUS_CONVERT", b, after, d)
    OBVIOUS
  <2>4. r \in LedgerRow /\ s \in LedgerRow /\ r.after = after /\ s.after = after
    BY <2>2, <2>3 DEF Row, LedgerRow
  <2>5. ledger' = l \o <<r>> \o (IF call.bonusCap > 0 THEN <<s>> ELSE <<>>)
    BY <1>1, <1>4, <1>6, <2>1, <2>2, <2>3 DEF CommitReversal, ReclaimedReal
  <2>6. r.after = s.after
    BY <2>4
  <2>7. /\ ShowsAtTheEnd(l \o <<r>> \o <<s>>, r.after)
        /\ ShowsAtTheEnd(l \o <<r>> \o <<>>, r.after)
    BY ONLY <2>4, <2>6, RowsJoin
  <2>8. ShowsAtTheEnd(ledger', after)
    <3>1. CASE call.bonusCap > 0
      BY <2>4, <2>5, <2>7, <3>1
    <3>2. CASE ~(call.bonusCap > 0)
      BY <2>4, <2>5, <2>7, <3>2
    <3>3. QED
      BY <3>1, <3>2
  <2>9. QED
    BY <1>24, <2>8 DEF LastRowShowsBalance, ShowsAtTheEnd
<1>26. reversing' = [reversing EXCEPT ![v] = NoReversal] /\ UNCHANGED <<rail, crediting>>
  BY DEF CommitReversal
<1>27. /\ InReversal(v) /\ reversing[v].deposit = d /\ deposit[d].status = "COMPLETED"
       /\ m # None => /\ m = deposit[d].matched
                      /\ \A c \in Credits : Taken(c) => crediting[c].payment # m
       /\ deposit'[d].status = "REJECTED"
  BY <1>1, <1>2, <1>4, <1>7, <1>11, <1>16, <1>18
<1>28. TakenBack(v, d, m)
  BY <1>10, <1>18, <1>19, <1>21, <1>22, <1>24, <1>25, <1>26, <1>27 DEF TakenBack
<1>29. QED
  BY <1>28

LEMMA CommitReversalStep ==
  ASSUME DepositIInv, NEW v \in Reversals, CommitReversal(v)
  PROVE  DepositIInv'
<1>0. PICK d \in Deposits, m \in Payments \cup {None} : TakenBack(v, d, m)
  BY CommitReversalFacts
<1>1. /\ InReversal(v) /\ reversing[v].deposit = d /\ deposit[d].status = "COMPLETED"
      /\ \A c \in Credits : ~Counted(c)
      /\ m # None => /\ m = deposit[d].matched
                     /\ \A c \in Credits : Taken(c) => crediting[c].payment # m
      /\ deposit' \in [Deposits -> DepositRow] /\ payment' \in [Payments -> PaymentRow]
      /\ deposit'[d].status = "REJECTED"
      /\ deposit'[d].matched = IF m # None THEN None ELSE deposit[d].matched
      /\ \A e \in Deposits : e # d => deposit'[e] = deposit[e]
      /\ \A q \in Payments :
           IF q = m THEN payment'[q].consumed = FALSE /\ payment'[q].status = "MANUAL_REVIEW"
           ELSE payment'[q] = payment[q]
      /\ account' \in AccountRecord /\ account'.version = account.version + 1
      /\ ledger' \in Seq(LedgerRow) /\ LastRowShowsBalance'
      /\ reversing' = [reversing EXCEPT ![v] = NoReversal]
      /\ UNCHANGED <<rail, crediting>>
  BY <1>0 DEF TakenBack
<1>2. /\ reversing'[v] = NoReversal /\ NoReversal.pc = "idle"
      /\ \A w \in Reversals : w # v => reversing'[w] = reversing[w]
      /\ reversing' \in [Reversals -> ReversalCall]
  BY <1>1 DEF DepositIInv, Typed, NoReversal, ReversalCall
<1>3. Typed'
  BY <1>1, <1>2 DEF DepositIInv, Typed
<1>4. \A e \in Deposits : m # None /\ e # d => deposit[e].matched # m
  BY <1>1 DEF DepositIInv, MatchInv, PaymentCreditsOnce
<1>5. MatchInv'
  <2>1. \A q \in Payments :
          payment'[q].consumed =
            (payment'[q].status = "DISMISSED" \/ \E e \in Deposits : deposit'[e].matched = q)
    <3>1. SUFFICES ASSUME NEW q \in Payments
                   PROVE  payment'[q].consumed =
                            (payment'[q].status = "DISMISSED" \/ \E e \in Deposits : deposit'[e].matched = q)
      OBVIOUS
    <3>2. CASE q = m
      <4>1. payment'[q].consumed = FALSE /\ payment'[q].status = "MANUAL_REVIEW"
        BY <1>1, <3>2
      <4>2. \A e \in Deposits : deposit'[e].matched # q
        BY <1>1, <1>4, <3>2, NoneIsNoPayment
      <4>3. QED
        BY <4>1, <4>2
    <3>3. CASE q # m
      <4>1. payment'[q] = payment[q]
        BY <1>1, <3>3
      <4>2. (\E e \in Deposits : deposit'[e].matched = q) <=> (\E e \in Deposits : deposit[e].matched = q)
        BY <1>1, <3>3, NoneIsNoPayment
      <4>3. QED
        BY <4>1, <4>2 DEF DepositIInv, MatchInv, PaymentCreditsOnce
    <3>4. QED
      BY <3>2, <3>3
  <2>2. \A e, f \in Deposits : deposit'[e].matched = deposit'[f].matched /\ e # f =>
          deposit'[e].matched = None
    BY <1>1 DEF DepositIInv, MatchInv, PaymentCreditsOnce
  <2>3. ASSUME NEW e \in Deposits
        PROVE  /\ deposit'[e].status \in NotCredited => deposit'[e].matched = None
               /\ deposit'[e].matched # None => payment'[deposit'[e].matched].status = "MATCHED"
    <3>0. deposit[e].matched \in Payments \cup {None}
      BY DEF DepositIInv, Typed, DepositRow
    <3>1. CASE e = d
      <4>1. deposit'[e].status \notin NotCredited
        BY <1>1, <3>1 DEF NotCredited, Live
      <4>2. deposit'[e].matched # None =>
              m = None /\ deposit'[e].matched = deposit[e].matched
        BY <1>1, <3>1
      <4>3. QED
        BY <1>1, <3>0, <4>1, <4>2 DEF DepositIInv, MatchInv
    <3>2. CASE e # d
      <4>1. deposit'[e] = deposit[e]
        BY <1>1, <3>2
      <4>2. deposit[e].matched # None => payment'[deposit[e].matched] = payment[deposit[e].matched]
        BY <1>1, <1>4, <3>0, <3>2
      <4>3. QED
        BY <4>1, <4>2 DEF DepositIInv, MatchInv
    <3>3. QED
      BY <3>1, <3>2
  <2>4. QED
    BY <2>1, <2>2, <2>3 DEF MatchInv, PaymentCreditsOnce
<1>6. /\ ~InReversal(v)'
      /\ \A w \in Reversals : w # v => (InReversal(w)' <=> InReversal(w))
      /\ \A c \in Credits : /\ InCredit(c)' <=> InCredit(c)
                            /\ Taken(c)' <=> Taken(c)
                            /\ Counted(c)' <=> Counted(c)
  BY <1>1, <1>2 DEF InReversal, InCredit, Taken, Counted
<1>7. LockInv'
  BY <1>1, <1>2, <1>6 DEF DepositIInv, LockInv
<1>8. CreditInv'
  <2>1. ASSUME NEW o \in Credits
        PROVE  /\ crediting[o] # NoCredit /\ crediting[o].payment # None =>
                    payment'[crediting[o].payment].status # "NONE"
               /\ InCredit(o) => deposit'[crediting[o].deposit].status \in Live \cup {"EXPIRED"}
               /\ Taken(o) /\ crediting[o].payment # None => ~payment'[crediting[o].payment].consumed
    <3>1. crediting[o] \in CreditCall
      BY DEF DepositIInv, Typed
    <3>2. crediting[o] # NoCredit =>
            crediting[o].payment \in Payments \cup {None} /\ crediting[o].deposit \in Deposits
      BY <3>1, CreditKinds
    <3>3. /\ InCredit(o) => crediting[o] # NoCredit /\ crediting[o].deposit # d
          /\ Taken(o) => crediting[o] # NoCredit
      BY <1>1 DEF DepositIInv, LockInv, InCredit, Taken, NoCredit
    <3>4. crediting[o] # NoCredit /\ crediting[o].payment # None =>
            payment'[crediting[o].payment].status # "NONE"
      BY <1>1, <3>2 DEF DepositIInv, CreditInv
    <3>5. InCredit(o) => deposit'[crediting[o].deposit].status \in Live \cup {"EXPIRED"}
      BY <1>1, <3>2, <3>3 DEF DepositIInv, CreditInv
    <3>6. Taken(o) /\ crediting[o].payment # None => ~payment'[crediting[o].payment].consumed
      BY <1>1, <3>2, <3>3 DEF DepositIInv, CreditInv
    <3>7. QED
      BY <3>4, <3>5, <3>6
  <2>2. QED
    BY <1>1, <1>6, <2>1 DEF CreditInv
<1>9. ReversalInv'
  <2>1. account.version \in Nat
    BY DEF DepositIInv, Typed, AccountRecord
  <2>2. ASSUME NEW w \in Reversals, w # v, reversing[w] # NoReversal
        PROVE  LET call == reversing[w]
               IN /\ deposit'[call.deposit].status \in {"COMPLETED", "REJECTED"}
                  /\ call.requeue /\ deposit'[call.deposit].status = "COMPLETED" =>
                       deposit'[call.deposit].matched # None
                  /\ call.pc = "claimed" => deposit'[call.deposit].status = "COMPLETED"
                  /\ call.pc \in {"fresh", "claimed"} => call.version < account.version + 1
    <3>1. reversing[w] \in ReversalCall
      BY DEF DepositIInv, Typed
    <3>2. /\ reversing[w].deposit \in Deposits
          /\ reversing[w].pc \in {"fresh", "claimed"} => reversing[w].version \in Nat
      BY <2>2, <3>1, ReversalKinds
    <3>3. reversing[w].pc = "claimed" => reversing[w].deposit # d
      BY <1>1, <2>2 DEF DepositIInv, LockInv, InReversal
    <3>4. reversing[w].pc \in {"fresh", "claimed"} => reversing[w].version < account.version + 1
      BY <2>1, <2>2, <3>2 DEF DepositIInv, ReversalInv
    <3>5. CASE reversing[w].deposit = d
      BY <1>1, <3>3, <3>4, <3>5
    <3>6. CASE reversing[w].deposit # d
      BY <1>1, <2>2, <3>2, <3>4, <3>6 DEF DepositIInv, ReversalInv
    <3>7. QED
      BY <3>5, <3>6
  <2>3. \A w \in Reversals : reversing'[w] # NoReversal =>
          w # v /\ reversing'[w] = reversing[w] /\ (reversing[w].pc \in {"fresh", "claimed"} =>
                                                      reversing[w].version \in Nat)
    <3>1. \A w \in Reversals : reversing[w] \in ReversalCall
      BY DEF DepositIInv, Typed
    <3>2. QED
      BY <1>2, <3>1, ReversalKinds
  <2>4. QED
    BY <1>1, <2>1, <2>2, <2>3 DEF ReversalInv
<1>10. QED
  BY <1>1, <1>3, <1>5, <1>7, <1>8, <1>9 DEF DepositIInv

LEMMA SpendStep ==
  ASSUME DepositIInv, NEW real \in 0..account.real, NEW bonus \in 0..account.bonus,
         Spend(real, bonus)
  PROVE  DepositIInv'
<1>1. PICK a \in AccountRecord : a = account
  BY DEF DepositIInv, Typed
<1>2. real \in Int /\ bonus \in Int /\ a.version \in Nat /\ Balance(a) \in Int
  BY <1>1 DEF AccountRecord, Balance
<1>3. PICK x \in Int : x = -real
  BY <1>2
<1>4. PICK b \in Int : b = -bonus
  BY <1>2
<1>5. PICK after \in Int : after = Balance(a) - real - bonus
  BY <1>2
<1>6. PICK r : r = Row("TRADE_STAKE", -(real + bonus), after, None)
  OBVIOUS
<1>7. r \in LedgerRow /\ r.after = after
  <2>1. -(real + bonus) \in Int
    BY <1>2
  <2>2. QED
    BY <1>6, <2>1 DEF Row, LedgerRow
<1>8. /\ account' = Moved(a, x, b) /\ ledger' = Append(ledger, r) /\ \A c \in Credits : ~Counted(c)
      /\ UNCHANGED <<rail, deposit, payment, crediting, reversing>>
  BY <1>1, <1>3, <1>4, <1>5, <1>6 DEF Spend, AccountFree, Counted, depositVars
<1>9. /\ account' \in AccountRecord /\ account'.version = account.version + 1
      /\ Balance(account)' = after
  <2>1. /\ Moved(a, x, b) \in AccountRecord /\ Moved(a, x, b).version = a.version + 1
        /\ Balance(Moved(a, x, b)) = Balance(a) + x + b
    BY MovedAccount
  <2>2. Balance(account)' = Balance(Moved(a, x, b))
    BY <1>8 DEF Balance
  <2>3. QED
    BY <1>1, <1>2, <1>3, <1>4, <1>5, <1>8, <2>1, <2>2
<1>10. ledger' \in Seq(LedgerRow) /\ LastRowShowsBalance'
  <2>1. PICK l \in Seq(LedgerRow) : l = ledger
    BY DEF DepositIInv, Typed
  <2>2. PICK k : k = ledger'
    OBVIOUS
  <2>3. k = Append(l, r)
    BY <1>8, <2>1, <2>2
  <2>4. k \in Seq(LedgerRow) /\ Len(k) = Len(l) + 1 /\ k[Len(l) + 1] = r
    BY <1>7, <2>1, <2>3
  <2>5. QED
    BY <1>7, <1>9, <2>2, <2>4 DEF LastRowShowsBalance
<1>11. Typed'
  BY <1>8, <1>9, <1>10 DEF DepositIInv, Typed
<1>12. MatchInv' /\ LockInv'
  BY <1>8 DEF DepositIInv, MatchInv, PaymentCreditsOnce, LockInv, InCredit, InReversal, Taken, Counted
<1>13. CreditInv'
  BY <1>8 DEF DepositIInv, CreditInv, InCredit, Taken, Counted
<1>14. ReversalInv'
  <2>1. ASSUME NEW v \in Reversals, reversing[v].pc \in {"fresh", "claimed"}
        PROVE  reversing[v].version \in Nat
    BY <2>1, ReversalKinds DEF DepositIInv, Typed
  <2>2. QED
    BY <1>1, <1>2, <1>8, <1>9, <2>1 DEF DepositIInv, ReversalInv
<1>15. QED
  BY <1>10, <1>11, <1>12, <1>13, <1>14 DEF DepositIInv

----------------------------------------------------------------------------
LEMMA DepositInitial == Init => DepositIInv
<1>1. SUFFICES ASSUME Init PROVE DepositIInv
  OBVIOUS
<1>2. /\ account = [real |-> InitialReal, bonus |-> InitialBonus,
                    version |-> 0, currency |-> InitialCurrency]
      /\ ledger = <<>> /\ rail \in Rails
      /\ deposit = [d \in Deposits |-> NoDeposit] /\ payment = [p \in Payments |-> NoPayment]
      /\ crediting = [c \in Credits |-> NoCredit] /\ reversing = [v \in Reversals |-> NoReversal]
  BY <1>1 DEF Init, AccountInit, DepositInit
<1>3. account \in AccountRecord /\ ledger \in Seq(LedgerRow)
  BY <1>2, OpeningAssumption, CurrencyAssumption DEF AccountRecord
<1>4. NoDeposit \in DepositRow /\ NoDeposit.matched = None
  BY DEF NoDeposit, DepositRow, NotCredited
<1>5. NoPayment \in PaymentRow /\ NoPayment.consumed = FALSE /\ NoPayment.status = "NONE"
  BY DEF NoPayment, PaymentRow
<1>6. /\ NoCredit \in CreditCall /\ NoCredit.pc = "idle"
      /\ NoReversal \in ReversalCall /\ NoReversal.pc = "idle"
  BY DEF CreditCall, NoCredit, ReversalCall, NoReversal
<1>7. Typed
  BY <1>2, <1>3, <1>4, <1>5, <1>6 DEF Typed
<1>8. MatchInv
  BY <1>2, <1>4, <1>5, NoneIsNoPayment DEF MatchInv, PaymentCreditsOnce
<1>9. LockInv /\ CreditInv /\ ReversalInv
  BY <1>2, <1>6 DEF LockInv, CreditInv, ReversalInv, InCredit, Taken, Counted, InReversal
<1>10. LastRowShowsBalance
  BY <1>2 DEF LastRowShowsBalance
<1>11. QED
  BY <1>7, <1>8, <1>9, <1>10 DEF DepositIInv

LEMMA DepositStep == DepositIInv /\ [Next]_vars => DepositIInv'
<1>1. SUFFICES ASSUME DepositIInv, [Next]_vars PROVE DepositIInv'
  OBVIOUS
<1>2. ASSUME NEW d \in Deposits,
             ClaimUtr(d) \/ RejectDeposit(d) \/ Expire(d) \/ \E a \in Amounts : CreateDeposit(d, a)
      PROVE  DepositIInv'
  <2>1. {"AWAITING_PAYMENT"} \in SUBSET Live /\ Live \in SUBSET Live
    BY DEF Live
  <2>2. CASE ClaimUtr(d)
    BY <1>1, <2>1, <2>2, SetDepositStatusStep DEF ClaimUtr
  <2>3. CASE RejectDeposit(d)
    BY <1>1, <2>1, <2>3, SetDepositStatusStep DEF RejectDeposit
  <2>4. CASE Expire(d)
    BY <1>1, <2>1, <2>4, SetDepositStatusStep DEF Expire
  <2>5. QED
    BY <1>1, <1>2, <2>2, <2>3, <2>4, CreateDepositStep
<1>3. ASSUME NEW p \in Payments,
             \/ DismissChainCredit(p)
             \/ \E a \in Amounts : Arrive(p, a)
             \/ \E s \in Reviewable : SendToReview(p, s)
      PROVE  DepositIInv'
  BY <1>1, <1>3, DismissStep, ArriveStep, SendToReviewStep
<1>4. ASSUME NEW c \in Credits, CreditStep(c)
      PROVE  DepositIInv'
  BY <1>1, <1>4, BeginCreditStep, ClaimDepositStep, ConsumePaymentStep, LockAndCountStep,
     CommitCreditStep, AbortCreditStep DEF CreditStep
<1>5. ASSUME NEW v \in Reversals, ReversalStep(v)
      PROVE  DepositIInv'
  BY <1>1, <1>5, BeginReversalStep, ReadFreshStep, ClaimReversalStep, CommitReversalStep,
     AbortReversalStep DEF ReversalStep
<1>6. CASE UNCHANGED vars
  <2>1. UNCHANGED <<account, ledger, rail, deposit, payment, crediting, reversing>>
    BY <1>6 DEF vars, accountVars, depositVars
  <2>2. Typed' /\ MatchInv' /\ LockInv'
    BY <1>1, <2>1 DEF DepositIInv, Typed, MatchInv, PaymentCreditsOnce, LockInv, InCredit,
       InReversal, Taken, Counted
  <2>3. CreditInv'
    <3>1. Completed' = Completed
      BY <2>1 DEF Completed
    <3>2. QED
      BY <1>1, <2>1, <3>1 DEF DepositIInv, CreditInv, InCredit, Taken, Counted
  <2>4. ReversalInv' /\ LastRowShowsBalance'
    BY <1>1, <2>1 DEF DepositIInv, ReversalInv, LastRowShowsBalance, Balance
  <2>5. QED
    BY <2>2, <2>3, <2>4 DEF DepositIInv
<1>7. QED
  BY <1>1, <1>2, <1>3, <1>4, <1>5, <1>6, SpendStep DEF Next, DepositNext

THEOREM DepositInvariant == Spec => []DepositIInv
<1>1. QED
  BY DepositInitial, DepositStep, PTL DEF Spec

(* However many matchers and administrators credit and reverse at once, a   *)
(* payment is consumed exactly when one deposit was credited with it or an  *)
(* administrator dismissed it (creditDepositToAccount, deposit.ts).         *)
THEOREM PaymentCreditedOnce == Spec => []PaymentCreditsOnce
<1>1. DepositIInv => PaymentCreditsOnce
  BY DEF DepositIInv, MatchInv
<1>2. QED
  BY <1>1, DepositInvariant, PTL

(* Only a credit that commits completes a deposit.                          *)
LEMMA OnlyCreditsComplete ==
  ASSUME DepositIInv, Next, NEW d \in Deposits,
         deposit[d].status # "COMPLETED", deposit'[d].status = "COMPLETED"
  PROVE  \E c \in Credits : CommitCredit(c)
<1>1. deposit \in [Deposits -> DepositRow]
  BY DEF DepositIInv, Typed
<1>2. ASSUME NEW e \in Deposits, NEW from, NEW to, to # "COMPLETED", SetDepositStatus(e, from, to)
      PROVE  FALSE
  <2>1. deposit' = [deposit EXCEPT ![e].status = to]
    BY <1>2 DEF SetDepositStatus
  <2>2. PICK x \in DepositRow : x = deposit[e]
    BY <1>1
  <2>3. [x EXCEPT !.status = to].status = to
    BY <2>2 DEF DepositRow
  <2>4. deposit'[d] = IF e = d THEN [x EXCEPT !.status = to] ELSE deposit[d]
    BY <1>1, <2>1, <2>2
  <2>5. QED
    BY <1>2, <2>3, <2>4
<1>3. ASSUME NEW e \in Deposits, ClaimUtr(e) \/ RejectDeposit(e) \/ Expire(e)
      PROVE  FALSE
  BY <1>2, <1>3 DEF ClaimUtr, RejectDeposit, Expire
<1>4. ASSUME NEW e \in Deposits, NEW a \in Amounts, CreateDeposit(e, a)
      PROVE  FALSE
  <2>1. deposit' = [deposit EXCEPT ![e] = [@ EXCEPT !.status = "AWAITING_PAYMENT", !.amount = a]]
    BY <1>1, <1>4 DEF CreateDeposit
  <2>2. PICK x \in DepositRow : x = deposit[e]
    BY <1>1
  <2>3. [x EXCEPT !.status = "AWAITING_PAYMENT", !.amount = a].status = "AWAITING_PAYMENT"
    BY <2>2 DEF DepositRow
  <2>4. deposit'[d] = IF e = d THEN [x EXCEPT !.status = "AWAITING_PAYMENT", !.amount = a]
                      ELSE deposit[d]
    BY <1>1, <2>1, <2>2
  <2>5. QED
    BY <2>3, <2>4
<1>5. ASSUME NEW v \in Reversals, CommitReversal(v)
      PROVE  FALSE
  <2>1. PICK e \in Deposits, m \in Payments \cup {None} : TakenBack(v, e, m)
    BY <1>5, CommitReversalFacts
  <2>2. QED
    BY <2>1 DEF TakenBack
<1>6. ASSUME UNCHANGED deposit PROVE FALSE
  BY <1>6
<1>7. QED
  BY <1>3, <1>4, <1>5, <1>6 DEF Next, DepositNext, CreditStep, ReversalStep, Spend, depositVars,
     DismissChainCredit, Arrive, SendToReview, BeginCredit, ClaimDeposit, ConsumePayment,
     LockAndCount, AbortCredit, BeginReversal, ReadFresh, ClaimReversal, AbortReversal

LEMMA BonusStep ==
  ASSUME DepositIInv, Next, NEW d \in Deposits,
         deposit[d].status # "COMPLETED", deposit'[d].status = "COMPLETED"
  PROVE  account'.bonus - account.bonus
           = Bonus(deposit'[d].credited, Cardinality(Completed) + 1)
<1>1. PICK c \in Credits : CommitCredit(c)
  BY OnlyCreditsComplete
<1>2. PICK e \in Deposits, p \in Payments \cup {None}, x \in Int, n \in Nat, b \in Int :
        Credited(c, e, p, x, n, b)
  BY <1>1, CommitCreditFacts
<1>3. e = d
  BY <1>2 DEF Credited
<1>4. deposit'[d].credited = x /\ n = Cardinality(Completed) + 1 /\ b = Bonus(x, n)
  BY <1>2, <1>3 DEF Credited
<1>5. account.bonus \in Int /\ account'.bonus = account.bonus + b
  BY <1>2 DEF Credited, DepositIInv, Typed, AccountRecord
<1>6. account'.bonus - account.bonus = b
  BY <1>5
<1>7. QED
  BY <1>4, <1>6

(* Deposits that complete at the same moment wait for each other's account  *)
(* lock before they count: each gets the bonus of its own number            *)
(* (creditDepositToAccount, deposit.ts).                                    *)
THEOREM BonusOfItsNumber == Spec => BonusByNumber
<1>1. DepositIInv /\ [Next]_vars =>
        [\A d \in Deposits :
           deposit[d].status # "COMPLETED" /\ deposit'[d].status = "COMPLETED" =>
             account'.bonus - account.bonus
               = Bonus(deposit'[d].credited, Cardinality(Completed) + 1)]_vars
  BY BonusStep
<1>2. QED
  BY <1>1, DepositInvariant, PTL DEF Spec, BonusByNumber

----------------------------------------------------------------------------
(* Deposits: what the ledger adds up to. *)

(* What the ledger adds up to, in all and for one deposit; and the bonus    *)
(* that was granted for a deposit.                                          *)
AmountsOf(l)    == [i \in DOMAIN l |-> l[i].amount]
RowsIn(l, d)    == {i \in DOMAIN l : l[i].ref = d}
AllOf(l)        == SumFunctionOnSet(AmountsOf(l), DOMAIN l)
OfDeposit(l, d) == SumFunctionOnSet(AmountsOf(l), RowsIn(l, d))

IsGrant(row, d) == row.kind = "BONUS_GRANT" /\ row.ref = d
GrantIs(l, d, g) ==
  /\ \A i \in DOMAIN l : IsGrant(l[i], d) => l[i].amount = g
  /\ (\A i \in DOMAIN l : ~IsGrant(l[i], d)) => g = 0

(* Row r joins ledger l; x joins the sums of it. *)
Grown(l, k, r) ==
  /\ k \in Seq(LedgerRow) /\ Len(l) + 1 \notin DOMAIN l
  /\ DOMAIN k = DOMAIN l \cup {Len(l) + 1}
  /\ \A i \in DOMAIN l : k[i] = l[i]
  /\ k[Len(l) + 1] = r

Grows(l, k, e, x) ==
  /\ AllOf(k) = AllOf(l) + x
  /\ OfDeposit(k, e) = OfDeposit(l, e) + x
  /\ \A d : d # e => OfDeposit(k, d) = OfDeposit(l, d) /\ RowsIn(k, d) = RowsIn(l, d)

LEMMA LedgerSums ==
  ASSUME NEW l \in Seq(LedgerRow), NEW S \in SUBSET (DOMAIN l)
  PROVE  /\ IsFiniteSet(S) /\ Numbers(AmountsOf(l), S)
         /\ SumFunctionOnSet(AmountsOf(l), S) \in Int
<1>1. DOMAIN l = 1..Len(l) /\ Len(l) \in Nat /\ \A i \in DOMAIN l : l[i] \in LedgerRow
  BY ElementOfSeq
<1>2. IsFiniteSet(S)
  <2>1. IsFiniteSet(1..Len(l))
    BY <1>1, FS_Interval
  <2>2. QED
    BY <1>1, <2>1, FS_Subset
<1>3. Numbers(AmountsOf(l), S)
  BY <1>1 DEF Numbers, AmountsOf, LedgerRow
<1>4. QED
  BY <1>2, <1>3, SumInt

LEMMA RowGrows ==
  ASSUME NEW l \in Seq(LedgerRow), NEW r \in LedgerRow
  PROVE  Grown(l, l \o <<r>>, r)
<1>1. PICK k : k = l \o <<r>>
  OBVIOUS
<1>2. k \in Seq(LedgerRow) /\ Len(k) = Len(l) + 1 /\ k[Len(l) + 1] = r /\ Len(l) \in Nat
  BY <1>1
<1>3. DOMAIN l = 1..Len(l) /\ DOMAIN k = 1..(Len(l) + 1)
  BY <1>2
<1>4. \A i \in DOMAIN l : k[i] = l[i]
  BY <1>1, <1>3
<1>5. Len(l) + 1 \notin DOMAIN l /\ DOMAIN k = DOMAIN l \cup {Len(l) + 1}
  BY <1>2, <1>3
<1>6. QED
  BY <1>1, <1>2, <1>4, <1>5 DEF Grown

LEMMA GrownSums ==
  ASSUME NEW l \in Seq(LedgerRow), NEW k \in Seq(LedgerRow), NEW r \in LedgerRow, Grown(l, k, r)
  PROVE  Grows(l, k, r.ref, r.amount)
<1>1. PICK n : n = Len(l) + 1
  OBVIOUS
<1>2. /\ n \notin DOMAIN l /\ DOMAIN k = DOMAIN l \cup {n}
      /\ \A i \in DOMAIN l : k[i] = l[i]
      /\ k[n] = r
  BY <1>1 DEF Grown
<1>3. PICK f, g : f = AmountsOf(l) /\ g = AmountsOf(k)
  OBVIOUS
<1>4. g[n] = r.amount /\ \A i \in DOMAIN l : g[i] = f[i]
  BY <1>2, <1>3 DEF AmountsOf
<1>5. ASSUME NEW S \in SUBSET DOMAIN l
      PROVE  /\ SumFunctionOnSet(g, S) = SumFunctionOnSet(f, S)
             /\ SumFunctionOnSet(g, S \cup {n}) = SumFunctionOnSet(f, S) + r.amount
  <2>1. S \in SUBSET DOMAIN k /\ S \cup {n} \in SUBSET DOMAIN k /\ n \notin S
    BY <1>2
  <2>2. IsFiniteSet(S) /\ Numbers(f, S) /\ Numbers(g, S) /\ Numbers(g, S \cup {n})
    BY <1>3, <2>1, LedgerSums
  <2>3. Agree(f, g, S)
    BY <1>4 DEF Agree
  <2>4. SumFunctionOnSet(g, S) = SumFunctionOnSet(f, S)
    BY <2>2, <2>3, SumOfSame
  <2>5. SumFunctionOnSet(g, S \cup {n}) = SumFunctionOnSet(g, S) + g[n]
    BY <2>1, <2>2, SumAdds
  <2>6. QED
    BY <1>4, <2>4, <2>5
<1>6. AllOf(k) = AllOf(l) + r.amount
  BY <1>2, <1>3, <1>5 DEF AllOf
<1>7. ASSUME NEW d
      PROVE  /\ RowsIn(k, d) = IF d = r.ref THEN RowsIn(l, d) \cup {n} ELSE RowsIn(l, d)
             /\ RowsIn(l, d) \in SUBSET DOMAIN l
  BY <1>2 DEF RowsIn
<1>8. OfDeposit(k, r.ref) = OfDeposit(l, r.ref) + r.amount
  BY <1>3, <1>5, <1>7 DEF OfDeposit
<1>9. \A d : d # r.ref => OfDeposit(k, d) = OfDeposit(l, d) /\ RowsIn(k, d) = RowsIn(l, d)
  BY <1>3, <1>5, <1>7 DEF OfDeposit
<1>10. QED
  BY <1>6, <1>8, <1>9 DEF Grows

LEMMA GrownGrants ==
  ASSUME NEW l \in Seq(LedgerRow), NEW k \in Seq(LedgerRow), NEW r \in LedgerRow, Grown(l, k, r),
         NEW d, NEW g, GrantIs(l, d, g)
  PROVE  /\ ~IsGrant(r, d) => GrantIs(k, d, g)
         /\ g = 0 /\ IsGrant(r, d) /\ RowsIn(l, d) = {} => GrantIs(k, d, r.amount)
BY DEF Grown, GrantIs, RowsIn, IsGrant

LEMMA FirstGrant ==
  ASSUME NEW l \in Seq(LedgerRow), NEW k \in Seq(LedgerRow), NEW r \in LedgerRow, Grown(l, k, r),
         NEW d, \A i \in DOMAIN l : ~IsGrant(l[i], d), IsGrant(r, d)
  PROVE  GrantIs(k, d, r.amount)
BY DEF Grown, GrantIs

LEMMA OneGrant ==
  ASSUME NEW l, NEW d, NEW g, NEW h, GrantIs(l, d, g), GrantIs(l, d, h)
  PROVE  g = h
BY DEF GrantIs

(* One row and, if b is positive, a second one join the ledger. *)
Joined(l, k, r, s, b) == k = l \o <<r>> \o (IF b > 0 THEN <<s>> ELSE <<>>)

LEMMA BookingGrows ==
  ASSUME NEW l \in Seq(LedgerRow), NEW r \in LedgerRow, NEW s \in LedgerRow, s.ref = r.ref,
         NEW b \in Nat, s.amount \in {b, -b},
         NEW k, Joined(l, k, r, s, b)
  PROVE  /\ k \in Seq(LedgerRow) /\ Grows(l, k, r.ref, r.amount + s.amount)
         /\ \A d, g : ~IsGrant(r, d) /\ ~IsGrant(s, d) /\ GrantIs(l, d, g) => GrantIs(k, d, g)
         /\ \A d : ~IsGrant(r, d) /\ IsGrant(s, d) /\ (\A i \in DOMAIN l : ~IsGrant(l[i], d)) =>
              GrantIs(k, d, b) \/ s.amount # b
<1>1. PICK m : m = l \o <<r>>
  OBVIOUS
<1>2. m \in Seq(LedgerRow) /\ Grown(l, m, r)
  BY <1>1, RowGrows DEF Grown
<1>3. Grows(l, m, r.ref, r.amount)
  BY <1>2, GrownSums
<1>4. r.amount \in Int /\ s.amount \in Int
  BY DEF LedgerRow
<1>5. AllOf(l) \in Int /\ OfDeposit(l, r.ref) \in Int
  BY LedgerSums DEF AllOf, OfDeposit, RowsIn
<1>6. \A d, g : ~IsGrant(r, d) /\ GrantIs(l, d, g) => GrantIs(m, d, g)
  BY <1>2, GrownGrants
<1>7. \A d : ~IsGrant(r, d) /\ (\A i \in DOMAIN l : ~IsGrant(l[i], d)) =>
        (\A i \in DOMAIN m : ~IsGrant(m[i], d))
  BY <1>2 DEF Grown
<1>8. CASE b > 0
  <2>1. PICK n : n = m \o <<s>>
    OBVIOUS
  <2>2. k = n
    BY <1>1, <1>8, <2>1 DEF Joined
  <2>3. n \in Seq(LedgerRow) /\ Grown(m, n, s)
    BY <1>2, <2>1, RowGrows DEF Grown
  <2>4. Grows(m, n, s.ref, s.amount)
    BY <1>2, <2>3, GrownSums
  <2>5. Grows(l, n, r.ref, r.amount + s.amount)
    BY <1>3, <1>4, <1>5, <2>4 DEF Grows
  <2>6. \A d, g : ~IsGrant(s, d) /\ GrantIs(m, d, g) => GrantIs(n, d, g)
    BY <1>2, <2>3, GrownGrants
  <2>7. \A d : IsGrant(s, d) /\ (\A i \in DOMAIN m : ~IsGrant(m[i], d)) => GrantIs(n, d, s.amount)
    BY <1>2, <2>3, FirstGrant
  <2>8. QED
    BY <1>6, <1>7, <2>2, <2>3, <2>5, <2>6, <2>7
<1>9. CASE ~(b > 0)
  <2>1. m \o <<>> = m
    BY <1>2, ConcatEmptySeq
  <2>2. k = m
    BY <1>1, <1>9, <2>1 DEF Joined
  <2>3. b = 0 /\ s.amount = 0
    BY <1>9
  <2>4. r.amount + s.amount = r.amount
    BY <1>4, <2>3
  <2>5. \A d : (\A i \in DOMAIN m : ~IsGrant(m[i], d)) => GrantIs(m, d, 0)
    BY DEF GrantIs
  <2>6. Grows(l, k, r.ref, r.amount + s.amount)
    BY <1>3, <2>2, <2>4
  <2>7. \A d : ~IsGrant(r, d) /\ (\A i \in DOMAIN l : ~IsGrant(l[i], d)) => GrantIs(k, d, b)
    BY <1>7, <2>2, <2>3, <2>5
  <2>8. \A d, g : ~IsGrant(r, d) /\ GrantIs(l, d, g) => GrantIs(k, d, g)
    BY <1>6, <2>2
  <2>9. k \in Seq(LedgerRow)
    BY <1>2, <2>2
  <2>10. QED
    BY <2>6, <2>7, <2>8, <2>9
<1>10. QED
  BY <1>8, <1>9

----------------------------------------------------------------------------
(* The sums of the account: what the ledger says of a deposit, by its       *)
(* status, and what the calls have read and still holds.                    *)
DepositSum(l, d, row, currency) ==
  /\ row.status \in NotCredited => RowsIn(l, d) = {} /\ row.shortfall = 0
  /\ row.status = "REJECTED" => OfDeposit(l, d) = row.shortfall
  /\ row.status = "COMPLETED" =>
       /\ row.credited = CreditMinor(row.amount, currency)
       /\ \E g \in Nat : GrantIs(l, d, g) /\ OfDeposit(l, d) = row.credited + g

ReversalSum(call, a, l, row) ==
  /\ call.credit = CreditMinor(row.amount, a.currency)
  /\ call.bonus \in Nat /\ GrantIs(l, call.deposit, call.bonus)
  /\ call.pc \in {"fresh", "claimed"} =>
       /\ call.realCap \in Nat /\ call.bonusCap \in Nat
       /\ call.version = a.version => call.realCap <= a.real /\ call.bonusCap <= a.bonus

BalanceSum   == NoOverdraft /\ Balance(account) = OpeningBalance + AllOf(ledger)
DepositSums  == \A d \in Deposits : DepositSum(ledger, d, deposit[d], account.currency)
CreditSums   == \A c \in Credits : crediting[c] # NoCredit =>
                  crediting[c].credit = CreditMinor(crediting[c].amount, account.currency)
ReversalSums == \A v \in Reversals : reversing[v] # NoReversal =>
                  ReversalSum(reversing[v], account, ledger, deposit[reversing[v].deposit])

SumInv ==
  /\ BalanceSum
  /\ CumulativeMatches
  /\ DepositSums
  /\ CreditSums
  /\ ReversalSums

(* A step of a call that writes nothing yet. *)
LEMMA CallsMove ==
  ASSUME SumInv, UNCHANGED <<account, ledger, deposit, cumulative>>, CreditSums', ReversalSums'
  PROVE  SumInv'
<1>1. BalanceSum'
  BY DEF SumInv, BalanceSum, NoOverdraft, Balance, OpeningBalance
<1>2. CumulativeMatches' /\ DepositSums'
  BY DEF SumInv, CumulativeMatches, Completed, DepositSums
<1>3. QED
  BY <1>1, <1>2 DEF SumInv

LEMMA CreditMovesSums ==
  ASSUME DepositIInv, SumInv, NEW c \in Credits, NEW new,
         crediting' = [crediting EXCEPT ![c] = new],
         new # NoCredit => new.credit = CreditMinor(new.amount, account.currency),
         UNCHANGED <<account, ledger, deposit, cumulative, reversing>>
  PROVE  SumInv'
<1>1. \A o \in Credits : crediting'[o] = IF o = c THEN new ELSE crediting[o]
  BY DEF DepositIInv, Typed
<1>2. CreditSums' /\ ReversalSums'
  BY <1>1 DEF SumInv, CreditSums, ReversalSums
<1>3. QED
  BY <1>2, CallsMove

LEMMA CreditCallSums ==
  ASSUME DepositIInv, SumInv, NEW c \in Credits, CreditStep(c), ~CommitCredit(c)
  PROVE  SumInv'
<1>1. PICK call \in CreditCall : call = crediting[c]
  BY DEF DepositIInv, Typed
<1>2. call # NoCredit => call.credit = CreditMinor(call.amount, account.currency)
  BY <1>1 DEF SumInv, CreditSums
<1>3. ASSUME NEW new, crediting' = [crediting EXCEPT ![c] = new],
             new # NoCredit => new.credit = CreditMinor(new.amount, account.currency),
             UNCHANGED <<accountVars, rail, deposit, payment, cumulative, reversing>>
      PROVE  SumInv'
  BY <1>3, CreditMovesSums DEF accountVars
<1>4. ASSUME NEW d \in Deposits, NEW p \in Payments \cup {None}, NEW admin \in BOOLEAN,
             BeginCredit(c, d, p, admin)
      PROVE  SumInv'
  <2>1. PICK new : new = [pc |-> "read", deposit |-> d, payment |-> p, admin |-> admin,
                          amount |-> Received(d, p),
                          credit |-> CreditMinor(Received(d, p), account.currency)]
    OBVIOUS
  <2>2. new.credit = CreditMinor(new.amount, account.currency)
    BY <2>1
  <2>3. QED
    BY <1>3, <1>4, <2>1, <2>2 DEF BeginCredit
<1>5. ASSUME call # NoCredit, NEW pc, NEW ok \in BOOLEAN, call \in ReadCredit,
             crediting' = [crediting EXCEPT ![c] = IF ok THEN [call EXCEPT !.pc = pc] ELSE NoCredit],
             UNCHANGED <<accountVars, rail, deposit, payment, cumulative, reversing>>
      PROVE  SumInv'
  <2>1. PICK new : new = [call EXCEPT !.pc = pc]
    OBVIOUS
  <2>2. new.credit = call.credit /\ new.amount = call.amount
    BY <1>5, <2>1 DEF ReadCredit
  <2>3. CASE ok
    <3>1. crediting' = [crediting EXCEPT ![c] = new]
      BY <1>5, <2>1, <2>3
    <3>2. QED
      BY <1>2, <1>3, <1>5, <2>2, <3>1
  <2>4. CASE ~ok
    <3>1. crediting' = [crediting EXCEPT ![c] = NoCredit]
      BY <1>5, <2>4
    <3>2. QED
      BY <1>3, <1>5, <3>1
  <2>5. QED
    BY <2>3, <2>4
<1>6. CASE ClaimDeposit(c)
  <2>1. PICK ok \in BOOLEAN : ok = (deposit[call.deposit].status \in Creditable(call.admin)
                                    /\ ~MatchTaken(call.payment))
    OBVIOUS
  <2>2. call.pc = "read" /\ call \in ReadCredit /\ call # NoCredit
    BY <1>1, <1>6, CreditKinds DEF ClaimDeposit, NoCredit
  <2>3. /\ crediting' = [crediting EXCEPT ![c] = IF ok THEN [call EXCEPT !.pc = "claimed"] ELSE NoCredit]
        /\ UNCHANGED <<accountVars, rail, deposit, payment, cumulative, reversing>>
    BY <1>1, <1>6, <2>1 DEF ClaimDeposit
  <2>4. QED
    BY <1>5, <2>2, <2>3
<1>7. CASE ConsumePayment(c)
  <2>1. PICK ok \in BOOLEAN : ok = (call.payment = None \/ Consumable(call.payment, call.admin))
    OBVIOUS
  <2>2. call.pc = "claimed" /\ call \in ReadCredit /\ call # NoCredit
    BY <1>1, <1>7, CreditKinds DEF ConsumePayment, NoCredit
  <2>3. /\ crediting' = [crediting EXCEPT ![c] = IF ok THEN [call EXCEPT !.pc = "consumed"] ELSE NoCredit]
        /\ UNCHANGED <<accountVars, rail, deposit, payment, cumulative, reversing>>
    BY <1>1, <1>7, <2>1 DEF ConsumePayment
  <2>4. QED
    BY <1>5, <2>2, <2>3
<1>8. CASE LockAndCount(c)
  <2>1. PICK new : new = [pc |-> "counted", deposit |-> call.deposit, payment |-> call.payment,
                          admin |-> call.admin, amount |-> call.amount, credit |-> call.credit,
                          number |-> Cardinality(Completed) + 1]
    OBVIOUS
  <2>2. new.credit = call.credit /\ new.amount = call.amount /\ call # NoCredit
    BY <1>1, <1>8, <2>1, CreditKinds DEF LockAndCount, NoCredit
  <2>3. QED
    BY <1>1, <1>2, <1>3, <1>8, <2>1, <2>2 DEF LockAndCount
<1>9. CASE AbortCredit(c)
  BY <1>3, <1>9 DEF AbortCredit
<1>10. QED
  BY <1>4, <1>6, <1>7, <1>8, <1>9 DEF CreditStep

LEMMA ReversalMovesSums ==
  ASSUME DepositIInv, SumInv, NEW v \in Reversals, NEW new,
         reversing' = [reversing EXCEPT ![v] = new],
         new # NoReversal => ReversalSum(new, account, ledger, deposit[new.deposit]),
         UNCHANGED <<account, ledger, deposit, cumulative, crediting>>
  PROVE  SumInv'
<1>1. \A o \in Reversals : reversing'[o] = IF o = v THEN new ELSE reversing[o]
  BY DEF DepositIInv, Typed
<1>2. CreditSums'
  BY DEF SumInv, CreditSums
<1>3. ReversalSums'
  BY <1>1 DEF SumInv, ReversalSums
<1>4. QED
  BY <1>2, <1>3, CallsMove

LEMMA CreditMinorNat ==
  ASSUME NEW amount \in Nat, NEW currency
  PROVE  CreditMinor(amount, currency) \in Nat
<1>1. amount * Rate \in Nat
  OBVIOUS
<1>2. QED
  BY <1>1 DEF CreditMinor

(* The bonus that is read back is the one that was granted. *)
LEMMA GrantReadBack ==
  ASSUME ledger \in Seq(LedgerRow), NEW d, NEW g, GrantIs(ledger, d, g), NEW x
  PROVE  GrantedBonus(d, x) = g
<1>1. CASE \E i \in DOMAIN ledger : ledger[i].kind = "BONUS_GRANT" /\ ledger[i].ref = d
  <2>1. PICK R : R = {ledger[i] : i \in DOMAIN ledger}
    OBVIOUS
  <2>2. \E r \in R : r.kind = "BONUS_GRANT" /\ r.ref = d
    BY <1>1, <2>1
  <2>3. PICK y : y = CHOOSE r \in R : r.kind = "BONUS_GRANT" /\ r.ref = d
    OBVIOUS
  <2>4. y \in R /\ y.kind = "BONUS_GRANT" /\ y.ref = d
    BY <2>2, <2>3
  <2>5. y.amount = g
    BY <2>1, <2>4 DEF GrantIs, IsGrant
  <2>6. QED
    BY <1>1, <2>1, <2>3, <2>5 DEF GrantedBonus
<1>2. CASE ~\E i \in DOMAIN ledger : ledger[i].kind = "BONUS_GRANT" /\ ledger[i].ref = d
  BY <1>2 DEF GrantedBonus, GrantIs, IsGrant
<1>3. QED
  BY <1>1, <1>2

LEMMA BeginReversalSums ==
  ASSUME DepositIInv, SumInv, NEW v \in Reversals, NEW d \in Deposits, NEW force \in BOOLEAN,
         NEW requeue \in BOOLEAN, BeginReversal(v, d, force, requeue)
  PROVE  SumInv'
<1>1. PICK x : x = CreditMinor(deposit[d].amount, account.currency)
  OBVIOUS
<1>2. deposit[d].status = "COMPLETED"
  BY DEF BeginReversal
<1>3. PICK g \in Nat : GrantIs(ledger, d, g)
  BY <1>2 DEF SumInv, DepositSums, DepositSum
<1>4. GrantedBonus(d, x) = g
  BY <1>3, GrantReadBack DEF DepositIInv, Typed
<1>5. PICK new : new = [pc |-> "read", deposit |-> d, force |-> force, requeue |-> requeue,
                        credit |-> x, bonus |-> g]
  OBVIOUS
<1>6. ReversalSum(new, account, ledger, deposit[new.deposit])
  BY <1>1, <1>3, <1>5 DEF ReversalSum
<1>7. /\ reversing' = [reversing EXCEPT ![v] = new]
      /\ UNCHANGED <<account, ledger, deposit, cumulative, crediting>>
  BY <1>1, <1>4, <1>5 DEF BeginReversal, accountVars
<1>8. QED
  BY <1>6, <1>7, ReversalMovesSums

LEMMA ReadFreshSums ==
  ASSUME DepositIInv, SumInv, NEW v \in Reversals, ReadFresh(v)
  PROVE  SumInv'
<1>1. PICK call \in ReversalCall : call = reversing[v]
  BY DEF DepositIInv, Typed
<1>2. call.pc = "read" /\ call # NoReversal /\ call.deposit \in Deposits
  BY <1>1, ReversalKinds DEF ReadFresh, NoReversal
<1>3. ReversalSum(call, account, ledger, deposit[call.deposit])
  BY <1>1, <1>2 DEF SumInv, ReversalSums
<1>4. call.credit \in Nat /\ call.bonus \in Nat
  <2>1. deposit[call.deposit].amount \in Nat
    BY <1>2 DEF DepositIInv, Typed, DepositRow
  <2>2. PICK a \in Nat : a = deposit[call.deposit].amount
    BY <2>1
  <2>3. QED
    BY <1>3, <2>2, CreditMinorNat DEF ReversalSum
<1>5. account.real \in Nat /\ account.bonus \in Nat
  BY DEF DepositIInv, Typed, AccountRecord, SumInv, BalanceSum, NoOverdraft
<1>6. PICK rc \in Nat, bc \in Nat :
        /\ rc = Lower(call.credit, account.real) /\ rc <= account.real
        /\ bc = Lower(call.bonus, account.bonus) /\ bc <= account.bonus
  BY <1>4, <1>5 DEF Lower
<1>7. PICK new : new = [pc |-> "fresh", deposit |-> call.deposit, requeue |-> call.requeue,
                        credit |-> call.credit, bonus |-> call.bonus, version |-> account.version,
                        balance |-> Balance(account), realCap |-> rc, bonusCap |-> bc]
  OBVIOUS
<1>8. new.deposit = call.deposit /\ ReversalSum(new, account, ledger, deposit[call.deposit])
  BY <1>3, <1>4, <1>6, <1>7 DEF ReversalSum
<1>9. /\ reversing' = [reversing EXCEPT ![v] =
           IF Short(call, account) /\ ~call.force THEN NoReversal ELSE new]
      /\ UNCHANGED <<account, ledger, deposit, cumulative, crediting>>
  BY <1>1, <1>6, <1>7 DEF ReadFresh, accountVars
<1>10. CASE Short(call, account) /\ ~call.force
  <2>1. reversing' = [reversing EXCEPT ![v] = NoReversal]
    BY <1>9, <1>10
  <2>2. QED
    BY <1>9, <2>1, ReversalMovesSums
<1>11. CASE ~(Short(call, account) /\ ~call.force)
  <2>1. reversing' = [reversing EXCEPT ![v] = new]
    BY <1>9, <1>11
  <2>2. QED
    BY <1>8, <1>9, <2>1, ReversalMovesSums
<1>12. QED
  BY <1>10, <1>11

LEMMA ClaimReversalSums ==
  ASSUME DepositIInv, SumInv, NEW v \in Reversals, ClaimReversal(v)
  PROVE  SumInv'
<1>1. PICK call \in ReversalCall : call = reversing[v]
  BY DEF DepositIInv, Typed
<1>2. call.pc = "fresh" /\ call # NoReversal /\ call \in FreshReversal
  BY <1>1, ReversalKinds DEF ClaimReversal, NoReversal
<1>3. ReversalSum(call, account, ledger, deposit[call.deposit])
  BY <1>1, <1>2 DEF SumInv, ReversalSums
<1>4. PICK new : new = [call EXCEPT !.pc = "claimed"]
  OBVIOUS
<1>5. new.deposit = call.deposit /\ ReversalSum(new, account, ledger, deposit[call.deposit])
  <2>1. /\ new.deposit = call.deposit /\ new.credit = call.credit /\ new.bonus = call.bonus
        /\ new.realCap = call.realCap /\ new.bonusCap = call.bonusCap /\ new.version = call.version
    BY <1>2, <1>4 DEF FreshReversal
  <2>2. QED
    BY <1>2, <1>3, <2>1 DEF ReversalSum
<1>6. /\ reversing' = [reversing EXCEPT ![v] = IF Reversible(call.deposit) THEN new ELSE NoReversal]
      /\ UNCHANGED <<account, ledger, deposit, cumulative, crediting>>
  BY <1>1, <1>4 DEF ClaimReversal, accountVars
<1>7. CASE Reversible(call.deposit)
  <2>1. reversing' = [reversing EXCEPT ![v] = new]
    BY <1>6, <1>7
  <2>2. QED
    BY <1>5, <1>6, <2>1, ReversalMovesSums
<1>8. CASE ~Reversible(call.deposit)
  <2>1. reversing' = [reversing EXCEPT ![v] = NoReversal]
    BY <1>6, <1>8
  <2>2. QED
    BY <1>6, <2>1, ReversalMovesSums
<1>9. QED
  BY <1>7, <1>8

LEMMA AbortReversalSums ==
  ASSUME DepositIInv, SumInv, NEW v \in Reversals, AbortReversal(v)
  PROVE  SumInv'
<1>1. /\ reversing' = [reversing EXCEPT ![v] = NoReversal]
      /\ UNCHANGED <<account, ledger, deposit, cumulative, crediting>>
  BY DEF AbortReversal, accountVars
<1>2. QED
  BY <1>1, ReversalMovesSums

----------------------------------------------------------------------------
(* A deposit whose status changes and that is not credited, before or       *)
(* after.                                                                   *)
LEMMA DepositMovesSums ==
  ASSUME DepositIInv, SumInv, NEW d \in Deposits, NEW new, deposit[d].status \in NotCredited,
         deposit' = [deposit EXCEPT ![d] = new],
         new.status \in NotCredited \cup {"REJECTED"}, new.shortfall = deposit[d].shortfall,
         UNCHANGED <<account, ledger, cumulative, crediting, reversing>>
  PROVE  SumInv'
<1>1. /\ deposit'[d] = new /\ \A e \in Deposits : e # d => deposit'[e] = deposit[e]
      /\ deposit[d].status # "COMPLETED" /\ deposit[d].status # "REJECTED"
      /\ new.status # "COMPLETED" /\ "REJECTED" \notin NotCredited
  BY DEF DepositIInv, Typed, NotCredited, Live
<1>2. BalanceSum'
  BY DEF SumInv, BalanceSum, NoOverdraft, Balance, OpeningBalance
<1>3. CumulativeMatches'
  <2>1. PICK S \in SUBSET Deposits : S = Completed
    BY DEF Completed
  <2>2. Completed' = S /\ d \notin S
    BY <1>1, <2>1 DEF Completed
  <2>3. IsFiniteSet(S)
    BY FS_Subset
  <2>4. PICK f, g : f = [e \in Deposits |-> deposit[e].credited]
                    /\ g = [e \in Deposits |-> deposit'[e].credited]
    OBVIOUS
  <2>5. Numbers(f, S) /\ Agree(f, g, S)
    BY <1>1, <2>2, <2>4 DEF Numbers, Agree, DepositIInv, Typed, DepositRow
  <2>6. SumFunctionOnSet(f, S) = SumFunctionOnSet(g, S)
    BY <2>3, <2>5, SumOfSame
  <2>7. QED
    BY <2>1, <2>2, <2>4, <2>6 DEF SumInv, CumulativeMatches
<1>4. DepositSums'
  <2>1. DepositSum(ledger, d, new, account.currency)
    <3>1. RowsIn(ledger, d) = {} /\ new.shortfall = 0
      BY DEF SumInv, DepositSums, DepositSum
    <3>2. OfDeposit(ledger, d) = 0
      BY <3>1, SumEmpty DEF OfDeposit
    <3>3. QED
      BY <1>1, <3>1, <3>2 DEF DepositSum
  <2>2. QED
    BY <1>1, <2>1 DEF SumInv, DepositSums
<1>5. CreditSums'
  BY DEF SumInv, CreditSums
<1>6. ReversalSums'
  <2>1. \A v \in Reversals : reversing[v] # NoReversal =>
          reversing[v].deposit \in Deposits /\ reversing[v].deposit # d
    BY <1>1, ReversalKinds DEF DepositIInv, Typed, ReversalInv
  <2>2. \A v \in Reversals : reversing[v] # NoReversal =>
          deposit'[reversing[v].deposit] = deposit[reversing[v].deposit]
    BY <1>1, <2>1
  <2>3. QED
    BY <2>2 DEF SumInv, ReversalSums
<1>7. QED
  BY <1>2, <1>3, <1>4, <1>5, <1>6 DEF SumInv

LEMMA CreateDepositSums ==
  ASSUME DepositIInv, SumInv, NEW d \in Deposits, NEW a, CreateDeposit(d, a)
  PROVE  SumInv'
<1>1. PICK new : new = [NoDeposit EXCEPT !.status = "AWAITING_PAYMENT", !.amount = a]
  OBVIOUS
<1>2. /\ deposit[d] = NoDeposit /\ deposit' = [deposit EXCEPT ![d] = new]
      /\ UNCHANGED <<account, ledger, cumulative, crediting, reversing>>
  BY <1>1 DEF CreateDeposit, accountVars, DepositIInv, Typed
<1>3. /\ deposit[d].status \in NotCredited /\ new.status \in NotCredited
      /\ new.shortfall = deposit[d].shortfall
  BY <1>1, <1>2 DEF NoDeposit, NotCredited, Live
<1>4. QED
  BY <1>2, <1>3, DepositMovesSums

LEMMA SetDepositStatusSums ==
  ASSUME DepositIInv, SumInv, NEW d \in Deposits, NEW from \in SUBSET Live,
         NEW to \in NotCredited \cup {"REJECTED"}, SetDepositStatus(d, from, to)
  PROVE  SumInv'
<1>1. PICK row \in DepositRow : row = deposit[d]
  BY DEF DepositIInv, Typed
<1>2. PICK new : new = [row EXCEPT !.status = to]
  OBVIOUS
<1>3. new.status = to /\ new.shortfall = row.shortfall
  BY <1>1, <1>2 DEF DepositRow
<1>4. /\ deposit' = [deposit EXCEPT ![d] = new] /\ deposit[d].status \in NotCredited
      /\ UNCHANGED <<account, ledger, cumulative, crediting, reversing>>
  BY <1>1, <1>2 DEF SetDepositStatus, accountVars, NotCredited
<1>5. QED
  BY <1>1, <1>3, <1>4, DepositMovesSums

----------------------------------------------------------------------------
(* A booking: the balances move by x and y, and the ledger grows by as much *)
(* in rows of e.                                                            *)
Booked(e, x, y) ==
  /\ account' = Moved(account, x, y)
  /\ account.real + x >= 0 /\ account.bonus + y >= 0
  /\ Grows(ledger, ledger', e, x + y)
  /\ \A d, g : d # e /\ GrantIs(ledger, d, g) => GrantIs(ledger', d, g)

LEMMA BookedBalance ==
  ASSUME DepositIInv, SumInv, NEW e, NEW x \in Int, NEW y \in Int, Booked(e, x, y)
  PROVE  BalanceSum' /\ account'.currency = account.currency /\ account'.version = account.version + 1
<1>1. PICK a \in AccountRecord : a = account
  BY DEF DepositIInv, Typed
<1>2. /\ account'.real = a.real + x /\ account'.bonus = a.bonus + y
      /\ account'.currency = a.currency /\ account'.version = a.version + 1
  BY <1>1 DEF Booked, Moved
<1>3. PICK s \in Int : s = AllOf(ledger) /\ AllOf(ledger') = s + (x + y)
  BY LedgerSums DEF DepositIInv, Typed, AllOf, Booked, Grows
<1>4. a.real \in Int /\ a.bonus \in Int /\ OpeningBalance \in Int
  BY <1>1, OpeningAssumption DEF AccountRecord, OpeningBalance
<1>5. a.real + a.bonus = OpeningBalance + s
  BY <1>1, <1>3 DEF SumInv, BalanceSum, Balance
<1>6. account'.real + account'.bonus = OpeningBalance + AllOf(ledger')
  <2>1. PICK p \in Int, q \in Int, o \in Int : p = a.real /\ q = a.bonus /\ o = OpeningBalance
    BY <1>4
  <2>2. p + q = o + s
    BY <1>5, <2>1
  <2>3. (p + x) + (q + y) = o + (s + (x + y))
    BY <2>2
  <2>4. QED
    BY <1>2, <1>3, <2>1, <2>3
<1>7. BalanceSum'
  BY <1>1, <1>2, <1>6 DEF BalanceSum, NoOverdraft, Balance, OpeningBalance, Booked
<1>8. QED
  BY <1>1, <1>2, <1>7

LEMMA BookedOthers ==
  ASSUME DepositIInv, SumInv, NEW e, NEW x \in Int, NEW y \in Int, Booked(e, x, y),
         NEW d \in Deposits, d # e, deposit'[d] = deposit[d]
  PROVE  DepositSum(ledger', d, deposit'[d], account'.currency)
<1>1. account'.currency = account.currency
  BY BookedBalance
<1>2. DepositSum(ledger, d, deposit[d], account.currency)
  BY DEF SumInv, DepositSums
<1>3. OfDeposit(ledger', d) = OfDeposit(ledger, d) /\ RowsIn(ledger', d) = RowsIn(ledger, d)
  BY DEF Booked, Grows
<1>4. \A g : GrantIs(ledger, d, g) => GrantIs(ledger', d, g)
  BY DEF Booked
<1>5. QED
  BY <1>1, <1>2, <1>3, <1>4 DEF DepositSum

LEMMA BookedReversals ==
  ASSUME DepositIInv, SumInv, NEW e, NEW x \in Int, NEW y \in Int, Booked(e, x, y),
         NEW v \in Reversals, reversing[v] # NoReversal,
         \A g : GrantIs(ledger, reversing[v].deposit, g) => GrantIs(ledger', reversing[v].deposit, g),
         NEW row, row.amount = deposit[reversing[v].deposit].amount
  PROVE  ReversalSum(reversing[v], account', ledger', row)
<1>1. account'.currency = account.currency /\ account'.version = account.version + 1
  BY BookedBalance
<1>2. PICK call \in ReversalCall : call = reversing[v]
  BY DEF DepositIInv, Typed
<1>3. ReversalSum(call, account, ledger, deposit[call.deposit])
  BY <1>2 DEF SumInv, ReversalSums
<1>4. call.pc \in {"fresh", "claimed"} => call.version # account'.version
  <2>1. account.version \in Nat
    BY DEF DepositIInv, Typed, AccountRecord
  <2>2. call.pc \in {"fresh", "claimed"} => call.version \in Nat /\ call.version <= account.version
    BY <1>2, ReversalKinds DEF DepositIInv, ReversalInv
  <2>3. QED
    BY <1>1, <2>1, <2>2
<1>5. QED
  BY <1>1, <1>2, <1>3, <1>4 DEF ReversalSum

LEMMA BookedCredits ==
  ASSUME DepositIInv, SumInv, NEW e, NEW x \in Int, NEW y \in Int, Booked(e, x, y),
         NEW c \in Credits, crediting' = [crediting EXCEPT ![c] = NoCredit] \/ UNCHANGED crediting
  PROVE  CreditSums'
<1>1. account'.currency = account.currency
  BY BookedBalance
<1>2. \A o \in Credits : crediting'[o] = crediting[o] \/ crediting'[o] = NoCredit
  BY DEF DepositIInv, Typed
<1>3. QED
  BY <1>1, <1>2 DEF SumInv, CreditSums

LEMMA SpendSums ==
  ASSUME DepositIInv, SumInv, NEW real \in 0..account.real, NEW bonus \in 0..account.bonus,
         Spend(real, bonus)
  PROVE  SumInv'
<1>1. /\ account.real \in Int /\ account.bonus \in Int /\ real \in Int /\ bonus \in Int
      /\ real <= account.real /\ bonus <= account.bonus
  BY DEF DepositIInv, Typed, AccountRecord
<1>2. PICK x \in Int, y \in Int : x = -real /\ y = -bonus
  BY <1>1
<1>3. PICK after \in Int : after = Balance(account) - real - bonus
  BY <1>1 DEF Balance
<1>4. PICK r : r = Row("TRADE_STAKE", -(real + bonus), after, None)
  OBVIOUS
<1>5. r \in LedgerRow /\ r.ref = None /\ r.amount = x + y /\ \A d : ~IsGrant(r, d)
  <2>1. -(real + bonus) \in Int /\ -(real + bonus) = x + y
    BY <1>1, <1>2
  <2>2. QED
    BY <1>4, <2>1 DEF Row, LedgerRow, IsGrant
<1>6. PICK l, k \in Seq(LedgerRow) : l = ledger /\ k = ledger' /\ k = l \o <<r>>
  <2>1. PICK l \in Seq(LedgerRow) : l = ledger
    BY DEF DepositIInv, Typed
  <2>2. ledger' = Append(l, r)
    BY <1>3, <1>4, <2>1 DEF Spend
  <2>3. Append(l, r) = l \o <<r>> /\ l \o <<r>> \in Seq(LedgerRow)
    BY <1>5, <2>1
  <2>4. QED
    BY <2>1, <2>2, <2>3
<1>7. Grown(l, k, r)
  BY <1>5, <1>6, RowGrows
<1>8. Grows(l, k, None, x + y)
  BY <1>5, <1>6, <1>7, GrownSums
<1>9. \A d, g : GrantIs(l, d, g) => GrantIs(k, d, g)
  BY <1>5, <1>6, <1>7, GrownGrants
<1>10. Booked(None, x, y)
  BY <1>1, <1>2, <1>6, <1>8, <1>9 DEF Booked, Spend
<1>11. UNCHANGED <<deposit, cumulative, crediting, reversing>> /\ None \notin Deposits
  BY DEF Spend, depositVars, None
<1>12. BalanceSum'
  BY <1>10, BookedBalance
<1>13. CumulativeMatches'
  BY <1>11 DEF SumInv, CumulativeMatches, Completed
<1>14. DepositSums'
  BY <1>10, <1>11, BookedOthers DEF DepositSums
<1>15. CreditSums'
  <2>1. account'.currency = account.currency
    BY <1>10, BookedBalance
  <2>2. QED
    BY <1>11, <2>1 DEF SumInv, CreditSums
<1>16. ReversalSums'
  <2>1. ASSUME NEW v \in Reversals, reversing[v] # NoReversal
        PROVE  ReversalSum(reversing[v], account', ledger', deposit'[reversing[v].deposit])
    BY <1>6, <1>9, <1>10, <1>11, <2>1, BookedReversals
  <2>2. QED
    BY <1>11, <2>1 DEF ReversalSums
<1>17. QED
  BY <1>12, <1>13, <1>14, <1>15, <1>16 DEF SumInv

LEMMA BonusNat ==
  ASSUME NEW x \in Nat, NEW n \in Nat
  PROVE  Bonus(x, n) \in Nat
<1>1. PICK q \in 0..100 : q = BonusPercent(n)
  <2>1. \A i \in 1..Len(BonusTiers) : BonusTiers[i] \in 0..100
    BY ElementOfSeq
  <2>2. QED
    BY <2>1 DEF BonusPercent
<1>2. x * q \in Nat
  OBVIOUS
<1>3. QED
  BY <1>1, <1>2 DEF Bonus

(* What a credit books: x for deposit d, and bonus b. *)
CreditBooks(c, d, x, b) ==
  /\ Booked(d, x, b) /\ GrantIs(ledger', d, b)
  /\ deposit[d].status \in Live \cup {"EXPIRED"}
  /\ deposit'[d].status = "COMPLETED" /\ deposit'[d].credited = x
  /\ x = CreditMinor(deposit'[d].amount, account.currency)
  /\ \A e \in Deposits : e # d => deposit'[e] = deposit[e]
  /\ cumulative' = cumulative + x
  /\ crediting' = [crediting EXCEPT ![c] = NoCredit]
  /\ UNCHANGED reversing

LEMMA CommitCreditBooks ==
  ASSUME DepositIInv, SumInv, NEW c \in Credits, CommitCredit(c)
  PROVE  \E d \in Deposits, x \in Nat, b \in Nat : CreditBooks(c, d, x, b)
<1>1. PICK call \in CreditCall : call = crediting[c]
  BY DEF DepositIInv, Typed
<1>2. call.pc = "counted" /\ InCredit(c) /\ call # NoCredit
  <2>1. call.pc = "counted"
    BY <1>1 DEF CommitCredit
  <2>2. QED
    BY <1>1, <2>1 DEF InCredit, NoCredit
<1>3. /\ call.amount \in Nat /\ call.deposit \in Deposits /\ call.number \in Nat
      /\ call.credit = CreditMinor(call.amount, account.currency)
  BY <1>1, <1>2, CreditKinds DEF SumInv, CreditSums
<1>4. PICK d \in Deposits, x \in Nat, b \in Nat :
        d = call.deposit /\ x = call.credit /\ b = Bonus(x, call.number)
  <2>1. PICK m \in Nat : m = call.amount
    BY <1>3
  <2>2. call.credit \in Nat
    BY <1>3, <2>1, CreditMinorNat
  <2>3. PICK x \in Nat, n \in Nat : x = call.credit /\ n = call.number
    BY <1>3, <2>2
  <2>4. Bonus(x, n) \in Nat
    BY BonusNat
  <2>5. QED
    BY <1>3, <2>3, <2>4
<1>5. deposit[d].status \in Live \cup {"EXPIRED"}
  BY <1>1, <1>2, <1>4 DEF DepositIInv, CreditInv
<1>6. PICK row \in DepositRow : row = deposit[d]
  BY DEF DepositIInv, Typed
<1>7. PICK new : new = [row EXCEPT !.status = "COMPLETED", !.matched = call.payment,
                                   !.amount = call.amount, !.credited = x]
  OBVIOUS
<1>8. new.status = "COMPLETED" /\ new.amount = call.amount /\ new.credited = x
  BY <1>6, <1>7 DEF DepositRow
<1>9. deposit' = [deposit EXCEPT ![d] = new]
  BY <1>1, <1>4, <1>6, <1>7 DEF CommitCredit
<1>10. deposit'[d] = new /\ \A e \in Deposits : e # d => deposit'[e] = deposit[e]
  BY <1>9 DEF DepositIInv, Typed
<1>11. PICK after \in Int : after = Balance(account) + x + b
  BY DEF DepositIInv, Typed, AccountRecord, Balance
<1>12. PICK l \in Seq(LedgerRow) : l = ledger
  BY DEF DepositIInv, Typed
<1>13. PICK r, s : r = Row("DEPOSIT", x, after, d) /\ s = Row("BONUS_GRANT", b, after, d)
  OBVIOUS
<1>14. /\ r \in LedgerRow /\ s \in LedgerRow /\ r.ref = d /\ s.ref = d
       /\ r.amount = x /\ s.amount = b
       /\ ~IsGrant(r, d) /\ IsGrant(s, d)
       /\ \A e : e # d => ~IsGrant(r, e) /\ ~IsGrant(s, e)
  BY <1>13 DEF Row, LedgerRow, IsGrant
<1>15. PICK k : k = l \o <<r>> \o (IF b > 0 THEN <<s>> ELSE <<>>)
  OBVIOUS
<1>16. ledger' = k
  BY <1>1, <1>4, <1>11, <1>12, <1>13, <1>15 DEF CommitCredit
<1>17. s.ref = r.ref /\ s.amount \in {b, -b} /\ Joined(l, k, r, s, b)
  BY <1>14, <1>15 DEF Joined
<1>18. /\ Grows(l, k, r.ref, r.amount + s.amount)
       /\ \A e, g : ~IsGrant(r, e) /\ ~IsGrant(s, e) /\ GrantIs(l, e, g) => GrantIs(k, e, g)
       /\ \A e : ~IsGrant(r, e) /\ IsGrant(s, e) /\ (\A i \in DOMAIN l : ~IsGrant(l[i], e)) =>
            GrantIs(k, e, b) \/ s.amount # b
  BY <1>14, <1>17, BookingGrows
<1>19. \A i \in DOMAIN l : ~IsGrant(l[i], d)
  <2>1. RowsIn(l, d) = {}
    BY <1>5, <1>12 DEF SumInv, DepositSums, DepositSum, NotCredited, Live
  <2>2. QED
    BY <2>1 DEF RowsIn, IsGrant
<1>20. GrantIs(ledger', d, b)
  BY <1>14, <1>16, <1>18, <1>19
<1>21. account' = Moved(account, x, b) /\ cumulative' = cumulative + x
       /\ crediting' = [crediting EXCEPT ![c] = NoCredit] /\ UNCHANGED reversing
  BY <1>1, <1>4 DEF CommitCredit
<1>22. account.real + x >= 0 /\ account.bonus + b >= 0
  BY DEF SumInv, BalanceSum, NoOverdraft, DepositIInv, Typed, AccountRecord
<1>23. Booked(d, x, b)
  BY <1>12, <1>14, <1>16, <1>18, <1>21, <1>22 DEF Booked
<1>24. CreditBooks(c, d, x, b)
  BY <1>3, <1>4, <1>5, <1>8, <1>10, <1>20, <1>21, <1>23 DEF CreditBooks
<1>25. QED
  BY <1>24

LEMMA CommitCreditSums ==
  ASSUME DepositIInv, SumInv, NEW c \in Credits, CommitCredit(c)
  PROVE  SumInv'
<1>1. PICK d \in Deposits, x \in Nat, b \in Nat : CreditBooks(c, d, x, b)
  BY CommitCreditBooks
<1>2. /\ Booked(d, x, b) /\ GrantIs(ledger', d, b) /\ x \in Int /\ b \in Int
      /\ deposit[d].status # "COMPLETED" /\ deposit[d].status # "REJECTED"
      /\ deposit[d].status \in NotCredited
      /\ deposit'[d].status = "COMPLETED" /\ deposit'[d].credited = x
      /\ x = CreditMinor(deposit'[d].amount, account.currency)
      /\ \A e \in Deposits : e # d => deposit'[e] = deposit[e]
      /\ cumulative' = cumulative + x
      /\ crediting' = [crediting EXCEPT ![c] = NoCredit]
      /\ UNCHANGED reversing
  BY <1>1 DEF CreditBooks, NotCredited, Live
<1>3. BalanceSum' /\ account'.currency = account.currency
  BY <1>2, BookedBalance
<1>4. CreditSums'
  BY <1>2, BookedCredits
<1>5. CumulativeMatches'
  <2>1. PICK S \in SUBSET Deposits : S = Completed
    BY DEF Completed
  <2>2. d \notin S /\ Completed' = S \cup {d}
    BY <1>2, <2>1 DEF Completed
  <2>3. IsFiniteSet(S)
    BY FS_Subset
  <2>4. PICK f, g : f = [e \in Deposits |-> deposit[e].credited]
                    /\ g = [e \in Deposits |-> deposit'[e].credited]
    OBVIOUS
  <2>5. Numbers(f, S) /\ Agree(f, g, S) /\ g[d] = x
    BY <1>2, <2>2, <2>4 DEF Numbers, Agree, DepositIInv, Typed, DepositRow
  <2>6. Numbers(g, S \cup {d})
    BY <2>5 DEF Numbers, Agree
  <2>7. SumFunctionOnSet(g, S \cup {d}) = SumFunctionOnSet(f, S) + x
    <3>1. SumFunctionOnSet(g, S) = SumFunctionOnSet(f, S)
      BY <2>3, <2>5, SumOfSame
    <3>2. SumFunctionOnSet(g, S \cup {d}) = SumFunctionOnSet(g, S) + g[d]
      BY <2>2, <2>3, <2>6, SumAdds
    <3>3. QED
      BY <2>5, <3>1, <3>2
  <2>8. cumulative = SumFunctionOnSet(f, S)
    BY <2>1, <2>4 DEF SumInv, CumulativeMatches
  <2>9. QED
    BY <1>2, <2>2, <2>4, <2>7, <2>8 DEF CumulativeMatches
<1>6. DepositSums'
  <2>1. DepositSum(ledger', d, deposit'[d], account'.currency)
    <3>1. RowsIn(ledger, d) = {}
      BY <1>2 DEF SumInv, DepositSums, DepositSum
    <3>2. OfDeposit(ledger, d) = 0
      BY <3>1, SumEmpty DEF OfDeposit
    <3>3. OfDeposit(ledger', d) = x + b
      BY <1>2, <3>2 DEF Booked, Grows
    <3>4. QED
      BY <1>2, <1>3, <3>3 DEF DepositSum, NotCredited, Live
  <2>2. QED
    BY <1>2, <2>1, BookedOthers DEF DepositSums
<1>7. ReversalSums'
  <2>1. ASSUME NEW v \in Reversals, reversing[v] # NoReversal
        PROVE  ReversalSum(reversing[v], account', ledger', deposit'[reversing[v].deposit])
    <3>1. PICK e \in Deposits : e = reversing[v].deposit /\ e # d
      BY <1>2, <2>1, ReversalKinds DEF DepositIInv, Typed, ReversalInv
    <3>2. deposit'[e] = deposit[e]
      BY <1>2, <3>1
    <3>3. \A g : GrantIs(ledger, e, g) => GrantIs(ledger', e, g)
      BY <1>2, <3>1 DEF Booked
    <3>4. QED
      BY <1>2, <2>1, <3>1, <3>2, <3>3, BookedReversals
  <2>2. QED
    BY <1>2, <2>1 DEF ReversalSums
<1>8. QED
  BY <1>3, <1>4, <1>5, <1>6, <1>7 DEF SumInv

(* What a reversal books: -y and -z for deposit d, which was credited with  *)
(* x and bonus g.                                                           *)
ReversalBooks(v, d, x, g, y, z) ==
  /\ Booked(d, -y, -z)
  /\ \A e, h : GrantIs(ledger, e, h) => GrantIs(ledger', e, h)
  /\ deposit[d].status = "COMPLETED" /\ deposit[d].credited = x
  /\ OfDeposit(ledger, d) = x + g
  /\ deposit'[d].status = "REJECTED" /\ deposit'[d].amount = deposit[d].amount
  /\ deposit'[d].shortfall = (x - y) + (g - z)
  /\ \A e \in Deposits : e # d => deposit'[e] = deposit[e]
  /\ cumulative' = cumulative - x
  /\ reversing' = [reversing EXCEPT ![v] = NoReversal]
  /\ UNCHANGED crediting

LEMMA CommitReversalBooks ==
  ASSUME DepositIInv, SumInv, NEW v \in Reversals, CommitReversal(v)
  PROVE  \E d \in Deposits, x, g, y, z \in Nat : ReversalBooks(v, d, x, g, y, z)
<1>1. PICK call \in ReversalCall : call = reversing[v]
  BY DEF DepositIInv, Typed
<1>2. call.pc = "claimed"
  BY <1>1 DEF CommitReversal
<1>3. /\ call.deposit \in Deposits /\ call # NoReversal /\ call.balance \in Int
      /\ ReversalSum(call, account, ledger, deposit[call.deposit])
  BY <1>1, <1>2, ReversalKinds DEF NoReversal, SumInv, ReversalSums
<1>4. call.version = account.version
  BY <1>1 DEF CommitReversal, SameVersion
<1>5. PICK d \in Deposits : d = call.deposit
  BY <1>3
<1>6. PICK row \in DepositRow : row = deposit[d]
  BY DEF DepositIInv, Typed
<1>7. row.status = "COMPLETED" /\ call.balance = Balance(account)
  BY <1>1, <1>2, <1>3, <1>4, <1>5, <1>6 DEF DepositIInv, ReversalInv
<1>8. PICK x \in Nat : x = call.credit /\ x = row.credited
  <2>1. PICK m \in Nat : m = row.amount
    BY <1>6 DEF DepositRow
  <2>2. call.credit = CreditMinor(m, account.currency)
    BY <1>3, <1>5, <1>6, <2>1 DEF ReversalSum
  <2>3. row.credited = CreditMinor(m, account.currency)
    BY <1>5, <1>6, <1>7, <2>1 DEF SumInv, DepositSums, DepositSum
  <2>4. QED
    BY <2>2, <2>3, CreditMinorNat
<1>9. PICK g \in Nat : g = call.bonus /\ GrantIs(ledger, d, g) /\ OfDeposit(ledger, d) = x + g
  <2>1. PICK h \in Nat : GrantIs(ledger, d, h) /\ OfDeposit(ledger, d) = row.credited + h
    BY <1>5, <1>6, <1>7 DEF SumInv, DepositSums, DepositSum
  <2>2. call.bonus = h
    BY <1>3, <1>5, <2>1, OneGrant DEF ReversalSum
  <2>3. QED
    BY <1>8, <2>1, <2>2
<1>10. PICK y \in Nat, z \in Nat : /\ y = call.realCap /\ z = call.bonusCap
                                   /\ y <= account.real /\ z <= account.bonus
  BY <1>2, <1>3, <1>4 DEF ReversalSum
<1>11. PICK p \in Int, q \in Int, short \in Int :
         p = -y /\ q = -z /\ short = (x - y) + (g - z)
  OBVIOUS
<1>12. PICK after \in Int : after = call.balance - y - z
  BY <1>3
<1>13. PICK l \in Seq(LedgerRow) : l = ledger
  BY DEF DepositIInv, Typed
<1>14. PICK r, s : r = Row("DEPOSIT", p, after, d) /\ s = Row("BONUS_CONVERT", q, after, d)
  OBVIOUS
<1>15. /\ r \in LedgerRow /\ s \in LedgerRow /\ r.ref = d /\ s.ref = d
       /\ r.amount = p /\ s.amount = q
       /\ \A e : ~IsGrant(r, e) /\ ~IsGrant(s, e)
  BY <1>14 DEF Row, LedgerRow, IsGrant
<1>16. PICK k : k = l \o <<r>> \o (IF z > 0 THEN <<s>> ELSE <<>>)
  OBVIOUS
<1>17. ledger' = k
  BY <1>1, <1>5, <1>10, <1>11, <1>12, <1>13, <1>14, <1>16 DEF CommitReversal, ReclaimedReal
<1>18. s.ref = r.ref /\ s.amount \in {z, -z} /\ Joined(l, k, r, s, z)
  BY <1>11, <1>15, <1>16 DEF Joined
<1>19. /\ Grows(l, k, r.ref, r.amount + s.amount)
       /\ \A e, h : ~IsGrant(r, e) /\ ~IsGrant(s, e) /\ GrantIs(l, e, h) => GrantIs(k, e, h)
  BY <1>15, <1>18, BookingGrows
<1>20. /\ account' = Moved(account, p, q) /\ cumulative' = cumulative - x
       /\ reversing' = [reversing EXCEPT ![v] = NoReversal] /\ UNCHANGED crediting
  BY <1>1, <1>8, <1>10, <1>11 DEF CommitReversal, ReclaimedReal, CumulativeLoss
<1>21. account.real + p >= 0 /\ account.bonus + q >= 0
  <2>1. PICK m \in Int, n \in Int : m = account.real /\ n = account.bonus
    BY DEF DepositIInv, Typed, AccountRecord
  <2>2. y <= m /\ z <= n
    BY <1>10, <2>1
  <2>3. m + p >= 0 /\ n + q >= 0
    BY ONLY <1>11, <2>2, y \in Nat, z \in Nat, m \in Int, n \in Int
  <2>4. QED
    BY <2>1, <2>3
<1>22. Booked(d, p, q)
  BY <1>13, <1>15, <1>17, <1>19, <1>20, <1>21 DEF Booked
<1>23. PICK back : back = [row EXCEPT !.status = "REJECTED", !.matched = None]
  OBVIOUS
<1>24. PICK kept : kept = [row EXCEPT !.status = "REJECTED"]
  OBVIOUS
<1>25. PICK new : new = [(IF call.requeue THEN back ELSE kept) EXCEPT !.shortfall = short]
  OBVIOUS
<1>26. new.status = "REJECTED" /\ new.amount = row.amount /\ new.shortfall = short
  <2>1. /\ back \in DepositRow /\ back.status = "REJECTED" /\ back.amount = row.amount
        /\ kept \in DepositRow /\ kept.status = "REJECTED" /\ kept.amount = row.amount
    BY <1>6, <1>23, <1>24 DEF DepositRow
  <2>2. PICK base \in DepositRow : base = IF call.requeue THEN back ELSE kept
    BY <2>1
  <2>3. base.status = "REJECTED" /\ base.amount = row.amount
    BY <2>1, <2>2
  <2>4. new = [base EXCEPT !.shortfall = short]
    BY <1>25, <2>2
  <2>5. QED
    BY <2>2, <2>3, <2>4 DEF DepositRow
<1>27. deposit' = [deposit EXCEPT ![d] = new]
  BY <1>1, <1>5, <1>6, <1>8, <1>9, <1>10, <1>11, <1>23, <1>24, <1>25
     DEF CommitReversal, ReclaimedReal, Requeued
<1>28. deposit'[d] = new /\ \A e \in Deposits : e # d => deposit'[e] = deposit[e]
  BY <1>27 DEF DepositIInv, Typed
<1>29. ReversalBooks(v, d, x, g, y, z)
  BY <1>6, <1>7, <1>8, <1>9, <1>11, <1>13, <1>15, <1>17, <1>19, <1>20, <1>22, <1>26, <1>28
     DEF ReversalBooks
<1>30. QED
  BY <1>29

LEMMA CommitReversalSums ==
  ASSUME DepositIInv, SumInv, NEW v \in Reversals, CommitReversal(v)
  PROVE  SumInv'
<1>1. PICK d \in Deposits, x, g, y, z \in Nat : ReversalBooks(v, d, x, g, y, z)
  BY CommitReversalBooks
<1>2. PICK p \in Int, q \in Int : p = -y /\ q = -z
  OBVIOUS
<1>3. /\ Booked(d, p, q)
      /\ \A e, h : GrantIs(ledger, e, h) => GrantIs(ledger', e, h)
      /\ deposit[d].status = "COMPLETED" /\ deposit[d].credited = x
      /\ OfDeposit(ledger, d) = x + g
      /\ deposit'[d].status = "REJECTED" /\ deposit'[d].amount = deposit[d].amount
      /\ deposit'[d].shortfall = (x - y) + (g - z)
      /\ \A e \in Deposits : e # d => deposit'[e] = deposit[e]
      /\ cumulative' = cumulative - x
      /\ reversing' = [reversing EXCEPT ![v] = NoReversal]
      /\ UNCHANGED crediting
  BY <1>1, <1>2 DEF ReversalBooks
<1>4. BalanceSum' /\ account'.currency = account.currency
  BY <1>3, BookedBalance
<1>5. CreditSums'
  BY <1>3, <1>4 DEF SumInv, CreditSums
<1>6. CumulativeMatches'
  <2>1. PICK S \in SUBSET Deposits : S = Completed
    BY DEF Completed
  <2>2. PICK R : R = S \ {d} /\ R = Completed' /\ d \in S
    BY <1>3, <2>1 DEF Completed
  <2>3. IsFiniteSet(S) /\ IsFiniteSet(R)
    BY <2>2, FS_Subset
  <2>4. PICK f, h : f = [e \in Deposits |-> deposit[e].credited]
                    /\ h = [e \in Deposits |-> deposit'[e].credited]
    OBVIOUS
  <2>5. Numbers(f, S) /\ Numbers(f, R) /\ Agree(f, h, R) /\ f[d] = x
    BY <1>3, <2>2, <2>4 DEF Numbers, Agree, DepositIInv, Typed, DepositRow
  <2>6. PICK t \in Int : t = SumFunctionOnSet(f, R)
    BY <2>3, <2>5, SumInt
  <2>7. SumFunctionOnSet(f, S) = x + t
    <3>1. SumFunctionOnSet(f, S) = f[d] + SumFunctionOnSet(f, S \ {d})
      BY <2>2, <2>3, <2>5, SumTakes
    <3>2. QED
      BY <2>2, <2>5, <2>6, <3>1
  <2>8. SumFunctionOnSet(h, R) = t
    BY <2>3, <2>5, <2>6, SumOfSame
  <2>9. cumulative = x + t
    BY <2>1, <2>4, <2>7 DEF SumInv, CumulativeMatches
  <2>10. cumulative' = t
    BY <1>3, <2>6, <2>9
  <2>11. QED
    BY <2>2, <2>4, <2>8, <2>10 DEF CumulativeMatches
<1>7. DepositSums'
  <2>1. DepositSum(ledger', d, deposit'[d], account'.currency)
    <3>1. OfDeposit(ledger', d) = (x + g) + (p + q)
      BY <1>3 DEF Booked, Grows
    <3>2. (x + g) + (p + q) = (x - y) + (g - z)
      BY <1>2
    <3>3. QED
      BY <1>3, <3>1, <3>2 DEF DepositSum, NotCredited, Live
  <2>2. QED
    BY <1>3, <2>1, BookedOthers DEF DepositSums
<1>8. ReversalSums'
  <2>1. ASSUME NEW w \in Reversals, reversing[w] # NoReversal
        PROVE  ReversalSum(reversing[w], account', ledger', deposit'[reversing[w].deposit])
    <3>1. PICK e \in Deposits : e = reversing[w].deposit
      BY <2>1, ReversalKinds DEF DepositIInv, Typed, NoReversal
    <3>2. deposit'[e].amount = deposit[e].amount
      BY <1>3, <3>1
    <3>3. \A h : GrantIs(ledger, e, h) => GrantIs(ledger', e, h)
      BY <1>3
    <3>4. QED
      BY <1>3, <2>1, <3>1, <3>2, <3>3, BookedReversals
  <2>2. \A w \in Reversals : reversing'[w] = reversing[w] \/ reversing'[w] = NoReversal
    BY <1>3 DEF DepositIInv, Typed
  <2>3. QED
    BY <2>1, <2>2 DEF ReversalSums
<1>9. QED
  BY <1>4, <1>5, <1>6, <1>7, <1>8 DEF SumInv

----------------------------------------------------------------------------
LEMMA SumInitial == Init => SumInv
<1>1. SUFFICES ASSUME Init PROVE SumInv
  OBVIOUS
<1>2. /\ account = [real |-> InitialReal, bonus |-> InitialBonus,
                    version |-> 0, currency |-> InitialCurrency]
      /\ ledger = <<>> /\ cumulative = 0
      /\ deposit = [d \in Deposits |-> NoDeposit]
      /\ crediting = [c \in Credits |-> NoCredit] /\ reversing = [v \in Reversals |-> NoReversal]
  BY <1>1 DEF Init, AccountInit, DepositInit
<1>3. DOMAIN ledger = {} /\ \A d : RowsIn(ledger, d) = {}
  BY <1>2 DEF RowsIn
<1>4. BalanceSum
  <2>1. AllOf(ledger) = 0
    BY <1>3, SumEmpty DEF AllOf
  <2>2. QED
    BY <1>2, <2>1, OpeningAssumption DEF BalanceSum, NoOverdraft, Balance, OpeningBalance
<1>5. CumulativeMatches
  <2>1. Completed = {}
    BY <1>2 DEF Completed, NoDeposit
  <2>2. QED
    BY <1>2, <2>1, SumEmpty DEF CumulativeMatches
<1>6. DepositSums
  BY <1>2, <1>3 DEF DepositSums, DepositSum, NoDeposit
<1>7. CreditSums /\ ReversalSums
  BY <1>2 DEF CreditSums, ReversalSums
<1>8. QED
  BY <1>4, <1>5, <1>6, <1>7 DEF SumInv

LEMMA SumStep == DepositIInv /\ SumInv /\ [Next]_vars => SumInv'
<1>1. SUFFICES ASSUME DepositIInv, SumInv, [Next]_vars PROVE SumInv'
  OBVIOUS
<1>2. ASSUME NEW d \in Deposits,
             ClaimUtr(d) \/ RejectDeposit(d) \/ Expire(d) \/ \E a \in Amounts : CreateDeposit(d, a)
      PROVE  SumInv'
  <2>1. /\ {"AWAITING_PAYMENT"} \in SUBSET Live /\ Live \in SUBSET Live
        /\ {"PENDING_CONFIRMATION", "EXPIRED", "REJECTED"} \subseteq NotCredited \cup {"REJECTED"}
    BY DEF Live, NotCredited
  <2>2. CASE ClaimUtr(d)
    BY <1>1, <2>1, <2>2, SetDepositStatusSums DEF ClaimUtr
  <2>3. CASE RejectDeposit(d)
    BY <1>1, <2>1, <2>3, SetDepositStatusSums DEF RejectDeposit
  <2>4. CASE Expire(d)
    BY <1>1, <2>1, <2>4, SetDepositStatusSums DEF Expire
  <2>5. QED
    BY <1>1, <1>2, <2>2, <2>3, <2>4, CreateDepositSums
<1>3. ASSUME UNCHANGED <<account, ledger, deposit, cumulative, crediting, reversing>>
      PROVE  SumInv'
  BY <1>1, <1>3, CallsMove DEF SumInv, CreditSums, ReversalSums
<1>4. ASSUME NEW p \in Payments,
             \/ DismissChainCredit(p)
             \/ \E a \in Amounts : Arrive(p, a)
             \/ \E s \in Reviewable : SendToReview(p, s)
      PROVE  SumInv'
  BY <1>3, <1>4 DEF DismissChainCredit, Arrive, SendToReview, accountVars
<1>5. ASSUME NEW c \in Credits, CreditStep(c)
      PROVE  SumInv'
  BY <1>1, <1>5, CreditCallSums, CommitCreditSums
<1>6. ASSUME NEW v \in Reversals, ReversalStep(v)
      PROVE  SumInv'
  BY <1>1, <1>6, BeginReversalSums, ReadFreshSums, ClaimReversalSums, CommitReversalSums,
     AbortReversalSums DEF ReversalStep
<1>7. CASE UNCHANGED vars
  BY <1>3, <1>7 DEF vars, accountVars, depositVars
<1>8. QED
  BY <1>1, <1>2, <1>4, <1>5, <1>6, <1>7, SpendSums DEF Next, DepositNext

LEMMA SpecSums == Spec => [](DepositIInv /\ SumInv)
<1>1. Init => DepositIInv /\ SumInv
  BY DepositInitial, SumInitial
<1>2. DepositIInv /\ SumInv /\ [Next]_vars => (DepositIInv /\ SumInv)'
  BY DepositStep, SumStep
<1>3. QED
  BY <1>1, <1>2, PTL DEF Spec

(* Credits, reversals and stakes that overlap never overdraw the account: a *)
(* reversal takes back what it found there, and commits only if the version *)
(* says that it is still there (performDepositReversal, deposit.ts).        *)
THEOREM DepositsNeverOverdraw == Spec => []NoOverdraft
<1>1. SumInv => NoOverdraft
  BY DEF SumInv, BalanceSum
<1>2. QED
  BY <1>1, SpecSums, PTL

(* The running total of the user is the sum over the completed deposits,    *)
(* however credits and reversals interleave: what a reversal subtracts is   *)
(* what the credit added (User.cumulativeDeposits, deposit.ts).             *)
THEOREM CumulativeIsTheSum == Spec => []CumulativeMatches
<1>1. SumInv => CumulativeMatches
  BY DEF SumInv
<1>2. QED
  BY <1>1, SpecSums, PTL

(* The rows of a reversed deposit cancel out but for the shortfall that the *)
(* reversal recorded (performDepositReversal, deposit.ts).                  *)
THEOREM ReversalTakesAllBack == Spec => []ReversalTakesBack
<1>1. SumInv => ReversalTakesBack
  BY DEF SumInv, DepositSums, DepositSum, ReversalTakesBack, OfDeposit, AmountsOf, RowsIn,
     RowAmounts, RowsFor
<1>2. QED
  BY <1>1, SpecSums, PTL

(* The ledger adds up to the balance, row by row and in the last row shown. *)
THEOREM LedgerAddsUp == Spec => []LedgerAgrees
<1>1. DepositIInv /\ SumInv => LedgerAgrees
  <2>1. SumFunction(RowAmounts) = AllOf(ledger)
    BY DEF SumFunction, RowAmounts, AllOf, AmountsOf
  <2>2. QED
    BY <2>1 DEF SumInv, BalanceSum, DepositIInv, LedgerAgrees
<1>2. QED
  BY <1>1, SpecSums, PTL
============================================================================

----------------------------- MODULE RulesProofs -----------------------------
(***************************************************************************)
(* The rules that Always Allow saves for a command: the parts into which    *)
(* they are split cover it, and its danger is told.  For any command of     *)
(* any length and any tool.                                                *)
(***************************************************************************)
EXTENDS PermissionRules, FiniteSetTheorems, SequenceTheorems, WellFoundedInduction, TLAPS

(* The rules of a command.  Every helper of PermissionRules that walks over a text is *)
(* a recursive function: the first lemmas give what each step of it does, the next    *)
(* what a shift, a trim or one symbol more changes, and the invariant of the scan     *)
(* then says that its parts are whole.                                                *)

\* Induction, over a set of numbers.
LEMMA SetInduction ==
  ASSUME NEW S, 0 \in S, \A n \in Nat : n \in S => n + 1 \in S
  PROVE  Nat \subseteq S
<1> DEFINE R == OpToRel(<, Nat)
           T == Nat \ S
<1>1. IsWellFoundedOn(R, Nat)
  BY NatLessThanWellFounded
<1>2. \A x, y \in Nat : <<x, y>> \in R <=> x < y
  BY DEF OpToRel
<1> HIDE DEF R
<1>3. SUFFICES ASSUME T # {} PROVE FALSE
  OBVIOUS
<1>4. PICK x \in T : \A y \in T : ~(<<y, x>> \in R)
  BY <1>1, <1>3, WFMin
<1>5. x \in Nat /\ x # 0 /\ x - 1 \in Nat
  OBVIOUS
<1>6. <<x - 1, x>> \in R
  BY <1>2, <1>5
<1>7. x - 1 \in S
  BY <1>4, <1>5, <1>6
<1> QED BY <1>5, <1>7

\* Induction on the steps of a walk over a text.
LEMMA WalkInduction ==
  ASSUME NEW n \in Nat, NEW S, 0 \in S,
         \A i \in 0..n : i < n /\ i \in S => i + 1 \in S
  PROVE  \A i \in 0..n : i \in S
<1> DEFINE T == {i \in Nat : i <= n => i \in S}
<1>1. 0 \in T /\ \A i \in Nat : i \in T => i + 1 \in T
  OBVIOUS
<1>2. Nat \subseteq T
  <2> HIDE DEF T
  <2> QED BY <1>1, SetInduction
<1> QED BY <1>2

\* The values of a walk of n steps.
Walks(f, n, start, G) == f[0] = start /\ \A i \in 1..n : f[i] = G[i][f[i - 1]]

\* A walk exists when each of its steps is a function of the value before.
LEMMA WalkExists ==
  ASSUME NEW n \in Nat, NEW V, NEW start \in V, NEW G \in [1..n -> [V -> V]]
  PROVE  \E f \in [0..n -> V] : Walks(f, n, start, G)
<1> DEFINE Walk(f, m) == /\ f \in [0..m -> V]
                         /\ f[0] = start
                         /\ \A i \in 1..m : f[i] = G[i][f[i - 1]]
           S == {m \in 0..n : \E f : Walk(f, m)}
<1>1. 0 \in S
  <2>1. Walk([i \in 0..0 |-> start], 0)
    OBVIOUS
  <2> HIDE DEF Walk
  <2> QED BY <2>1
<1>2. ASSUME NEW m \in 0..n, m < n, m \in S PROVE m + 1 \in S
  <2>1. PICK f : Walk(f, m)
    BY <1>2
  <2>2. f[m] \in V /\ m + 1 \in 1..n
    BY <1>2, <2>1
  <2>3. G[m + 1][f[m]] \in V
    BY <2>2
  <2> DEFINE last == G[m + 1][f[m]]
             g == [i \in 0..(m + 1) |-> IF i <= m THEN f[i] ELSE last]
  <2> HIDE DEF last
  <2>4. g \in [0..(m + 1) -> V] /\ g[0] = start
    BY <1>2, <2>1, <2>3 DEF last
  <2>5. ASSUME NEW i \in 1..(m + 1) PROVE g[i] = G[i][g[i - 1]]
    <3>1. CASE i <= m
      BY <2>1, <3>1
    <3>2. CASE i = m + 1
      <4>1. g[i] = last /\ g[i - 1] = f[m]
        BY <1>2, <3>2
      <4> QED BY <3>2, <4>1 DEF last
    <3> QED BY <3>1, <3>2
  <2>6. Walk(g, m + 1)
    <3> HIDE DEF g
    <3> QED BY <2>4, <2>5
  <2> HIDE DEF g, Walk
  <2> QED BY <2>2, <2>6
<1>3. \A m \in 0..n : m < n /\ m \in S => m + 1 \in S
  BY <1>2
<1>4. n \in S
  <2> HIDE DEF S
  <2>1. \A m \in 0..n : m \in S
    BY <1>1, <1>3, WalkInduction
  <2> QED BY <2>1
<1> QED BY <1>4 DEF Walks

\* What holds at the start of a walk and after each step holds of all its values.
LEMMA WalkStays ==
  ASSUME NEW n \in Nat, NEW V, NEW f, f[0] \in V,
         \A i \in 1..n : f[i - 1] \in V => f[i] \in V
  PROVE  \A i \in 0..n : f[i] \in V
<1> DEFINE S == {i \in 0..n : f[i] \in V}
<1>1. 0 \in S
  OBVIOUS
<1>2. \A i \in 0..n : i < n /\ i \in S => i + 1 \in S
  OBVIOUS
<1> HIDE DEF S
<1>3. \A i \in 0..n : i \in S
  BY <1>1, <1>2, WalkInduction
<1> QED BY <1>3 DEF S

Texts == Seq(Symbols)
QuoteStates == [quote : {"none", "dq", "sq"}, escaped : BOOLEAN]

\* One symbol leads from a state of the quotes to another.
LEMMA NextQuotingState ==
  ASSUME NEW q \in QuoteStates, NEW s
  PROVE  NextQuoting(q, s) \in QuoteStates
<1>1. Plain \in QuoteStates
  BY DEF Plain, QuoteStates
<1>2. CASE q.escaped
  BY <1>2 DEF NextQuoting, QuoteStates
<1>3. CASE ~q.escaped /\ s = "esc" /\ q.quote # "sq"
  BY <1>3 DEF NextQuoting, QuoteStates
<1>4. CASE ~q.escaped /\ s \in {"dq", "sq"}
  BY <1>1, <1>4 DEF NextQuoting, QuoteStates
<1>5. CASE ~q.escaped /\ s \notin {"dq", "sq"} /\ ~(s = "esc" /\ q.quote # "sq")
  BY <1>5 DEF NextQuoting
<1> QED BY <1>2, <1>3, <1>4, <1>5

\* The recursion of Quoting.
LEMMA QuotingWalks ==
  ASSUME NEW cmd \in Texts
  PROVE  /\ Quoting(cmd) \in [0..Len(cmd) -> QuoteStates]
         /\ Quoting(cmd)[0] = Plain
         /\ \A i \in 1..Len(cmd) :
              Quoting(cmd)[i] = NextQuoting(Quoting(cmd)[i - 1], cmd[i])
<1> DEFINE n == Len(cmd)
<1>1. n \in Nat /\ Plain \in QuoteStates
  BY DEF Texts, Plain, QuoteStates
<1> HIDE DEF n
<1>2. ASSUME NEW i \in 1..n, NEW x \in QuoteStates PROVE NextQuoting(x, cmd[i]) \in QuoteStates
  BY NextQuotingState
<1> DEFINE G == [i \in 1..n |-> [x \in QuoteStates |-> NextQuoting(x, cmd[i])]]
<1>3. G \in [1..n -> [QuoteStates -> QuoteStates]]
  BY <1>2
<1>4. \A i \in 1..n, x \in QuoteStates : G[i][x] = NextQuoting(x, cmd[i])
  OBVIOUS
<1> HIDE DEF G
<1>5. PICK f \in [0..n -> QuoteStates] : Walks(f, n, Plain, G)
  BY <1>1, <1>3, WalkExists
<1>6. ASSUME NEW i \in 1..n PROVE f[i] = NextQuoting(f[i - 1], cmd[i])
  <2>1. f[i - 1] \in QuoteStates
    BY <1>1
  <2>2. f[i] = G[i][f[i - 1]]
    BY <1>5 DEF Walks
  <2> QED BY <1>4, <2>1, <2>2
<1> DEFINE Walk(g) == g = [i \in 0..n |-> IF i = 0 THEN Plain ELSE NextQuoting(g[i - 1], cmd[i])]
           Q == CHOOSE g : Walk(g)
<1>7. Walk(f)
  <2>1. ASSUME NEW i \in 0..n PROVE f[i] = IF i = 0 THEN Plain ELSE NextQuoting(f[i - 1], cmd[i])
    <3>1. CASE i = 0
      BY <1>5, <3>1 DEF Walks
    <3>2. CASE i # 0
      <4>1. f[i] = NextQuoting(f[i - 1], cmd[i])
        BY <1>1, <1>6, <3>2
      <4> QED BY <3>2, <4>1
    <3> QED BY <3>1, <3>2
  <2> QED BY <2>1
<1>8. Walk(Q)
  <2> HIDE DEF Walk
  <2> QED BY <1>7
<1>9. Quoting(cmd) = Q
  BY DEF Quoting, n
<1> HIDE DEF Q
<1>10. Q = [i \in 0..n |-> IF i = 0 THEN Plain ELSE NextQuoting(Q[i - 1], cmd[i])]
  BY <1>8
<1> HIDE DEF Walk
<1>11. Q[0] = Plain
  BY <1>1, <1>10
<1>12. ASSUME NEW i \in 1..n PROVE Q[i] = NextQuoting(Q[i - 1], cmd[i])
  BY <1>1, <1>10
<1>13. DOMAIN Q = 0..n /\ Q = [i \in 0..n |-> Q[i]]
  BY <1>10
<1>14. \A i \in 1..n : Q[i - 1] \in QuoteStates => Q[i] \in QuoteStates
  BY <1>2, <1>12
<1>15. \A i \in 0..n : Q[i] \in QuoteStates
  BY <1>1, <1>11, <1>14, WalkStays
<1>16. Q \in [0..n -> QuoteStates]
  BY <1>13, <1>15
<1> QED BY <1>9, <1>11, <1>12, <1>16 DEF n

\* The recursion of Quoting.
LEMMA QuotingWalk ==
  ASSUME NEW cmd \in Texts
  PROVE  \E c \in [0..Len(cmd) -> QuoteStates] :
            /\ Quoting(cmd) = c
            /\ c[0] = Plain
            /\ \A i \in 1..Len(cmd) : c[i] = NextQuoting(c[i - 1], cmd[i])
<1> DEFINE n == Len(cmd)
<1>1. n \in Nat /\ Plain \in QuoteStates
  BY DEF Texts, Plain, QuoteStates
<1> HIDE DEF n
<1>2. ASSUME NEW i \in 1..n, NEW x \in QuoteStates PROVE NextQuoting(x, cmd[i]) \in QuoteStates
  BY NextQuotingState
<1> DEFINE G == [i \in 1..n |-> [x \in QuoteStates |-> NextQuoting(x, cmd[i])]]
<1>3. G \in [1..n -> [QuoteStates -> QuoteStates]]
  BY <1>2
<1>4. \A i \in 1..n, x \in QuoteStates : G[i][x] = NextQuoting(x, cmd[i])
  OBVIOUS
<1> HIDE DEF G
<1>5. PICK f \in [0..n -> QuoteStates] : Walks(f, n, Plain, G)
  BY <1>1, <1>3, WalkExists
<1>6. ASSUME NEW i \in 1..n PROVE f[i] = NextQuoting(f[i - 1], cmd[i])
  <2>1. f[i - 1] \in QuoteStates
    BY <1>1
  <2>2. f[i] = G[i][f[i - 1]]
    BY <1>5 DEF Walks
  <2> QED BY <1>4, <2>1, <2>2
<1> DEFINE Walk(g) == g = [i \in 0..n |-> IF i = 0 THEN Plain ELSE NextQuoting(g[i - 1], cmd[i])]
           Q == CHOOSE g : Walk(g)
<1>7. Walk(f)
  <2>1. ASSUME NEW i \in 0..n PROVE f[i] = IF i = 0 THEN Plain ELSE NextQuoting(f[i - 1], cmd[i])
    <3>1. CASE i = 0
      BY <1>5, <3>1 DEF Walks
    <3>2. CASE i # 0
      <4>1. f[i] = NextQuoting(f[i - 1], cmd[i])
        BY <1>1, <1>6, <3>2
      <4> QED BY <3>2, <4>1
    <3> QED BY <3>1, <3>2
  <2> QED BY <2>1
<1>8. Walk(Q)
  <2> HIDE DEF Walk
  <2> QED BY <1>7
<1>9. Quoting(cmd) = Q
  BY DEF Quoting, n
<1> HIDE DEF Q
<1>10. Q = [i \in 0..n |-> IF i = 0 THEN Plain ELSE NextQuoting(Q[i - 1], cmd[i])]
  BY <1>8
<1> HIDE DEF Walk
<1>11. Q[0] = Plain
  BY <1>1, <1>10
<1>12. ASSUME NEW i \in 1..n PROVE Q[i] = NextQuoting(Q[i - 1], cmd[i])
  BY <1>1, <1>10
<1>13. DOMAIN Q = 0..n /\ Q = [i \in 0..n |-> Q[i]]
  BY <1>10
<1>14. \A i \in 1..n : Q[i - 1] \in QuoteStates => Q[i] \in QuoteStates
  BY <1>2, <1>12
<1>15. \A i \in 0..n : Q[i] \in QuoteStates
  BY <1>1, <1>11, <1>14, WalkStays
<1>16. Q \in [0..n -> QuoteStates]
  BY <1>13, <1>15
<1> QED BY <1>9, <1>11, <1>12, <1>16 DEF n

\* One step of Content: blanks and operators are left out.
KeptWord(c, s) == IF s \in {"blank", "bar", "and", "semi"} THEN c ELSE Append(c, s)

\* The recursion of Content.
LEMMA ContentWalks ==
  ASSUME NEW cmd \in Texts
  PROVE  \E c \in [0..Len(cmd) -> Texts] :
            /\ Content(cmd) = c[Len(cmd)]
            /\ c[0] = <<>>
            /\ \A i \in 1..Len(cmd) : c[i] = KeptWord(c[i - 1], cmd[i])
<1> DEFINE n == Len(cmd)
<1>1. n \in Nat /\ <<>> \in Texts
  BY DEF Texts
<1> HIDE DEF n
<1>2. ASSUME NEW i \in 1..n, NEW x \in Texts PROVE KeptWord(x, cmd[i]) \in Texts
  <2>1. cmd[i] \in Symbols
    BY <1>1 DEF n, Texts
  <2>2. Append(x, cmd[i]) \in Texts
    BY <2>1 DEF Texts
  <2> QED BY <2>2 DEF KeptWord
<1> DEFINE G == [i \in 1..n |-> [x \in Texts |-> KeptWord(x, cmd[i])]]
<1>3. G \in [1..n -> [Texts -> Texts]]
  BY <1>2
<1>4. \A i \in 1..n, x \in Texts : G[i][x] = KeptWord(x, cmd[i])
  OBVIOUS
<1> HIDE DEF G
<1>5. PICK f \in [0..n -> Texts] : Walks(f, n, <<>>, G)
  BY <1>1, <1>3, WalkExists
<1>6. ASSUME NEW i \in 1..n PROVE f[i] = KeptWord(f[i - 1], cmd[i])
  <2>1. f[i - 1] \in Texts
    BY <1>1
  <2>2. f[i] = G[i][f[i - 1]]
    BY <1>5 DEF Walks
  <2> QED BY <1>4, <2>1, <2>2
<1> DEFINE Walk(g) ==
             g = [i \in 0..n |->
                    IF i = 0 THEN <<>>
                    ELSE IF cmd[i] \in {"blank", "bar", "and", "semi"} THEN g[i - 1]
                    ELSE Append(g[i - 1], cmd[i])]
           Q == CHOOSE g : Walk(g)
<1>7. Walk(f)
  <2>1. ASSUME NEW i \in 0..n
        PROVE  f[i] = IF i = 0 THEN <<>>
                      ELSE IF cmd[i] \in {"blank", "bar", "and", "semi"} THEN f[i - 1]
                      ELSE Append(f[i - 1], cmd[i])
    <3>1. CASE i = 0
      BY <1>5, <3>1 DEF Walks
    <3>2. CASE i # 0
      <4>1. f[i] = KeptWord(f[i - 1], cmd[i])
        BY <1>1, <1>6, <3>2
      <4> QED BY <3>2, <4>1 DEF KeptWord
    <3> QED BY <3>1, <3>2
  <2> QED BY <2>1
<1>8. Walk(Q)
  <2> HIDE DEF Walk
  <2> QED BY <1>7
<1>9. Content(cmd) = Q[n]
  BY DEF Content, n
<1> HIDE DEF Q
<1>10. Q = [i \in 0..n |-> IF i = 0 THEN <<>> ELSE KeptWord(Q[i - 1], cmd[i])]
  BY <1>8 DEF KeptWord
<1> HIDE DEF Walk
<1>11. Q[0] = <<>>
  BY <1>1, <1>10
<1>12. ASSUME NEW i \in 1..n PROVE Q[i] = KeptWord(Q[i - 1], cmd[i])
  BY <1>1, <1>10
<1>13. DOMAIN Q = 0..n /\ Q = [i \in 0..n |-> Q[i]]
  BY <1>10
<1>14. \A i \in 1..n : Q[i - 1] \in Texts => Q[i] \in Texts
  BY <1>2, <1>12
<1>15. \A i \in 0..n : Q[i] \in Texts
  BY <1>1, <1>11, <1>14, WalkStays
<1>16. Q \in [0..n -> Texts]
  BY <1>13, <1>15
<1> QED BY <1>9, <1>11, <1>12, <1>16 DEF n

\* The words and quotes of a text are a text.
LEMMA ContentIsText ==
  ASSUME NEW cmd \in Texts
  PROVE  Content(cmd) \in Texts
<1>1. Len(cmd) \in Nat
  BY DEF Texts
<1> QED BY <1>1, ContentWalks

\* The recursion of Contents.
LEMMA ContentsWalks ==
  ASSUME NEW parts \in Seq(Texts)
  PROVE  \E c \in [0..Len(parts) -> Texts] :
            /\ Contents(parts) = c[Len(parts)]
            /\ c[0] = <<>>
            /\ \A i \in 1..Len(parts) : c[i] = c[i - 1] \o Content(parts[i])
<1> DEFINE n == Len(parts)
<1>1. n \in Nat /\ <<>> \in Texts
  BY DEF Texts
<1> HIDE DEF n
<1>2. ASSUME NEW i \in 1..n, NEW x \in Texts PROVE x \o Content(parts[i]) \in Texts
  <2>1. parts[i] \in Texts
    BY <1>1 DEF n
  <2>2. Content(parts[i]) \in Texts
    BY <2>1, ContentIsText
  <2> QED BY <2>2 DEF Texts
<1> DEFINE G == [i \in 1..n |-> [x \in Texts |-> x \o Content(parts[i])]]
<1>3. G \in [1..n -> [Texts -> Texts]]
  BY <1>2
<1>4. \A i \in 1..n, x \in Texts : G[i][x] = x \o Content(parts[i])
  OBVIOUS
<1> HIDE DEF G
<1>5. PICK f \in [0..n -> Texts] : Walks(f, n, <<>>, G)
  BY <1>1, <1>3, WalkExists
<1>6. ASSUME NEW i \in 1..n PROVE f[i] = f[i - 1] \o Content(parts[i])
  <2>1. f[i - 1] \in Texts
    BY <1>1
  <2>2. f[i] = G[i][f[i - 1]]
    BY <1>5 DEF Walks
  <2> QED BY <1>4, <2>1, <2>2
<1> DEFINE Walk(g) == g = [i \in 0..n |-> IF i = 0 THEN <<>> ELSE g[i - 1] \o Content(parts[i])]
           Q == CHOOSE g : Walk(g)
<1>7. Walk(f)
  <2>1. ASSUME NEW i \in 0..n PROVE f[i] = IF i = 0 THEN <<>> ELSE f[i - 1] \o Content(parts[i])
    <3>1. CASE i = 0
      BY <1>5, <3>1 DEF Walks
    <3>2. CASE i # 0
      <4>1. f[i] = f[i - 1] \o Content(parts[i])
        BY <1>1, <1>6, <3>2
      <4> QED BY <3>2, <4>1
    <3> QED BY <3>1, <3>2
  <2> QED BY <2>1
<1>8. Walk(Q)
  <2> HIDE DEF Walk
  <2> QED BY <1>7
<1>9. Contents(parts) = Q[n]
  BY DEF Contents, n
<1> HIDE DEF Q
<1>10. Q = [i \in 0..n |-> IF i = 0 THEN <<>> ELSE Q[i - 1] \o Content(parts[i])]
  BY <1>8
<1> HIDE DEF Walk
<1>11. Q[0] = <<>>
  BY <1>1, <1>10
<1>12. ASSUME NEW i \in 1..n PROVE Q[i] = Q[i - 1] \o Content(parts[i])
  BY <1>1, <1>10
<1>13. DOMAIN Q = 0..n /\ Q = [i \in 0..n |-> Q[i]]
  BY <1>10
<1>14. \A i \in 1..n : Q[i - 1] \in Texts => Q[i] \in Texts
  BY <1>2, <1>12
<1>15. \A i \in 0..n : Q[i] \in Texts
  BY <1>1, <1>11, <1>14, WalkStays
<1>16. Q \in [0..n -> Texts]
  BY <1>13, <1>15
<1> QED BY <1>9, <1>11, <1>12, <1>16 DEF n

\* The smallest and the greatest of a finite set of numbers.
LEMMA MinOf ==
  ASSUME NEW n \in Nat, NEW S \in SUBSET (0..n), S # {}
  PROVE  Min(S) \in S /\ \A j \in S : Min(S) <= j
<1> DEFINE T == {m \in 0..n : (\E j \in S : j <= m) => \E i \in S : \A j \in S : i <= j}
<1>1. 0 \in T
  OBVIOUS
<1>2. ASSUME NEW m \in 0..n, m < n, m \in T PROVE m + 1 \in T
  <2> SUFFICES ASSUME NEW k \in S, k <= m + 1, ~\E j \in S : j <= m
               PROVE  \E i \in S : \A j \in S : i <= j
    BY <1>2
  <2>1. k = m + 1 /\ \A j \in S : m + 1 <= j
    OBVIOUS
  <2> QED BY <2>1
<1>3. \A m \in 0..n : m < n /\ m \in T => m + 1 \in T
  <2> HIDE DEF T
  <2> QED BY <1>2
<1>4. n \in T
  <2> HIDE DEF T
  <2>1. \A m \in 0..n : m \in T
    BY <1>1, <1>3, WalkInduction
  <2> QED BY <2>1
<1>5. \E j \in S : j <= n
  <2>1. PICK j \in S : TRUE
    OBVIOUS
  <2>2. j <= n
    OBVIOUS
  <2> QED BY <2>2
<1>6. \E i \in S : \A j \in S : i <= j
  BY <1>4, <1>5
<1> QED BY <1>6 DEF Min

\* A bounded set of numbers has a greatest one.
LEMMA MaxOf ==
  ASSUME NEW n \in Nat, NEW S \in SUBSET (0..n), S # {}
  PROVE  Max(S) \in S /\ \A j \in S : j <= Max(S)
<1> DEFINE R == {n - j : j \in S}
<1>1. R \in SUBSET (0..n) /\ R # {}
  <2>1. \A j \in S : n - j \in 0..n
    OBVIOUS
  <2>2. R \subseteq 0..n
    BY <2>1
  <2> QED BY <2>2
<1>2. Min(R) \in R /\ \A j \in R : Min(R) <= j
  <2> HIDE DEF R
  <2> QED BY <1>1, MinOf
<1>3. PICK g \in S : Min(R) = n - g
  BY <1>2
<1>4. ASSUME NEW j \in S PROVE j <= g
  <2>1. n - j \in R
    OBVIOUS
  <2>2. n - g <= n - j
    BY <1>2, <1>3, <2>1
  <2> QED BY <2>2
<1>5. \E i \in S : \A j \in S : j <= i
  BY <1>4
<1> QED BY <1>5 DEF Max

\* A trimmed text is what lies between the first and the last symbol that is no blank.
Words(cmd) == {i \in DOMAIN cmd : cmd[i] # "blank"}

\* Trim keeps what lies from the first word to the last, and only blanks lie around it.
LEMMA TrimCuts ==
  ASSUME NEW cmd \in Texts
  PROVE  \/ Words(cmd) = {} /\ Trim(cmd) = <<>>
         \/ \E a, b \in 1..Len(cmd) :
              /\ a <= b /\ Trim(cmd) = SubSeq(cmd, a, b)
              /\ cmd[a] # "blank" /\ cmd[b] # "blank"
              /\ \A i \in 1..Len(cmd) : i < a \/ i > b => cmd[i] = "blank"
<1>1. Len(cmd) \in Nat /\ DOMAIN cmd = 1..Len(cmd)
  BY DEF Texts
<1>4. Words(cmd) \in SUBSET (0..Len(cmd))
  <2>1. \A i \in 1..Len(cmd) : i \in 0..Len(cmd)
    BY <1>1
  <2>2. Words(cmd) \subseteq 1..Len(cmd)
    BY <1>1 DEF Words
  <2> QED BY <2>1, <2>2
<1>2. CASE Words(cmd) = {}
  BY <1>2 DEF Words, Trim
<1>3. CASE Words(cmd) # {}
  <2>1. /\ Min(Words(cmd)) \in Words(cmd) /\ Max(Words(cmd)) \in Words(cmd)
        /\ \A j \in Words(cmd) : Min(Words(cmd)) <= j /\ j <= Max(Words(cmd))
    BY <1>1, <1>3, <1>4, MinOf, MaxOf
  <2>2. Trim(cmd) = SubSeq(cmd, Min(Words(cmd)), Max(Words(cmd)))
    BY <1>3 DEF Words, Trim
  <2>3. PICK a \in Words(cmd), b \in Words(cmd) :
          Trim(cmd) = SubSeq(cmd, a, b) /\ \A j \in Words(cmd) : a <= j /\ j <= b
    BY <2>1, <2>2
  <2>4. a \in 1..Len(cmd) /\ b \in 1..Len(cmd) /\ cmd[a] # "blank" /\ cmd[b] # "blank"
    BY <1>1 DEF Words
  <2>5. \A i \in 1..Len(cmd) : i < a \/ i > b => cmd[i] = "blank"
    <3> SUFFICES ASSUME NEW i \in 1..Len(cmd), i < a \/ i > b, cmd[i] # "blank" PROVE FALSE
      OBVIOUS
    <3>1. i \in Words(cmd)
      BY <1>1 DEF Words
    <3> QED BY <1>1, <2>3, <2>4, <3>1
  <2> QED BY <2>3, <2>4, <2>5
<1> QED BY <1>2, <1>3

\* A trimmed text is a text.
LEMMA TrimIsText ==
  ASSUME NEW cmd \in Texts
  PROVE  Trim(cmd) \in Texts
<1>1. CASE Trim(cmd) = <<>>
  BY <1>1 DEF Texts
<1>2. CASE \E a, b \in 1..Len(cmd) : Trim(cmd) = SubSeq(cmd, a, b)
  BY <1>2, SubSeqProperties DEF Texts
<1> QED BY <1>1, <1>2, TrimCuts

\* One step of TrimEach: parts of blanks alone are left out.
KeptPart(ps, p) == IF Trim(p) = <<>> THEN ps ELSE Append(ps, Trim(p))

\* The recursion of TrimEach.
LEMMA TrimmedWalks ==
  ASSUME NEW parts \in Seq(Texts)
  PROVE  \E c \in [0..Len(parts) -> Seq(Texts)] :
            /\ TrimEach(parts) = c[Len(parts)]
            /\ c[0] = <<>>
            /\ \A i \in 1..Len(parts) : c[i] = KeptPart(c[i - 1], parts[i])
<1> DEFINE n == Len(parts)
<1>1. n \in Nat /\ <<>> \in Seq(Texts)
  OBVIOUS
<1> HIDE DEF n
<1>2. ASSUME NEW i \in 1..n, NEW x \in Seq(Texts) PROVE KeptPart(x, parts[i]) \in Seq(Texts)
  <2>1. parts[i] \in Texts
    BY <1>1 DEF n
  <2>2. Trim(parts[i]) \in Texts
    BY <2>1, TrimIsText
  <2> QED BY <2>2 DEF KeptPart
<1> DEFINE G == [i \in 1..n |-> [x \in Seq(Texts) |-> KeptPart(x, parts[i])]]
<1>3. G \in [1..n -> [Seq(Texts) -> Seq(Texts)]]
  BY <1>2
<1>4. \A i \in 1..n, x \in Seq(Texts) : G[i][x] = KeptPart(x, parts[i])
  OBVIOUS
<1> HIDE DEF G
<1>5. PICK f \in [0..n -> Seq(Texts)] : Walks(f, n, <<>>, G)
  BY <1>1, <1>3, WalkExists
<1>6. ASSUME NEW i \in 1..n PROVE f[i] = KeptPart(f[i - 1], parts[i])
  <2>1. f[i - 1] \in Seq(Texts)
    BY <1>1
  <2>2. f[i] = G[i][f[i - 1]]
    BY <1>5 DEF Walks
  <2> QED BY <1>4, <2>1, <2>2
<1> DEFINE Walk(g) ==
             g = [i \in 0..n |->
                    IF i = 0 THEN <<>>
                    ELSE IF Trim(parts[i]) = <<>> THEN g[i - 1]
                    ELSE Append(g[i - 1], Trim(parts[i]))]
           Q == CHOOSE g : Walk(g)
<1>7. Walk(f)
  <2>1. ASSUME NEW i \in 0..n
        PROVE  f[i] = IF i = 0 THEN <<>>
                      ELSE IF Trim(parts[i]) = <<>> THEN f[i - 1]
                      ELSE Append(f[i - 1], Trim(parts[i]))
    <3>1. CASE i = 0
      BY <1>5, <3>1 DEF Walks
    <3>2. CASE i # 0
      <4>1. f[i] = KeptPart(f[i - 1], parts[i])
        BY <1>1, <1>6, <3>2
      <4> QED BY <3>2, <4>1 DEF KeptPart
    <3> QED BY <3>1, <3>2
  <2> QED BY <2>1
<1>8. Walk(Q)
  <2> HIDE DEF Walk
  <2> QED BY <1>7
<1>9. TrimEach(parts) = Q[n]
  BY DEF TrimEach, n
<1> HIDE DEF Q
<1>10. Q = [i \in 0..n |-> IF i = 0 THEN <<>> ELSE KeptPart(Q[i - 1], parts[i])]
  BY <1>8 DEF KeptPart
<1> HIDE DEF Walk
<1>11. Q[0] = <<>>
  BY <1>1, <1>10
<1>12. ASSUME NEW i \in 1..n PROVE Q[i] = KeptPart(Q[i - 1], parts[i])
  BY <1>1, <1>10
<1>13. DOMAIN Q = 0..n /\ Q = [i \in 0..n |-> Q[i]]
  BY <1>10
<1>14. \A i \in 1..n : Q[i - 1] \in Seq(Texts) => Q[i] \in Seq(Texts)
  BY <1>2, <1>12
<1>15. \A i \in 0..n : Q[i] \in Seq(Texts)
  BY <1>1, <1>11, <1>14, WalkStays
<1>16. Q \in [0..n -> Seq(Texts)]
  BY <1>13, <1>15
<1> QED BY <1>9, <1>11, <1>12, <1>16 DEF n

NormalRules(T) == {NormalizeRule(r) : r \in T}

\* The recursion of Merged.
LEMMA MergedWalks ==
  ASSUME NEW T, NEW new \in Seq(T)
  PROVE  \E c \in [0..Len(new) -> Seq(NormalRules(T))] :
            /\ Merged(<<>>, new) = c[Len(new)]
            /\ c[0] = <<>>
            /\ \A i \in 1..Len(new) : c[i] = MergeIntoAllow(c[i - 1], NormalizeRule(new[i]))
<1> DEFINE n == Len(new)
<1>1. n \in Nat /\ <<>> \in Seq(NormalRules(T))
  OBVIOUS
<1> HIDE DEF n
<1>2. ASSUME NEW i \in 1..n, NEW x \in Seq(NormalRules(T))
      PROVE  MergeIntoAllow(x, NormalizeRule(new[i])) \in Seq(NormalRules(T))
  <2>1. NormalizeRule(new[i]) \in NormalRules(T)
    BY <1>1 DEF n, NormalRules
  <2> QED BY <2>1 DEF MergeIntoAllow
<1> DEFINE G == [i \in 1..n |->
                   [x \in Seq(NormalRules(T)) |-> MergeIntoAllow(x, NormalizeRule(new[i]))]]
<1>3. G \in [1..n -> [Seq(NormalRules(T)) -> Seq(NormalRules(T))]]
  BY <1>2
<1>4. \A i \in 1..n, x \in Seq(NormalRules(T)) : G[i][x] = MergeIntoAllow(x, NormalizeRule(new[i]))
  OBVIOUS
<1> HIDE DEF G
<1>5. PICK f \in [0..n -> Seq(NormalRules(T))] : Walks(f, n, <<>>, G)
  BY <1>1, <1>3, WalkExists
<1>6. ASSUME NEW i \in 1..n PROVE f[i] = MergeIntoAllow(f[i - 1], NormalizeRule(new[i]))
  <2>1. f[i - 1] \in Seq(NormalRules(T))
    BY <1>1
  <2>2. f[i] = G[i][f[i - 1]]
    BY <1>5 DEF Walks
  <2> QED BY <1>4, <2>1, <2>2
<1> DEFINE Walk(g) ==
             g = [i \in 0..n |->
                    IF i = 0 THEN <<>> ELSE MergeIntoAllow(g[i - 1], NormalizeRule(new[i]))]
           Q == CHOOSE g : Walk(g)
<1>7. Walk(f)
  <2>1. ASSUME NEW i \in 0..n
        PROVE  f[i] = IF i = 0 THEN <<>> ELSE MergeIntoAllow(f[i - 1], NormalizeRule(new[i]))
    <3>1. CASE i = 0
      BY <1>5, <3>1 DEF Walks
    <3>2. CASE i # 0
      <4>1. f[i] = MergeIntoAllow(f[i - 1], NormalizeRule(new[i]))
        BY <1>1, <1>6, <3>2
      <4> QED BY <3>2, <4>1
    <3> QED BY <3>1, <3>2
  <2> QED BY <2>1
<1>8. Walk(Q)
  <2> HIDE DEF Walk
  <2> QED BY <1>7
<1>9. Merged(<<>>, new) = Q[n]
  BY DEF Merged, n
<1> HIDE DEF Q
<1>10. Q = [i \in 0..n |-> IF i = 0 THEN <<>> ELSE MergeIntoAllow(Q[i - 1], NormalizeRule(new[i]))]
  BY <1>8
<1> HIDE DEF Walk
<1>11. Q[0] = <<>>
  BY <1>1, <1>10
<1>12. ASSUME NEW i \in 1..n PROVE Q[i] = MergeIntoAllow(Q[i - 1], NormalizeRule(new[i]))
  BY <1>1, <1>10
<1>13. DOMAIN Q = 0..n /\ Q = [i \in 0..n |-> Q[i]]
  BY <1>10
<1>14. \A i \in 1..n : Q[i - 1] \in Seq(NormalRules(T)) => Q[i] \in Seq(NormalRules(T))
  BY <1>2, <1>12
<1>15. \A i \in 0..n : Q[i] \in Seq(NormalRules(T))
  BY <1>1, <1>11, <1>14, WalkStays
<1>16. Q \in [0..n -> Seq(NormalRules(T))]
  BY <1>13, <1>15
<1> QED BY <1>9, <1>11, <1>12, <1>16 DEF n

\* The states of the scan.
ScanStates == [parts : Seq(Texts), part : Texts, quoting : QuoteStates, skip : BOOLEAN]
ScanStart == [parts |-> <<>>, part |-> <<>>, quoting |-> Plain, skip |-> FALSE]

\* One step of the scan leads from a state of the scan to another.
LEMMA ScanState ==
  ASSUME NEW cmd \in Texts, NEW x \in ScanStates, NEW i \in 1..Len(cmd)
  PROVE  Scan(cmd, x, i) \in ScanStates
<1> DEFINE s == cmd[i]
           q == NextQuoting(x.quoting, s)
           double == i < Len(cmd) /\ <<s, cmd[i + 1]>> \in DoubleOperators
<1>1. s \in Symbols /\ double \in BOOLEAN
  BY DEF Texts
<1>2. x.quoting \in QuoteStates /\ x.part \in Texts /\ x.parts \in Seq(Texts)
  BY DEF ScanStates
<1>3. q \in QuoteStates
  BY <1>2, NextQuotingState
<1>4. Append(x.part, s) \in Texts /\ Append(x.parts, x.part) \in Seq(Texts) /\ <<>> \in Texts
  BY <1>1, <1>2 DEF Texts
<1>5. \/ Scan(cmd, x, i) = [x EXCEPT !.skip = FALSE]
      \/ Scan(cmd, x, i) = [x EXCEPT !.parts = Append(x.parts, x.part), !.part = <<>>,
                                      !.skip = double]
      \/ Scan(cmd, x, i) = [x EXCEPT !.part = Append(x.part, s), !.quoting = q]
  BY DEF Scan
<1> HIDE DEF s, q, double
<1> QED BY <1>1, <1>3, <1>4, <1>5 DEF ScanStates

\* The recursion of Scanned.
LEMMA ScannedWalks ==
  ASSUME NEW cmd \in Texts
  PROVE  \E c \in [0..Len(cmd) -> ScanStates] :
            /\ Scanned(cmd) = c[Len(cmd)]
            /\ c[0] = ScanStart
            /\ \A i \in 1..Len(cmd) : c[i] = Scan(cmd, c[i - 1], i)
<1> DEFINE n == Len(cmd)
<1>1. n \in Nat /\ ScanStart \in ScanStates
  BY DEF Texts, ScanStart, ScanStates, Plain, QuoteStates
<1> HIDE DEF n
<1>2. ASSUME NEW i \in 1..n, NEW x \in ScanStates PROVE Scan(cmd, x, i) \in ScanStates
  BY <1>1, ScanState DEF n
<1> DEFINE G == [i \in 1..n |-> [x \in ScanStates |-> Scan(cmd, x, i)]]
<1>3. G \in [1..n -> [ScanStates -> ScanStates]]
  BY <1>2
<1>4. \A i \in 1..n, x \in ScanStates : G[i][x] = Scan(cmd, x, i)
  OBVIOUS
<1> HIDE DEF G
<1>5. PICK f \in [0..n -> ScanStates] : Walks(f, n, ScanStart, G)
  BY <1>1, <1>3, WalkExists
<1>6. ASSUME NEW i \in 1..n PROVE f[i] = Scan(cmd, f[i - 1], i)
  <2>1. f[i - 1] \in ScanStates
    BY <1>1
  <2>2. f[i] = G[i][f[i - 1]]
    BY <1>5 DEF Walks
  <2> QED BY <1>4, <2>1, <2>2
<1> DEFINE Walk(g) == g = [i \in 0..n |-> IF i = 0 THEN ScanStart ELSE Scan(cmd, g[i - 1], i)]
           Q == CHOOSE g : Walk(g)
<1>7. Walk(f)
  <2>1. ASSUME NEW i \in 0..n PROVE f[i] = IF i = 0 THEN ScanStart ELSE Scan(cmd, f[i - 1], i)
    <3>1. CASE i = 0
      BY <1>5, <3>1 DEF Walks
    <3>2. CASE i # 0
      <4>1. f[i] = Scan(cmd, f[i - 1], i)
        BY <1>1, <1>6, <3>2
      <4> QED BY <3>2, <4>1
    <3> QED BY <3>1, <3>2
  <2> QED BY <2>1
<1>8. Walk(Q)
  <2> HIDE DEF Walk
  <2> QED BY <1>7
<1>9. Scanned(cmd) = Q[n]
  BY DEF Scanned, ScanStart, n
<1> HIDE DEF Q
<1>10. Q = [i \in 0..n |-> IF i = 0 THEN ScanStart ELSE Scan(cmd, Q[i - 1], i)]
  BY <1>8
<1> HIDE DEF Walk
<1>11. Q[0] = ScanStart
  BY <1>1, <1>10
<1>12. ASSUME NEW i \in 1..n PROVE Q[i] = Scan(cmd, Q[i - 1], i)
  BY <1>1, <1>10
<1>13. DOMAIN Q = 0..n /\ Q = [i \in 0..n |-> Q[i]]
  BY <1>10
<1>14. \A i \in 1..n : Q[i - 1] \in ScanStates => Q[i] \in ScanStates
  BY <1>2, <1>12
<1>15. \A i \in 0..n : Q[i] \in ScanStates
  BY <1>1, <1>11, <1>14, WalkStays
<1>16. Q \in [0..n -> ScanStates]
  BY <1>13, <1>15
<1> QED BY <1>9, <1>11, <1>12, <1>16 DEF n

\* A value that no step of a walk changes.
Keeps(f, n, v) == \A i \in 1..n : f[i - 1] = v => f[i] = v

\* What no step of a walk leaves, the end of the walk still is.
LEMMA WalkKeeps ==
  ASSUME NEW n \in Nat, NEW v, NEW f, f[0] = v, Keeps(f, n, v)
  PROVE  \A i \in 0..n : f[i] = v
<1> DEFINE S == {i \in 0..n : f[i] = v}
<1>1. 0 \in S
  OBVIOUS
<1>2. \A i \in 0..n : i < n /\ i \in S => i + 1 \in S
  BY DEF Keeps
<1> HIDE DEF S
<1>3. \A i \in 0..n : i \in S
  BY <1>1, <1>2, WalkInduction
<1> QED BY <1>3 DEF S

\* Two texts that agree up to a length have been walked the same way up to it.
LEMMA ContentOfAppend ==
  ASSUME NEW cmd \in Texts, NEW s \in Symbols
  PROVE  Content(Append(cmd, s)) = KeptWord(Content(cmd), s)
<1> DEFINE longer == Append(cmd, s)
           n == Len(cmd)
<1>1. /\ longer \in Texts /\ Len(longer) = n + 1 /\ longer[n + 1] = s /\ n \in Nat
      /\ \A i \in 1..n : longer[i] = cmd[i]
  BY AppendProperties DEF Texts
<1> HIDE DEF longer, n
<1>2. PICK c \in [0..Len(longer) -> Texts] :
        /\ Content(longer) = c[Len(longer)] /\ c[0] = <<>>
        /\ \A i \in 1..Len(longer) : c[i] = KeptWord(c[i - 1], longer[i])
  BY <1>1, ContentWalks
<1>3. PICK d \in [0..n -> Texts] :
        /\ Content(cmd) = d[n] /\ d[0] = <<>>
        /\ \A i \in 1..n : d[i] = KeptWord(d[i - 1], cmd[i])
  BY ContentWalks DEF n
<1> DEFINE S == {i \in 0..n : c[i] = d[i]}
<1>4. 0 \in S
  BY <1>1, <1>2, <1>3
<1>5. ASSUME NEW i \in 0..n, i < n, i \in S PROVE i + 1 \in S
  <2>1. c[i + 1] = KeptWord(c[i], longer[i + 1]) /\ d[i + 1] = KeptWord(d[i], cmd[i + 1])
    BY <1>1, <1>2, <1>3, <1>5
  <2>2. longer[i + 1] = cmd[i + 1] /\ c[i] = d[i] /\ i + 1 \in 0..n
    BY <1>1, <1>5
  <2> QED BY <2>1, <2>2
<1>6. n \in S
  <2> HIDE DEF S
  <2>1. \A i \in 0..n : i \in S
    BY <1>1, <1>4, <1>5, WalkInduction
  <2> QED BY <1>1, <2>1
<1>7. c[n + 1] = KeptWord(c[n], longer[n + 1])
  BY <1>1, <1>2
<1> QED BY <1>1, <1>2, <1>3, <1>6, <1>7 DEF longer

\* Nothing has no words.
LEMMA ContentOfNothing == Content(<<>>) = <<>>
<1>1. <<>> \in Texts /\ Len(<<>>) = 0
  BY DEF Texts
<1> QED BY <1>1, ContentWalks

\* One part more adds its words.
LEMMA ContentsOfAppend ==
  ASSUME NEW parts \in Seq(Texts), NEW p \in Texts
  PROVE  Contents(Append(parts, p)) = Contents(parts) \o Content(p)
<1> DEFINE longer == Append(parts, p)
           n == Len(parts)
<1>1. /\ longer \in Seq(Texts) /\ Len(longer) = n + 1 /\ longer[n + 1] = p /\ n \in Nat
      /\ \A i \in 1..n : longer[i] = parts[i]
  BY AppendProperties
<1> HIDE DEF longer, n
<1>2. PICK c \in [0..Len(longer) -> Texts] :
        /\ Contents(longer) = c[Len(longer)] /\ c[0] = <<>>
        /\ \A i \in 1..Len(longer) : c[i] = c[i - 1] \o Content(longer[i])
  BY <1>1, ContentsWalks
<1>3. PICK d \in [0..n -> Texts] :
        /\ Contents(parts) = d[n] /\ d[0] = <<>>
        /\ \A i \in 1..n : d[i] = d[i - 1] \o Content(parts[i])
  BY ContentsWalks DEF n
<1> DEFINE S == {i \in 0..n : c[i] = d[i]}
<1>4. 0 \in S
  BY <1>1, <1>2, <1>3
<1>5. ASSUME NEW i \in 0..n, i < n, i \in S PROVE i + 1 \in S
  <2>1. i + 1 \in 1..n /\ i + 1 \in 1..Len(longer) /\ (i + 1) - 1 = i /\ i + 1 \in 0..n
    <3> HIDE DEF S
    <3> QED BY <1>1, <1>5
  <2>2. c[i + 1] = c[i] \o Content(longer[i + 1])
    BY <1>2, <2>1
  <2>3. d[i + 1] = d[i] \o Content(parts[i + 1])
    BY <1>3, <2>1
  <2>4. longer[i + 1] = parts[i + 1] /\ c[i] = d[i]
    BY <1>1, <1>5, <2>1
  <2>5. c[i + 1] = d[i + 1]
    <3> HIDE DEF S
    <3> QED BY <2>2, <2>3, <2>4
  <2> QED BY <2>1, <2>5
<1>6. n \in S
  <2> HIDE DEF S
  <2>1. \A i \in 0..n : i \in S
    BY <1>1, <1>4, <1>5, WalkInduction
  <2> QED BY <1>1, <2>1
<1>7. c[n + 1] = c[n] \o Content(longer[n + 1])
  <2>1. n + 1 \in 1..Len(longer) /\ (n + 1) - 1 = n
    BY <1>1
  <2> QED BY <1>2, <2>1
<1> QED BY <1>1, <1>2, <1>3, <1>6, <1>7 DEF longer

\* No part has no words.
LEMMA ContentsOfNothing == Contents(<<>>) = <<>>
<1>1. <<>> \in Seq(Texts) /\ Len(<<>>) = 0
  OBVIOUS
<1> QED BY <1>1, ContentsWalks

\* The quotes of a piece that begins outside of quotes are the ones it has in the text.
LEMMA QuotingShift ==
  ASSUME NEW cmd \in Texts, NEW piece \in Texts, NEW b \in 0..Len(cmd),
         b + Len(piece) <= Len(cmd), \A k \in 1..Len(piece) : piece[k] = cmd[b + k],
         Quoting(cmd)[b] = Plain
  PROVE  \A k \in 0..Len(piece) : Quoting(piece)[k] = Quoting(cmd)[b + k]
<1> DEFINE n == Len(piece)
           N == Len(cmd)
           Q == Quoting(piece)
           R == Quoting(cmd)
           S == {k \in 0..n : Q[k] = R[b + k]}
<1>1. n \in Nat /\ N \in Nat
  BY DEF Texts
<1>2. /\ Q[0] = Plain /\ \A i \in 1..n : Q[i] = NextQuoting(Q[i - 1], piece[i])
      /\ \A i \in 1..N : R[i] = NextQuoting(R[i - 1], cmd[i])
  BY QuotingWalks
<1>3. 0 \in S
  BY <1>1, <1>2
<1>4. ASSUME NEW k \in 0..n, k < n, k \in S PROVE k + 1 \in S
  <2>1. k + 1 \in 1..n /\ b + (k + 1) \in 1..N /\ (b + (k + 1)) - 1 = b + k /\ (k + 1) - 1 = k
    BY <1>1, <1>4
  <2>2. piece[k + 1] = cmd[b + (k + 1)]
    BY <2>1
  <2> HIDE DEF Q, R, n, N
  <2>3. Q[k + 1] = NextQuoting(Q[k], piece[k + 1])
    BY <1>2, <2>1
  <2>4. R[b + (k + 1)] = NextQuoting(R[b + k], cmd[b + (k + 1)])
    BY <1>2, <2>1
  <2>5. Q[k] = R[b + k]
    BY <1>4
  <2>6. Q[k + 1] = R[b + (k + 1)]
    BY <2>2, <2>3, <2>4, <2>5
  <2> QED BY <1>1, <2>1, <2>6
<1> HIDE DEF S
<1>5. \A k \in 0..n : k \in S
  BY <1>1, <1>3, <1>4, WalkInduction
<1> QED BY <1>5 DEF S

\* Where the trimmed text lies.
LEMMA TrimLies ==
  ASSUME NEW cmd \in Texts, Trim(cmd) # <<>>
  PROVE  \E a, b \in 1..Len(cmd) :
           /\ a <= b /\ Len(Trim(cmd)) = b - a + 1
           /\ \A k \in 1..Len(Trim(cmd)) : Trim(cmd)[k] = cmd[(a - 1) + k]
           /\ cmd[a] # "blank" /\ cmd[b] # "blank"
           /\ \A i \in 1..Len(cmd) : i < a \/ i > b => cmd[i] = "blank"
<1>1. Len(cmd) \in Nat
  BY DEF Texts
<1>2. PICK a \in 1..Len(cmd), b \in 1..Len(cmd) :
        /\ a <= b /\ Trim(cmd) = SubSeq(cmd, a, b)
        /\ cmd[a] # "blank" /\ cmd[b] # "blank"
        /\ \A i \in 1..Len(cmd) : i < a \/ i > b => cmd[i] = "blank"
  BY TrimCuts
<1>3. \A i \in a..b : cmd[i] \in Symbols
  BY <1>1 DEF Texts
<1>4. /\ Len(SubSeq(cmd, a, b)) = b - a + 1
      /\ \A k \in 1..(b - a + 1) : SubSeq(cmd, a, b)[k] = cmd[a + k - 1]
  BY <1>1, <1>2, <1>3, SubSeqProperties
<1>5. \A k \in 1..(b - a + 1) : SubSeq(cmd, a, b)[k] = cmd[(a - 1) + k]
  <2> TAKE k \in 1..(b - a + 1)
  <2>1. a + k - 1 = (a - 1) + k
    BY <1>1
  <2> QED BY <1>4, <2>1
<1>6. /\ Len(Trim(cmd)) = b - a + 1
      /\ \A k \in 1..Len(Trim(cmd)) : Trim(cmd)[k] = cmd[(a - 1) + k]
  BY <1>2, <1>4, <1>5
<1> QED BY <1>2, <1>6

\* Trimming twice is trimming once.
LEMMA TrimAgain ==
  ASSUME NEW cmd \in Texts
  PROVE  Trim(Trim(cmd)) = Trim(cmd)
<1> DEFINE p == Trim(cmd)
<1>1. p \in Texts /\ Len(cmd) \in Nat
  BY TrimIsText DEF Texts
<1>2. CASE p = <<>>
  <2>1. Words(<<>>) = {}
    BY DEF Words
  <2>2. Trim(<<>>) = <<>>
    BY <2>1 DEF Trim, Words
  <2> QED BY <1>2, <2>2
<1>3. CASE p # <<>>
  <2>1. PICK a \in 1..Len(cmd), b \in 1..Len(cmd) :
           /\ a <= b /\ Len(p) = b - a + 1
           /\ \A k \in 1..Len(p) : p[k] = cmd[(a - 1) + k]
           /\ cmd[a] # "blank" /\ cmd[b] # "blank"
    BY <1>3, TrimLies
  <2> HIDE DEF p
  <2>2. 1 \in 1..Len(p) /\ Len(p) \in 1..Len(p) /\ (a - 1) + 1 = a /\ (a - 1) + Len(p) = b
    BY <1>1, <2>1
  <2>3. p[1] # "blank" /\ p[Len(p)] # "blank"
    BY <2>1, <2>2
  <2>4. DOMAIN p = 1..Len(p)
    BY <1>1 DEF Texts
  <2>5. Words(p) # {}
    BY <2>2, <2>3, <2>4 DEF Words
  <2>6. PICK x \in 1..Len(p), y \in 1..Len(p) :
          /\ Trim(p) = SubSeq(p, x, y)
          /\ \A i \in 1..Len(p) : i < x \/ i > y => p[i] = "blank"
    BY <1>1, <2>5, TrimCuts
  <2>7. x = 1 /\ y = Len(p)
    BY <1>1, <2>2, <2>3, <2>6 DEF Texts
  <2> QED BY <1>1, <2>6, <2>7, SubSeqFull DEF p, Texts
<1> QED BY <1>2, <1>3

\* A blank ends an escape and changes nothing else.
LEMMA BlankQuoting ==
  ASSUME NEW q \in QuoteStates
  PROVE  /\ NextQuoting(q, "blank") = [quote |-> q.quote, escaped |-> FALSE]
         /\ NextQuoting(Plain, "blank") = Plain
<1>1. q = [quote |-> q.quote, escaped |-> q.escaped] /\ q.escaped \in BOOLEAN
  BY DEF QuoteStates
<1>2. CASE q.escaped
  <2>1. NextQuoting(q, "blank") = [q EXCEPT !.escaped = FALSE]
    BY <1>2 DEF NextQuoting
  <2> QED BY <1>1, <2>1 DEF NextQuoting, Plain
<1>3. CASE ~q.escaped
  <2>1. NextQuoting(q, "blank") = q
    BY <1>3 DEF NextQuoting
  <2>2. q.escaped = FALSE
    BY <1>1, <1>3
  <2> QED BY <1>1, <2>1, <2>2 DEF NextQuoting, Plain
<1> QED BY <1>2, <1>3

\* Only a backslash escapes what comes next.
LEMMA EscapeQuoting ==
  ASSUME NEW q \in QuoteStates, NEW s, NextQuoting(q, s).escaped
  PROVE  s = "esc"
<1>1. CASE q.escaped
  BY <1>1 DEF NextQuoting, QuoteStates
<1>2. CASE ~q.escaped /\ s # "esc"
  <2>1. \/ NextQuoting(q, s) = Plain
        \/ NextQuoting(q, s) = [q EXCEPT !.quote = s]
        \/ NextQuoting(q, s) = q
    BY <1>2 DEF NextQuoting
  <2> QED BY <1>2, <2>1 DEF Plain, QuoteStates
<1> QED BY <1>1, <1>2

\* Trimming a text loses none of its words.
LEMMA TrimContent ==
  ASSUME NEW cmd \in Texts
  PROVE  Content(Trim(cmd)) = Content(cmd)
<1> DEFINE p == Trim(cmd)
           n == Len(p)
           N == Len(cmd)
<1>1. p \in Texts /\ N \in Nat /\ n \in Nat
  BY TrimIsText DEF Texts
<1>2. PICK c \in [0..N -> Texts] :
        /\ Content(cmd) = c[N] /\ c[0] = <<>>
        /\ \A i \in 1..N : c[i] = KeptWord(c[i - 1], cmd[i])
  BY ContentWalks
<1>3. CASE p = <<>>
  <2>1. \A i \in 1..N : cmd[i] = "blank"
    <3>1. Words(cmd) = {} \/ p # <<>>
      <4>1. ASSUME NEW a \in 1..N, NEW b \in 1..N, a <= b, p = SubSeq(cmd, a, b) PROVE p # <<>>
        <5>1. Len(SubSeq(cmd, a, b)) = b - a + 1
          <6>1. \A i \in a..b : cmd[i] \in Symbols
            BY <1>1 DEF Texts
          <6> QED BY <1>1, <4>1, <6>1, SubSeqProperties
        <5>2. Len(p) # 0
          BY <1>1, <4>1, <5>1
        <5> HIDE DEF p
        <5> QED BY <5>2
      <4> QED BY <4>1, TrimCuts
    <3>2. Words(cmd) = {} /\ DOMAIN cmd = 1..N
      BY <1>3, <3>1 DEF Texts
    <3> QED BY <3>2 DEF Words
  <2>2. Keeps(c, N, <<>>)
    BY <1>2, <2>1 DEF KeptWord, Keeps
  <2>3. c[0] = <<>>
    BY <1>2
  <2>4. \A i \in 0..N : c[i] = <<>>
    BY <1>1, <2>2, <2>3, WalkKeeps
  <2>5. Content(cmd) = <<>>
    BY <1>1, <1>2, <2>4
  <2> QED BY <1>3, <2>5, ContentOfNothing
<1>4. CASE p # <<>>
  <2>1. PICK a \in 1..N, b \in 1..N :
           /\ a <= b /\ n = b - a + 1
           /\ \A k \in 1..n : p[k] = cmd[(a - 1) + k]
           /\ \A i \in 1..N : i < a \/ i > b => cmd[i] = "blank"
    BY <1>4, TrimLies
  <2>2. PICK d \in [0..n -> Texts] :
          /\ Content(p) = d[n] /\ d[0] = <<>>
          /\ \A i \in 1..n : d[i] = KeptWord(d[i - 1], p[i])
    BY <1>1, ContentWalks
  <2> HIDE DEF p, n, N
  <2>3. \A i \in 0..(a - 1) : c[i] = <<>>
    <3>1. \A i \in 1..(a - 1) : c[i] = KeptWord(c[i - 1], cmd[i]) /\ cmd[i] = "blank"
      BY <1>1, <1>2, <2>1
    <3>2. Keeps(c, a - 1, <<>>)
      BY <3>1 DEF KeptWord, Keeps
    <3>3. c[0] = <<>> /\ a - 1 \in Nat
      BY <1>1, <1>2
    <3> QED BY <3>2, <3>3, WalkKeeps
  <2>4. \A k \in 0..n : d[k] = c[(a - 1) + k]
    <3> DEFINE S == {k \in 0..n : d[k] = c[(a - 1) + k]}
    <3>1. 0 \in S
      BY <1>1, <2>2, <2>3
    <3>2. ASSUME NEW k \in 0..n, k < n, k \in S PROVE k + 1 \in S
      <4>1. /\ k + 1 \in 1..n /\ (k + 1) - 1 = k /\ (a - 1) + (k + 1) \in 1..N
            /\ ((a - 1) + (k + 1)) - 1 = (a - 1) + k /\ k + 1 \in 0..n
        BY <1>1, <2>1, <3>2
      <4>2. d[k + 1] = KeptWord(d[k], p[k + 1])
        BY <2>2, <4>1
      <4>3. c[(a - 1) + (k + 1)] = KeptWord(c[(a - 1) + k], cmd[(a - 1) + (k + 1)])
        BY <1>2, <4>1
      <4>4. p[k + 1] = cmd[(a - 1) + (k + 1)] /\ d[k] = c[(a - 1) + k]
        BY <2>1, <3>2, <4>1
      <4>5. d[k + 1] = c[(a - 1) + (k + 1)]
        BY <4>2, <4>3, <4>4
      <4> QED BY <4>1, <4>5
    <3> HIDE DEF S
    <3>3. \A k \in 0..n : k \in S
      BY <1>1, <3>1, <3>2, WalkInduction
    <3> QED BY <3>3 DEF S
  <2>5. d[n] = c[b]
    <3>1. (a - 1) + n = b /\ n \in 0..n
      BY <1>1, <2>1
    <3> QED BY <2>4, <3>1
  <2>6. c[N] = c[b]
    <3> DEFINE f == [k \in 0..(N - b) |-> c[b + k]]
    <3>1. N - b \in Nat /\ f[0] = c[b]
      BY <1>1
    <3>2. ASSUME NEW k \in 1..(N - b), f[k - 1] = c[b] PROVE f[k] = c[b]
      <4>1. b + k \in 1..N /\ b + k > b /\ (b + k) - 1 = b + (k - 1) /\ k - 1 \in 0..(N - b)
        BY <1>1
      <4>2. c[b + k] = KeptWord(c[b + (k - 1)], cmd[b + k]) /\ cmd[b + k] = "blank"
        BY <1>2, <2>1, <4>1
      <4>3. f[k] = c[b + k] /\ f[k - 1] = c[b + (k - 1)]
        BY <4>1
      <4> QED BY <3>2, <4>2, <4>3 DEF KeptWord
    <3> HIDE DEF f
    <3>6. Keeps(f, N - b, c[b])
      BY <3>2 DEF Keeps
    <3>3. \A k \in 0..(N - b) : f[k] = c[b]
      BY <3>1, <3>6, WalkKeeps
    <3>4. N - b \in 0..(N - b) /\ b + (N - b) = N
      BY <1>1
    <3>5. f[N - b] = c[N]
      BY <3>4 DEF f
    <3> QED BY <3>3, <3>4, <3>5
  <2>7. Content(p) = Content(cmd)
    BY <1>2, <2>2, <2>5, <2>6
  <2> QED BY <2>7 DEF p
<1> QED BY <1>3, <1>4

\* Where a trimmed text lies, with its quotes: they are the ones of the text, and when
\* the text ends outside of quotes the trimmed one does too, or is cut after a backslash.
LEMMA TrimQuoting ==
  ASSUME NEW cmd \in Texts, Trim(cmd) # <<>>
  PROVE  /\ \E a \in 1..Len(cmd) :
              /\ (a - 1) + Len(Trim(cmd)) <= Len(cmd)
              /\ \A k \in 1..Len(Trim(cmd)) : Trim(cmd)[k] = cmd[(a - 1) + k]
              /\ \A k \in 0..Len(Trim(cmd)) :
                   Quoting(Trim(cmd))[k] = Quoting(cmd)[(a - 1) + k]
         /\ Quoting(cmd)[Len(cmd)] = Plain =>
              Closed(Trim(cmd)) \/ Trim(cmd)[Len(Trim(cmd))] = "esc"
<1> DEFINE p == Trim(cmd)
           n == Len(p)
           N == Len(cmd)
           R == Quoting(cmd)
<1>1. p \in Texts /\ N \in Nat /\ n \in Nat
  BY TrimIsText DEF Texts
<1>2. PICK a \in 1..N, b \in 1..N :
           /\ a <= b /\ n = b - a + 1
           /\ \A k \in 1..n : p[k] = cmd[(a - 1) + k]
           /\ \A i \in 1..N : i < a \/ i > b => cmd[i] = "blank"
  BY TrimLies
<1>3. /\ R \in [0..N -> QuoteStates] /\ R[0] = Plain
      /\ \A i \in 1..N : R[i] = NextQuoting(R[i - 1], cmd[i])
  BY QuotingWalks
<1> HIDE DEF p, n, N, R
<1>4. R[a - 1] = Plain
  <2>1. \A i \in 1..(a - 1) : R[i] = NextQuoting(R[i - 1], cmd[i]) /\ cmd[i] = "blank"
    BY <1>1, <1>2, <1>3
  <2>2. Keeps(R, a - 1, Plain)
    <3>1. Plain \in QuoteStates
      BY DEF Plain, QuoteStates
    <3> QED BY <2>1, <3>1, BlankQuoting DEF Keeps
  <2>3. R[0] = Plain /\ a - 1 \in Nat
    BY <1>1, <1>3
  <2>4. \A i \in 0..(a - 1) : R[i] = Plain
    BY <2>2, <2>3, WalkKeeps
  <2> QED BY <2>3, <2>4
<1>5. (a - 1) + n <= N /\ a - 1 \in 0..N /\ (a - 1) + n = b
  BY <1>1, <1>2
<1>6. \A k \in 0..n : Quoting(p)[k] = R[(a - 1) + k]
  BY <1>1, <1>2, <1>4, <1>5, QuotingShift DEF R, n, N
<1>7. ASSUME R[N] = Plain PROVE Closed(p) \/ p[n] = "esc"
  <2>1. Quoting(p)[n] = R[b] /\ p[n] = cmd[b]
    <3>1. n \in 0..n /\ n \in 1..n
      BY <1>1, <1>2
    <3> QED BY <1>2, <1>5, <1>6, <3>1
  <2>2. CASE b = N
    BY <1>7, <2>1, <2>2 DEF Closed, n
  <2>3. CASE b # N
    <3> DEFINE q == [quote |-> R[b].quote, escaped |-> FALSE]
               f == [k \in 1..(N - b) |-> R[b + k]]
               g == [k \in 0..((N - b) - 1) |-> R[b + (k + 1)]]
    <3>1. R[b] \in QuoteStates /\ b + 1 \in 1..N /\ (b + 1) - 1 = b /\ b + 1 > b
      BY <1>1, <1>3, <2>3
    <3>2. R[b + 1] = q
      <4>1. R[b + 1] = NextQuoting(R[b], cmd[b + 1]) /\ cmd[b + 1] = "blank"
        BY <1>2, <1>3, <3>1
      <4> QED BY <3>1, <4>1, BlankQuoting
    <3>3. q \in QuoteStates /\ NextQuoting(q, "blank") = q
      <4>1. q \in QuoteStates /\ q.quote = R[b].quote
        BY <3>1 DEF QuoteStates
      <4> QED BY <4>1, BlankQuoting
    <3> HIDE DEF q
    <3>4. (N - b) - 1 \in Nat /\ g[0] = q
      BY <1>1, <2>3, <3>2
    <3>5. ASSUME NEW k \in 1..((N - b) - 1), g[k - 1] = q PROVE g[k] = q
      <4>1. b + (k + 1) \in 1..N /\ b + (k + 1) > b /\ (b + (k + 1)) - 1 = b + ((k - 1) + 1)
        BY <1>1, <2>3
      <4>2. R[b + (k + 1)] = NextQuoting(R[b + ((k - 1) + 1)], cmd[b + (k + 1)])
        BY <1>3, <4>1
      <4>3. cmd[b + (k + 1)] = "blank"
        BY <1>2, <4>1
      <4>4. g[k] = R[b + (k + 1)] /\ g[k - 1] = R[b + ((k - 1) + 1)]
        BY <1>1
      <4> QED BY <3>3, <3>5, <4>2, <4>3, <4>4
    <3> HIDE DEF g
    <3>12. Keeps(g, (N - b) - 1, q)
      BY <3>5 DEF Keeps
    <3>6. \A k \in 0..((N - b) - 1) : g[k] = q
      BY <3>4, <3>12, WalkKeeps
    <3>7. (N - b) - 1 \in 0..((N - b) - 1) /\ b + (((N - b) - 1) + 1) = N
      BY <1>1, <3>4
    <3>8. g[(N - b) - 1] = R[N]
      BY <3>7 DEF g
    <3>9. R[b].quote = "none"
      BY <1>7, <3>6, <3>7, <3>8 DEF q, Plain
    <3>10. CASE R[b].escaped
      <4>1. b \in 1..N /\ b - 1 \in 0..N /\ R[b] = NextQuoting(R[b - 1], cmd[b])
        BY <1>1, <1>3
      <4>2. cmd[b] = "esc"
        BY <1>3, <3>10, <4>1, EscapeQuoting
      <4> QED BY <2>1, <4>2
    <3>11. CASE ~R[b].escaped
      <4>1. R[b] = [quote |-> R[b].quote, escaped |-> R[b].escaped] /\ R[b].escaped = FALSE
        BY <3>1, <3>11 DEF QuoteStates
      <4>2. R[b] = Plain
        BY <3>9, <4>1 DEF Plain
      <4> QED BY <2>1, <4>2 DEF Closed, n
    <3> QED BY <3>10, <3>11
  <2> QED BY <2>2, <2>3
<1>8. \E x \in 1..N : /\ (x - 1) + n <= N
                      /\ \A k \in 1..n : p[k] = cmd[(x - 1) + k]
                      /\ \A k \in 0..n : Quoting(p)[k] = R[(x - 1) + k]
  BY <1>2, <1>5, <1>6
<1> QED BY <1>7, <1>8 DEF p, n, N, R

\* An operator that ends a part when it lies outside of quotes.
Double(cmd, i) == i < Len(cmd) /\ <<cmd[i], cmd[i + 1]>> \in DoubleOperators
Cuts(cmd, i) == cmd[i] \in {"bar", "semi"} \/ Double(cmd, i)

\* A text without one.
Whole(cmd) == \A i \in 1..Len(cmd) : Quoting(cmd)[i - 1] = Plain => ~Cuts(cmd, i)

\* What a step of the scan does, field by field.
ScanMoves(cmd, x, i, y) ==
  /\ x.skip => /\ y.parts = x.parts /\ y.part = x.part
               /\ y.quoting = x.quoting /\ y.skip = FALSE
  /\ ~x.skip /\ x.quoting = Plain /\ Cuts(cmd, i) =>
       /\ y.parts = Append(x.parts, x.part) /\ y.part = <<>>
       /\ y.quoting = x.quoting /\ y.skip = Double(cmd, i)
  /\ ~x.skip /\ ~(x.quoting = Plain /\ Cuts(cmd, i)) =>
       /\ y.parts = x.parts /\ y.part = Append(x.part, cmd[i])
       /\ y.quoting = NextQuoting(x.quoting, cmd[i]) /\ y.skip = FALSE

\* What one step of the scan does to each of its fields.
LEMMA ScanFields ==
  ASSUME NEW cmd, NEW x \in ScanStates, NEW i
  PROVE  ScanMoves(cmd, x, i, Scan(cmd, x, i))
<1> DEFINE y == Scan(cmd, x, i)
<1> USE DEF ScanMoves
<1>1. CASE x.skip
  <2>1. y = [x EXCEPT !.skip = FALSE]
    BY <1>1 DEF Scan
  <2> QED BY <1>1, <2>1 DEF ScanStates
<1>2. CASE ~x.skip /\ x.quoting = Plain /\ Cuts(cmd, i)
  <2> DEFINE double == Double(cmd, i)
  <2>1. y = [x EXCEPT !.parts = Append(x.parts, x.part), !.part = <<>>, !.skip = double]
    BY <1>2 DEF Scan, Cuts, Double
  <2> HIDE DEF double
  <2>2. /\ y.parts = Append(x.parts, x.part) /\ y.part = <<>>
        /\ y.quoting = x.quoting /\ y.skip = double
    BY <2>1 DEF ScanStates
  <2> QED BY <1>2, <2>2 DEF double
<1>3. CASE ~x.skip /\ ~(x.quoting = Plain /\ Cuts(cmd, i))
  <2> DEFINE longer == Append(x.part, cmd[i])
             q == NextQuoting(x.quoting, cmd[i])
  <2>1. y = [x EXCEPT !.part = longer, !.quoting = q]
    BY <1>3 DEF Scan, Cuts, Double
  <2> HIDE DEF longer, q
  <2>2. y.parts = x.parts /\ y.part = longer /\ y.quoting = q /\ y.skip = FALSE
    BY <1>3, <2>1 DEF ScanStates
  <2> QED BY <1>3, <2>2 DEF longer, q
<1> QED BY <1>1, <1>2, <1>3

\* Operators and blanks do not open a quote.
LEMMA OperatorQuoting ==
  ASSUME NEW s, s \in {"bar", "and", "semi"}
  PROVE  NextQuoting(Plain, s) = Plain
BY DEF NextQuoting, Plain

\* Words of a part under construction, and of the parts before it.
LEMMA KeptConcat ==
  ASSUME NEW c \in Texts, NEW d \in Texts, NEW s \in Symbols
  PROVE  c \o KeptWord(d, s) = KeptWord(c \o d, s)
<1>1. CASE s \in {"blank", "bar", "and", "semi"}
  BY <1>1 DEF KeptWord
<1>2. CASE s \notin {"blank", "bar", "and", "semi"}
  <2>1. KeptWord(d, s) = d \o <<s>>
    BY <1>2, AppendIsConcat DEF KeptWord, Texts
  <2>2. c \o d \in Texts /\ <<s>> \in Texts
    BY DEF Texts
  <2>3. KeptWord(c \o d, s) = (c \o d) \o <<s>>
    BY <1>2, <2>2, AppendIsConcat DEF KeptWord, Texts
  <2> QED BY <2>1, <2>2, <2>3, ConcatAssociative DEF Texts
<1> QED BY <1>1, <1>2

\* One symbol more at the end of a text.
LEMMA QuotingOfAppend ==
  ASSUME NEW cmd \in Texts, NEW s \in Symbols
  PROVE  /\ \A k \in 0..Len(cmd) : Quoting(Append(cmd, s))[k] = Quoting(cmd)[k]
         /\ Quoting(Append(cmd, s))[Len(cmd) + 1] = NextQuoting(Quoting(cmd)[Len(cmd)], s)
<1> DEFINE longer == Append(cmd, s)
           n == Len(cmd)
<1>1. /\ longer \in Texts /\ Len(longer) = n + 1 /\ longer[n + 1] = s /\ n \in Nat
      /\ \A i \in 1..n : longer[i] = cmd[i]
  BY AppendProperties DEF Texts
<1> HIDE DEF longer
<1>2. /\ Quoting(longer)[0] = Plain
      /\ \A i \in 1..Len(longer) :
           Quoting(longer)[i] = NextQuoting(Quoting(longer)[i - 1], longer[i])
  BY <1>1, QuotingWalks
<1>3. \A k \in 0..n : Quoting(cmd)[k] = Quoting(longer)[0 + k]
  <2>1. 0 \in 0..Len(longer) /\ 0 + n <= Len(longer)
    BY <1>1
  <2>2. \A k \in 1..n : cmd[k] = longer[0 + k]
    BY <1>1
  <2> QED BY <1>1, <1>2, <2>1, <2>2, QuotingShift
<1>4. \A k \in 0..n : Quoting(longer)[k] = Quoting(cmd)[k]
  <2> TAKE k \in 0..n
  <2>1. 0 + k = k
    BY <1>1
  <2> QED BY <1>3, <2>1
<1>5. Quoting(longer)[n + 1] = NextQuoting(Quoting(longer)[n], s)
  <2>1. n + 1 \in 1..Len(longer) /\ (n + 1) - 1 = n
    BY <1>1
  <2> QED BY <1>1, <1>2, <2>1
<1>6. n \in 0..n
  BY <1>1
<1> QED BY <1>4, <1>5, <1>6 DEF longer

\* A whole text with one symbol more is whole when its last symbol and the new one are no
\* double operator and the new one is none by itself.
LEMMA WholeAppend ==
  ASSUME NEW part \in Texts, NEW s \in Symbols, Whole(part),
         part # <<>> /\ Quoting(part)[Len(part) - 1] = Plain =>
            <<part[Len(part)], s>> \notin DoubleOperators,
         Quoting(part)[Len(part)] = Plain => s \notin {"bar", "semi"}
  PROVE  Whole(Append(part, s))
<1> DEFINE longer == Append(part, s)
           n == Len(part)
<1>1. /\ longer \in Texts /\ Len(longer) = n + 1 /\ longer[n + 1] = s /\ n \in Nat
      /\ \A i \in 1..n : longer[i] = part[i]
  BY AppendProperties DEF Texts
<1>2. \A k \in 0..n : Quoting(longer)[k] = Quoting(part)[k]
  BY QuotingOfAppend
<1>3. n # 0 => part # <<>>
  BY <1>1
<1> HIDE DEF longer, n
<1>4. SUFFICES ASSUME NEW i \in 1..(n + 1), Quoting(longer)[i - 1] = Plain
               PROVE  ~Cuts(longer, i)
  BY <1>1 DEF Whole, longer
<1>5. CASE i < n
  <2>1. i \in 1..n /\ i - 1 \in 0..n /\ i + 1 \in 1..n /\ i < Len(longer)
    BY <1>1, <1>5
  <2>2. ~Cuts(part, i)
    BY <1>2, <1>4, <2>1 DEF Whole, n
  <2>3. longer[i] = part[i] /\ longer[i + 1] = part[i + 1]
    BY <1>1, <2>1
  <2> QED BY <1>5, <2>2, <2>3 DEF Cuts, Double, n
<1>6. CASE i = n
  <2>1. n \in 1..n /\ n - 1 \in 0..n /\ n < Len(longer)
    BY <1>1, <1>4, <1>6
  <2>2. Quoting(part)[n - 1] = Plain /\ ~Cuts(part, n) /\ part # <<>>
    BY <1>1, <1>2, <1>3, <1>4, <1>6, <2>1 DEF Whole, n
  <2>3. <<part[n], s>> \notin DoubleOperators
    BY <2>2 DEF n
  <2>4. longer[n] = part[n] /\ longer[n + 1] = s
    BY <1>1, <2>1
  <2> QED BY <1>6, <2>2, <2>3, <2>4 DEF Cuts, Double
<1>7. CASE i = n + 1
  <2>1. Quoting(part)[n] = Plain
    BY <1>1, <1>2, <1>4, <1>7
  <2>2. longer[i] \notin {"bar", "semi"}
    BY <1>1, <1>7, <2>1 DEF n
  <2>3. ~(i < Len(longer))
    BY <1>1, <1>7
  <2> QED BY <2>2, <2>3 DEF Cuts, Double
<1> QED BY <1>1, <1>4, <1>5, <1>6, <1>7

\* The invariant of the scan after i symbols of a text: the quotes are the ones of the
\* text and of the part under construction, the parts are whole and outside of quotes at
\* their ends, no double operator has been torn apart, and no word is lost.
NoTornOperator(cmd, x, i) ==
  x.part # <<>> /\ i < Len(cmd) /\ Quoting(x.part)[Len(x.part) - 1] = Plain =>
    <<x.part[Len(x.part)], cmd[i + 1]>> \notin DoubleOperators

ScanKeeps(cmd, c, x, i) ==
  /\ x \in ScanStates
  /\ x.quoting = Quoting(cmd)[i] /\ x.quoting = Quoting(x.part)[Len(x.part)]
  /\ x.skip => /\ x.part = <<>> /\ x.quoting = Plain
               /\ i < Len(cmd) /\ cmd[i + 1] \in {"bar", "and"}
  /\ \A k \in 1..Len(x.parts) : Whole(x.parts[k]) /\ Closed(x.parts[k])
  /\ Whole(x.part)
  /\ NoTornOperator(cmd, x, i)
  /\ Contents(x.parts) \o Content(x.part) = c[i]

\* No operator cuts the empty text.
LEMMA NothingIsWhole ==
  Quoting(<<>>)[Len(<<>>)] = Plain /\ Whole(<<>>) /\ Closed(<<>>)
<1>1. <<>> \in Texts /\ Len(<<>>) = 0
  BY DEF Texts
<1>2. Quoting(<<>>)[0] = Plain
  BY <1>1, QuotingWalks
<1> QED BY <1>1, <1>2 DEF Whole, Closed

\* The words of the parts are a text.
LEMMA ContentsIsText ==
  ASSUME NEW parts \in Seq(Texts)
  PROVE  Contents(parts) \in Texts
<1>1. PICK c \in [0..Len(parts) -> Texts] : Contents(parts) = c[Len(parts)]
  BY ContentsWalks
<1>2. Len(parts) \in 0..Len(parts)
  OBVIOUS
<1> QED BY <1>1, <1>2

\* What the scan keeps: its parts are whole and hold the words that were read.
LEMMA ScanStep ==
  ASSUME NEW cmd \in Texts, NEW i \in 1..Len(cmd), NEW c, NEW x, NEW y,
         c[i] = KeptWord(c[i - 1], cmd[i]), y = Scan(cmd, x, i), ScanKeeps(cmd, c, x, i - 1)
  PROVE  ScanKeeps(cmd, c, y, i)
<1> DEFINE s == cmd[i]
           N == Len(cmd)
<1>1. N \in Nat /\ i \in 1..N /\ i - 1 \in 0..N /\ (i - 1) + 1 = i /\ s \in Symbols
  BY DEF Texts
<1>2. x \in ScanStates /\ y \in ScanStates
  BY ScanState DEF ScanKeeps
<1>10. ScanMoves(cmd, x, i, y)
  BY <1>2, ScanFields
<1>3. x.part \in Texts /\ x.parts \in Seq(Texts) /\ x.quoting \in QuoteStates
  BY <1>2 DEF ScanStates
<1>4. Quoting(cmd)[i] = NextQuoting(x.quoting, s)
  BY <1>1, QuotingWalks DEF ScanKeeps
<1>5. /\ x.skip => x.part = <<>> /\ x.quoting = Plain /\ s \in {"bar", "and"}
      /\ x.quoting = Quoting(x.part)[Len(x.part)]
      /\ \A k \in 1..Len(x.parts) : Whole(x.parts[k]) /\ Closed(x.parts[k])
      /\ Whole(x.part)
      /\ x.part # <<>> /\ Quoting(x.part)[Len(x.part) - 1] = Plain =>
           <<x.part[Len(x.part)], s>> \notin DoubleOperators
      /\ Contents(x.parts) \o Content(x.part) = c[i - 1]
  <2>1. /\ x.quoting = Quoting(x.part)[Len(x.part)]
        /\ \A k \in 1..Len(x.parts) : Whole(x.parts[k]) /\ Closed(x.parts[k])
        /\ Whole(x.part)
        /\ Contents(x.parts) \o Content(x.part) = c[i - 1]
    BY DEF ScanKeeps
  <2>2. x.skip => x.part = <<>> /\ x.quoting = Plain /\ s \in {"bar", "and"}
    BY <1>1 DEF ScanKeeps
  <2>3. NoTornOperator(cmd, x, i - 1)
    BY DEF ScanKeeps
  <2>4. x.part # <<>> /\ Quoting(x.part)[Len(x.part) - 1] = Plain =>
          <<x.part[Len(x.part)], s>> \notin DoubleOperators
    <3>1. i - 1 < Len(cmd) /\ cmd[(i - 1) + 1] = s
      BY <1>1
    <3> HIDE DEF s
    <3> QED BY <2>3, <3>1, Zenon DEF NoTornOperator
  <2> QED BY <2>1, <2>2, <2>4
<1>6. Contents(x.parts) \in Texts /\ Content(x.part) \in Texts
  BY <1>3, ContentIsText, ContentsIsText
<1> HIDE DEF N, s
<1>7. CASE x.skip
  <2>1. y.parts = x.parts /\ y.part = <<>> /\ y.quoting = Plain /\ y.skip = FALSE
    BY <1>5, <1>7, <1>10 DEF ScanMoves
  <2>2. Quoting(cmd)[i] = Plain
    BY <1>4, <1>5, <1>7, OperatorQuoting
  <2>3. c[i] = c[i - 1]
    BY <1>5, <1>7 DEF KeptWord, s
  <2> QED BY <1>2, <1>5, <1>7, <2>1, <2>2, <2>3, NothingIsWhole DEF ScanKeeps, NoTornOperator
<1>8. CASE ~x.skip /\ x.quoting = Plain /\ Cuts(cmd, i)
  <2>1. /\ y.parts = Append(x.parts, x.part) /\ y.part = <<>>
        /\ y.quoting = Plain /\ y.skip = Double(cmd, i)
    BY <1>8, <1>10 DEF ScanMoves
  <2>2. s \in {"bar", "and", "semi"} /\ (Double(cmd, i) => i < N /\ cmd[i + 1] \in {"bar", "and"})
    BY <1>8 DEF Cuts, Double, DoubleOperators, s, N
  <2>3. Quoting(cmd)[i] = Plain
    BY <1>4, <1>8, <2>2, OperatorQuoting
  <2>4. c[i] = c[i - 1]
    BY <2>2 DEF KeptWord, s
  <2>5. \A k \in 1..Len(y.parts) : Whole(y.parts[k]) /\ Closed(y.parts[k])
    <3>1. Closed(x.part)
      BY <1>5, <1>8 DEF Closed
    <3>2. /\ Len(y.parts) = Len(x.parts) + 1 /\ y.parts[Len(x.parts) + 1] = x.part
          /\ \A k \in 1..Len(x.parts) : y.parts[k] = x.parts[k]
      BY <1>3, <2>1, AppendProperties
    <3>3. Len(x.parts) \in Nat
      BY <1>3
    <3> TAKE k \in 1..Len(y.parts)
    <3>4. k \in 1..Len(x.parts) \/ k = Len(x.parts) + 1
      BY <3>2, <3>3
    <3> QED BY <1>5, <3>1, <3>2, <3>4
  <2>6. Contents(y.parts) \o Content(y.part) = c[i]
    <3>1. Contents(y.parts) = Contents(x.parts) \o Content(x.part)
      BY <1>3, <2>1, ContentsOfAppend
    <3>2. Contents(x.parts) \o Content(x.part) \in Texts
      BY <1>6 DEF Texts
    <3> QED BY <1>5, <2>1, <2>4, <3>1, <3>2, ContentOfNothing, ConcatEmptySeq DEF Texts
  <2>7. y.skip => y.part = <<>> /\ y.quoting = Plain /\ i < Len(cmd) /\ cmd[i + 1] \in {"bar", "and"}
    BY <2>1, <2>2 DEF N
  <2> QED BY <1>2, <2>1, <2>3, <2>5, <2>6, <2>7, NothingIsWhole DEF ScanKeeps, NoTornOperator
<1>9. CASE ~x.skip /\ ~(x.quoting = Plain /\ Cuts(cmd, i))
  <2> DEFINE longer == Append(x.part, s)
             n == Len(x.part)
  <2>1. /\ y.parts = x.parts /\ y.part = longer
        /\ y.quoting = NextQuoting(x.quoting, s) /\ y.skip = FALSE
    BY <1>9, <1>10 DEF ScanMoves, s
  <2>2. longer \in Texts /\ Len(longer) = n + 1 /\ longer[n + 1] = s /\ n \in Nat
    BY <1>1, <1>3, AppendProperties DEF Texts
  <2>3. Quoting(longer)[n + 1] = NextQuoting(x.quoting, s) /\ Quoting(longer)[n] = x.quoting
    <3>1. n \in 0..n
      BY <2>2
    <3> QED BY <1>1, <1>3, <1>5, <3>1, QuotingOfAppend
  <2>4. Whole(longer)
    <3>1. Quoting(x.part)[Len(x.part)] = Plain => s \notin {"bar", "semi"}
      BY <1>5, <1>9 DEF Cuts, s
    <3> QED BY <1>1, <1>3, <1>5, <3>1, WholeAppend
  <2>5. Contents(y.parts) \o Content(y.part) = c[i]
    <3>1. Content(longer) = KeptWord(Content(x.part), s)
      BY <1>1, <1>3, ContentOfAppend
    <3>2. Contents(x.parts) \o Content(longer) = KeptWord(c[i - 1], s)
      BY <1>1, <1>5, <1>6, <3>1, KeptConcat
    <3> QED BY <2>1, <3>2 DEF s
  <2> HIDE DEF longer, n
  <2>6. NoTornOperator(cmd, y, i)
    <3>1. (n + 1) - 1 = n
      BY <2>2
    <3> SUFFICES ASSUME i < Len(cmd), Quoting(longer)[n] = Plain
                 PROVE  <<longer[n + 1], cmd[i + 1]>> \notin DoubleOperators
      BY <2>1, <2>2, <3>1 DEF NoTornOperator
    <3>2. ~Double(cmd, i)
      BY <1>9, <2>3 DEF Cuts
    <3> QED BY <2>2, <3>2 DEF Double, s
  <2>7. y.quoting = Quoting(cmd)[i] /\ y.quoting = Quoting(y.part)[Len(y.part)]
    BY <1>4, <2>1, <2>2, <2>3
  <2>8. \A k \in 1..Len(y.parts) : Whole(y.parts[k]) /\ Closed(y.parts[k])
    BY <1>5, <2>1
  <2>9. Whole(y.part) /\ ~y.skip
    BY <2>1, <2>4
  <2> QED BY <1>2, <2>5, <2>6, <2>7, <2>8, <2>9 DEF ScanKeeps
<1> QED BY <1>7, <1>8, <1>9

\* What the scan of a text ends with: whole parts that hold its words.
LEMMA ScanEnds ==
  ASSUME NEW cmd \in Texts
  PROVE  LET end == Scanned(cmd)
             parts == Append(end.parts, end.part)
         IN /\ parts \in Seq(Texts)
            /\ Contents(parts) = Content(cmd)
            /\ \A k \in 1..Len(parts) : Whole(parts[k])
            /\ Closed(cmd) => \A k \in 1..Len(parts) : Closed(parts[k])
<1> DEFINE N == Len(cmd)
           end == Scanned(cmd)
           parts == Append(end.parts, end.part)
<1>1. N \in Nat /\ <<>> \in Texts
  BY DEF Texts
<1>2. PICK c \in [0..N -> Texts] :
        /\ Content(cmd) = c[N] /\ c[0] = <<>>
        /\ \A i \in 1..N : c[i] = KeptWord(c[i - 1], cmd[i])
  BY ContentWalks
<1>3. PICK f \in [0..N -> ScanStates] :
        /\ end = f[N] /\ f[0] = ScanStart
        /\ \A i \in 1..N : f[i] = Scan(cmd, f[i - 1], i)
  BY ScannedWalks
<1> DEFINE S == {i \in 0..N : ScanKeeps(cmd, c, f[i], i)}
<1>4. 0 \in S
  <2>1. /\ f[0].parts = <<>> /\ f[0].part = <<>> /\ f[0].quoting = Plain /\ f[0].skip = FALSE
        /\ f[0] \in ScanStates
    <3>1. 0 \in 0..N
      BY <1>1
    <3>2. f[0] \in ScanStates
      BY <3>1
    <3>3. f[0].parts = <<>> /\ f[0].part = <<>> /\ f[0].quoting = Plain /\ f[0].skip = FALSE
      <4> HIDE DEF N, S
      <4> QED BY <1>3 DEF ScanStart
    <3> QED BY <3>2, <3>3
  <2>2. Quoting(cmd)[0] = Plain
    BY QuotingWalks
  <2>3. Contents(<<>>) \o Content(<<>>) = <<>>
    BY <1>1, ContentOfNothing, ContentsOfNothing, ConcatEmptySeq DEF Texts
  <2>4. ScanKeeps(cmd, c, f[0], 0)
    BY <1>2, <2>1, <2>2, <2>3, NothingIsWhole DEF ScanKeeps, NoTornOperator
  <2> QED BY <1>1, <2>4
<1>5. ASSUME NEW i \in 0..N, i < N, i \in S PROVE i + 1 \in S
  <2>1. i + 1 \in 1..N /\ (i + 1) - 1 = i /\ i + 1 \in 0..N
    BY <1>1, <1>5
  <2>2. c[i + 1] = KeptWord(c[(i + 1) - 1], cmd[i + 1]) /\ f[i + 1] = Scan(cmd, f[i], i + 1)
    BY <1>2, <1>3, <2>1
  <2>3. ScanKeeps(cmd, c, f[i], (i + 1) - 1)
    BY <1>5, <2>1
  <2>4. ScanKeeps(cmd, c, f[i + 1], i + 1)
    BY <2>1, <2>2, <2>3, ScanStep
  <2> QED BY <2>1, <2>4
<1>6. ScanKeeps(cmd, c, end, N)
  <2> HIDE DEF S
  <2>1. \A i \in 0..N : i \in S
    BY <1>1, <1>4, <1>5, WalkInduction
  <2>2. N \in S
    BY <1>1, <2>1
  <2> QED BY <1>3, <2>2 DEF S
<1> HIDE DEF end, N
<1>7. /\ end.parts \in Seq(Texts) /\ end.part \in Texts
      /\ \A k \in 1..Len(end.parts) : Whole(end.parts[k]) /\ Closed(end.parts[k])
      /\ Whole(end.part) /\ end.quoting = Quoting(cmd)[N]
      /\ end.quoting = Quoting(end.part)[Len(end.part)]
      /\ Contents(end.parts) \o Content(end.part) = Content(cmd)
  BY <1>2, <1>6 DEF ScanKeeps, ScanStates
<1>8. /\ parts \in Seq(Texts) /\ Len(parts) = Len(end.parts) + 1
      /\ parts[Len(end.parts) + 1] = end.part
      /\ \A k \in 1..Len(end.parts) : parts[k] = end.parts[k]
  BY <1>7, AppendProperties
<1>9. Contents(parts) = Content(cmd)
  BY <1>7, ContentsOfAppend
<1>10. \A k \in 1..Len(parts) : k \in 1..Len(end.parts) \/ k = Len(end.parts) + 1
  <2>1. Len(end.parts) \in Nat
    BY <1>7
  <2> QED BY <1>8, <2>1
<1>11. Closed(cmd) => Closed(end.part)
  BY <1>7 DEF Closed, N
<1> HIDE DEF parts
<1>12. \A k \in 1..Len(parts) : Whole(parts[k])
  BY <1>7, <1>8, <1>10
<1>13. Closed(cmd) => \A k \in 1..Len(parts) : Closed(parts[k])
  BY <1>7, <1>8, <1>10, <1>11
<1> QED BY <1>8, <1>9, <1>12, <1>13 DEF parts, end

\* Trimming the parts leaves trimmed parts, and all of the words.
LEMMA TrimmedParts ==
  ASSUME NEW parts \in Seq(Texts)
  PROVE  /\ TrimEach(parts) \in Seq(Texts)
         /\ Contents(TrimEach(parts)) = Contents(parts)
         /\ \A k \in 1..Len(TrimEach(parts)) :
              \E j \in 1..Len(parts) : /\ TrimEach(parts)[k] = Trim(parts[j])
                                       /\ Trim(parts[j]) # <<>>
<1> DEFINE N == Len(parts)
<1>1. N \in Nat
  OBVIOUS
<1>2. PICK c \in [0..N -> Texts] :
        /\ Contents(parts) = c[N] /\ c[0] = <<>>
        /\ \A i \in 1..N : c[i] = c[i - 1] \o Content(parts[i])
  BY ContentsWalks
<1>3. PICK f \in [0..N -> Seq(Texts)] :
        /\ TrimEach(parts) = f[N] /\ f[0] = <<>>
        /\ \A i \in 1..N : f[i] = KeptPart(f[i - 1], parts[i])
  BY TrimmedWalks
<1> DEFINE Comes(p) == \E j \in 1..N : p = Trim(parts[j]) /\ Trim(parts[j]) # <<>>
           Good(i) == /\ Contents(f[i]) = c[i]
                      /\ \A k \in 1..Len(f[i]) : Comes(f[i][k])
           S == {i \in 0..N : Good(i)}
<1>4. 0 \in S
  <2>1. Good(0)
    BY <1>2, <1>3, ContentsOfNothing
  <2> HIDE DEF Good
  <2> QED BY <1>1, <2>1
<1>5. ASSUME NEW i \in 0..N, i < N, i \in S PROVE i + 1 \in S
  <2> DEFINE p == parts[i + 1]
             A == f[i]
             B == f[i + 1]
  <2>1. i + 1 \in 1..N /\ (i + 1) - 1 = i /\ i + 1 \in 0..N
    BY <1>1, <1>5
  <2>2. p \in Texts /\ Trim(p) \in Texts /\ A \in Seq(Texts)
    BY <1>1, <2>1, TrimIsText
  <2>3. B = KeptPart(A, p) /\ c[i + 1] = c[i] \o Content(p)
    <3>1. f[i + 1] = KeptPart(f[(i + 1) - 1], parts[i + 1])
      BY <1>3, <2>1
    <3>2. c[i + 1] = c[(i + 1) - 1] \o Content(parts[i + 1])
      BY <1>2, <2>1
    <3> QED BY <2>1, <3>1, <3>2
  <2>4. Contents(A) = c[i] /\ \A k \in 1..Len(A) : Comes(A[k])
    <3> HIDE DEF Comes
    <3> QED BY <1>5
  <2>5. Trim(p) # <<>> => Comes(Trim(p))
    BY <2>1
  <2> HIDE DEF p, A, Comes
  <2>6. CASE Trim(p) = <<>>
    <3>1. B = A
      BY <2>3, <2>6 DEF KeptPart
    <3>2. Content(p) = <<>>
      BY <2>2, <2>6, TrimContent, ContentOfNothing
    <3>3. c[i + 1] = c[i]
      <4>1. c[i] \in Texts
        BY <1>1
      <4> QED BY <2>3, <3>2, <4>1, ConcatEmptySeq DEF Texts
    <3>4. Contents(B) = c[i + 1] /\ \A k \in 1..Len(B) : Comes(B[k])
      BY <2>4, <3>1, <3>3
    <3> QED BY <2>1, <3>4
  <2>7. CASE Trim(p) # <<>>
    <3>1. B = Append(A, Trim(p))
      BY <2>3, <2>7 DEF KeptPart
    <3>2. /\ Len(B) = Len(A) + 1 /\ B[Len(A) + 1] = Trim(p) /\ Len(A) \in Nat
          /\ \A k \in 1..Len(A) : B[k] = A[k]
      <4> HIDE DEF B
      <4> QED BY <2>2, <3>1, AppendProperties
    <3>3. Contents(B) = c[i + 1]
      <4>1. Contents(B) = Contents(A) \o Content(Trim(p))
        BY <2>2, <3>1, ContentsOfAppend
      <4>2. Content(Trim(p)) = Content(p)
        BY <2>2, TrimContent
      <4> QED BY <2>3, <2>4, <4>1, <4>2
    <3>4. \A k \in 1..Len(B) : Comes(B[k])
      <4> HIDE DEF B
      <4> TAKE k \in 1..Len(B)
      <4>1. k \in 1..Len(A) \/ k = Len(A) + 1
        BY <3>2
      <4> QED BY <2>4, <2>5, <2>7, <3>2, <4>1
    <3> QED BY <2>1, <3>3, <3>4
  <2> QED BY <2>6, <2>7
<1>6. Good(N)
  <2> HIDE DEF S
  <2>1. \A i \in 0..N : i \in S
    BY <1>1, <1>4, <1>5, WalkInduction
  <2>2. N \in S
    BY <1>1, <2>1
  <2> HIDE DEF Good
  <2> QED BY <2>2 DEF S
<1>7. N \in 0..N
  BY <1>1
<1> QED BY <1>2, <1>3, <1>6, <1>7

\* A trimmed text that is whole is its only part.
LEMMA WholeIsOnePart ==
  ASSUME NEW cmd \in Texts, cmd # <<>>, Trim(cmd) = cmd, Whole(cmd)
  PROVE  ByOperators(cmd) = <<cmd>>
<1> DEFINE N == Len(cmd)
           end == Scanned(cmd)
<1>1. N \in Nat /\ \A i \in 1..N : cmd[i] \in Symbols
  BY DEF Texts
<1>2. PICK f \in [0..N -> ScanStates] :
        /\ end = f[N] /\ f[0] = ScanStart
        /\ \A i \in 1..N : f[i] = Scan(cmd, f[i - 1], i)
  BY ScannedWalks
<1>3. /\ Quoting(cmd)[0] = Plain
      /\ \A i \in 1..N : Quoting(cmd)[i] = NextQuoting(Quoting(cmd)[i - 1], cmd[i])
  BY QuotingWalks
<1> DEFINE Uncut(x, i) == /\ x.parts = <<>> /\ ~x.skip /\ x.quoting = Quoting(cmd)[i]
                          /\ Len(x.part) = i /\ \A k \in 1..i : x.part[k] = cmd[k]
           S == {i \in 0..N : Uncut(f[i], i)}
<1>4. 0 \in S
  <2>1. f[0].parts = <<>> /\ f[0].part = <<>> /\ f[0].quoting = Plain /\ f[0].skip = FALSE
    BY <1>2 DEF ScanStart
  <2> QED BY <1>1, <1>3, <2>1
<1>5. ASSUME NEW i \in 0..N, i < N, i \in S PROVE i + 1 \in S
  <2> DEFINE x == f[i]
             y == f[i + 1]
             s == cmd[i + 1]
  <2>1. i + 1 \in 1..N /\ (i + 1) - 1 = i /\ i + 1 \in 0..N
    BY <1>1, <1>5
  <2>2. x \in ScanStates /\ y = Scan(cmd, x, i + 1)
    <3>1. f[i + 1] = Scan(cmd, f[(i + 1) - 1], i + 1)
      BY <1>2, <2>1
    <3> QED BY <2>1, <3>1
  <2>3. Uncut(x, i)
    BY <1>5
  <2>4. Quoting(cmd)[i + 1] = NextQuoting(Quoting(cmd)[i], s)
    BY <1>3, <2>1
  <2>5. ~(x.quoting = Plain /\ Cuts(cmd, i + 1))
    <3>1. Quoting(cmd)[(i + 1) - 1] = Plain => ~Cuts(cmd, i + 1)
      BY <2>1 DEF Whole
    <3> QED BY <2>1, <2>3, <3>1
  <2> HIDE DEF x, y
  <2>6. ScanMoves(cmd, x, i + 1, y)
    BY <2>2, ScanFields
  <2>7. /\ y.parts = <<>> /\ y.part = Append(x.part, s)
        /\ y.quoting = Quoting(cmd)[i + 1] /\ ~y.skip
    BY <2>3, <2>4, <2>5, <2>6 DEF ScanMoves
  <2>8. x.part \in Texts /\ s \in Symbols
    BY <1>1, <2>1, <2>2 DEF ScanStates
  <2>9. /\ Len(y.part) = i + 1 /\ y.part[i + 1] = s
        /\ \A k \in 1..i : y.part[k] = cmd[k]
    BY <2>3, <2>7, <2>8, AppendProperties DEF Texts
  <2>10. \A k \in 1..(i + 1) : y.part[k] = cmd[k]
    <3> TAKE k \in 1..(i + 1)
    <3>1. k \in 1..i \/ k = i + 1
      BY <1>1
    <3> QED BY <2>9, <3>1
  <2>11. Uncut(y, i + 1)
    BY <2>7, <2>9, <2>10
  <2> HIDE DEF Uncut
  <2> QED BY <2>1, <2>11 DEF y
<1>6. Uncut(end, N)
  <2> HIDE DEF S
  <2>1. \A i \in 0..N : i \in S
    BY <1>1, <1>4, <1>5, WalkInduction
  <2>2. N \in S
    BY <1>1, <2>1
  <2> HIDE DEF Uncut
  <2> QED BY <1>2, <2>2 DEF S
<1>7. end.part \in Texts
  <2>1. end \in ScanStates
    BY <1>1, <1>2
  <2> QED BY <2>1 DEF ScanStates
<1>8. end.parts = <<>> /\ end.part = cmd
  BY <1>1, <1>6, <1>7, SeqEqual DEF Texts
<1>9. Append(end.parts, end.part) = <<cmd>> /\ <<cmd>> \in Seq(Texts)
  BY <1>8
<1>10. TrimEach(<<cmd>>) = <<cmd>>
  <2>1. Len(<<cmd>>) = 1 /\ 1 \in 1..1 /\ <<cmd>>[1] = cmd
    OBVIOUS
  <2>2. TrimEach(<<cmd>>) = KeptPart(<<>>, cmd)
    <3>1. PICK g \in [0..Len(<<cmd>>) -> Seq(Texts)] :
            /\ TrimEach(<<cmd>>) = g[Len(<<cmd>>)] /\ g[0] = <<>>
            /\ \A i \in 1..Len(<<cmd>>) : g[i] = KeptPart(g[i - 1], <<cmd>>[i])
      BY <1>9, TrimmedWalks
    <3>2. g[1] = KeptPart(g[1 - 1], <<cmd>>[1]) /\ 1 - 1 = 0
      BY <2>1, <3>1
    <3> QED BY <2>1, <3>1, <3>2
  <2> QED BY <2>2 DEF KeptPart
<1> QED BY <1>9, <1>10 DEF ByOperators

\* Trimming a whole text leaves a whole text.
LEMMA TrimWhole ==
  ASSUME NEW cmd \in Texts, Whole(cmd), Trim(cmd) # <<>>
  PROVE  Whole(Trim(cmd))
<1> DEFINE p == Trim(cmd)
<1>1. p \in Texts /\ Len(cmd) \in Nat /\ Len(p) \in Nat
  BY TrimIsText DEF Texts
<1>2. PICK a \in 1..Len(cmd) :
        /\ (a - 1) + Len(p) <= Len(cmd)
        /\ \A k \in 1..Len(p) : p[k] = cmd[(a - 1) + k]
        /\ \A k \in 0..Len(p) : Quoting(p)[k] = Quoting(cmd)[(a - 1) + k]
  BY TrimQuoting
<1> HIDE DEF p
<1>3. ASSUME NEW i \in 1..Len(p), Quoting(p)[i - 1] = Plain PROVE ~Cuts(p, i)
  <2>1. /\ (a - 1) + i \in 1..Len(cmd) /\ ((a - 1) + i) - 1 = (a - 1) + (i - 1)
        /\ i - 1 \in 0..Len(p) /\ ((a - 1) + i) + 1 = (a - 1) + (i + 1)
        /\ i < Len(p) => (a - 1) + i < Len(cmd) /\ i + 1 \in 1..Len(p)
    BY <1>1, <1>2
  <2>2. Quoting(cmd)[((a - 1) + i) - 1] = Plain
    BY <1>2, <1>3, <2>1
  <2>3. ~Cuts(cmd, (a - 1) + i)
    BY <2>1, <2>2 DEF Whole
  <2>4. p[i] = cmd[(a - 1) + i] /\ (i < Len(p) => p[i + 1] = cmd[((a - 1) + i) + 1])
    BY <1>2, <2>1
  <2> QED BY <2>1, <2>3, <2>4 DEF Cuts, Double
<1> QED BY <1>3 DEF Whole, p

\* The parts of a command.  They hold its words, each of them is trimmed and whole, and
\* ends outside of quotes (or is cut after a backslash) when the command does.
LEMMA SplitParts ==
  ASSUME NEW command \in Texts
  PROVE  LET parts == SplitSubcommands(command)
         IN /\ parts \in Seq(Texts)
            /\ Contents(parts) = Content(command)
            /\ \A k \in 1..Len(parts) :
                 /\ parts[k] # <<>> /\ Trim(parts[k]) = parts[k]
                 /\ SplitSubcommands(parts[k]) = <<parts[k]>>
                 /\ Closed(Trim(command)) =>
                      Closed(parts[k]) \/ parts[k][Len(parts[k])] = "esc"
<1> DEFINE cmd == Trim(command)
           parts == SplitSubcommands(command)
           unsplit == ~Closed(cmd) \/ "nest" \in Range(cmd) \/ Head(cmd) = "paren"
           Good(p) == /\ p # <<>> /\ Trim(p) = p
                      /\ SplitSubcommands(p) = <<p>>
                      /\ Closed(Trim(command)) => Closed(p) \/ p[Len(p)] = "esc"
<1>1. cmd \in Texts /\ Trim(cmd) = cmd /\ Content(cmd) = Content(command)
  BY TrimIsText, TrimAgain, TrimContent
<1>2. parts = IF cmd = <<>> THEN <<>> ELSE IF unsplit THEN <<cmd>> ELSE ByOperators(cmd)
  BY DEF SplitSubcommands
<1>3. SplitSubcommands(cmd) = IF cmd = <<>> THEN <<>>
                               ELSE IF unsplit THEN <<cmd>> ELSE ByOperators(cmd)
  BY <1>1 DEF SplitSubcommands
<1>4. /\ <<cmd>> \in Seq(Texts) /\ Len(<<cmd>>) = 1
      /\ Contents(<<cmd>>) = Content(cmd)
  <2>1. <<cmd>> = Append(<<>>, cmd) /\ <<>> \in Seq(Texts)
    OBVIOUS
  <2>2. Contents(<<cmd>>) = Contents(<<>>) \o Content(cmd)
    BY <1>1, <2>1, ContentsOfAppend
  <2>3. Content(cmd) \in Texts
    BY <1>1, ContentIsText
  <2>4. <<>> \o Content(cmd) = Content(cmd)
    BY <2>3, ConcatEmptySeq DEF Texts
  <2>5. <<cmd>> \in Seq(Texts) /\ Len(<<cmd>>) = 1
    <3> HIDE DEF cmd
    <3> QED BY <1>1
  <2> QED BY <2>2, <2>4, <2>5, ContentsOfNothing
<1>5. CASE cmd = <<>>
  <2>1. parts = <<>>
    BY <1>2, <1>5
  <2> QED BY <1>1, <1>5, <2>1, ContentsOfNothing, ContentOfNothing
<1>6. CASE cmd # <<>> /\ parts = <<cmd>>
  <2>1. SplitSubcommands(cmd) = <<cmd>>
    BY <1>2, <1>3, <1>6
  <2>2. Closed(Trim(command)) => Closed(cmd)
    OBVIOUS
  <2> HIDE DEF cmd, parts
  <2>3. parts \in Seq(Texts) /\ Contents(parts) = Content(command) /\ Len(parts) = 1
    BY <1>1, <1>4, <1>6
  <2>4. Good(cmd)
    BY <1>1, <1>6, <2>1, <2>2
  <2>5. parts[1] = cmd
    BY <1>6
  <2>6. \A k \in 1..Len(parts) : Good(parts[k])
    <3> HIDE DEF Good
    <3> QED BY <2>3, <2>4, <2>5
  <2> QED BY <2>3, <2>6 DEF parts
<1>7. CASE cmd # <<>> /\ parts # <<cmd>>
  <2> DEFINE end == Scanned(cmd)
             all == Append(end.parts, end.part)
  <2>1. ~unsplit /\ parts = ByOperators(cmd)
    BY <1>2, <1>7
  <2>2. parts = TrimEach(all)
    BY <1>7, <2>1 DEF ByOperators
  <2>3. /\ all \in Seq(Texts) /\ Contents(all) = Content(cmd)
        /\ \A k \in 1..Len(all) : Whole(all[k]) /\ Closed(all[k])
    BY <1>1, <2>1, ScanEnds
  <2> HIDE DEF all, cmd, parts
  <2>4. /\ parts \in Seq(Texts) /\ Contents(parts) = Content(command)
        /\ \A k \in 1..Len(parts) : \E j \in 1..Len(all) : parts[k] = Trim(all[j]) /\ Trim(all[j]) # <<>>
    BY <1>1, <2>2, <2>3, TrimmedParts
  <2>5. ASSUME NEW k \in 1..Len(parts) PROVE Good(parts[k])
    <3>1. PICK j \in 1..Len(all) : parts[k] = Trim(all[j]) /\ Trim(all[j]) # <<>>
      BY <2>4
    <3> DEFINE p == parts[k]
               t == all[j]
    <3>2. t \in Texts /\ Whole(t) /\ Closed(t) /\ p = Trim(t) /\ p # <<>>
      BY <2>3, <3>1
    <3> HIDE DEF p, t
    <3>3. p \in Texts /\ Trim(p) = p /\ Whole(p)
      BY <3>2, TrimIsText, TrimAgain, TrimWhole
    <3>4. SplitSubcommands(p) = <<p>>
      <4>1. ByOperators(p) = <<p>>
        BY <3>2, <3>3, WholeIsOnePart
      <4> QED BY <3>2, <3>3, <4>1 DEF SplitSubcommands
    <3>5. Closed(p) \/ p[Len(p)] = "esc"
      <4>1. Quoting(t)[Len(t)] = Plain
        BY <3>2 DEF Closed
      <4> QED BY <3>2, <4>1, TrimQuoting
    <3>6. Good(p)
      BY <3>2, <3>3, <3>4, <3>5
    <3> HIDE DEF Good
    <3> QED BY <3>6 DEF p
  <2> QED BY <2>4, <2>5 DEF parts
<1> QED BY <1>5, <1>6, <1>7

\* The words of a text, and of the parts.
Has(cmd, s) == \E i \in 1..Len(cmd) : cmd[i] = s

\* The words of a text are those in its content,
LEMMA ContentHas ==
  ASSUME NEW cmd \in Texts, NEW s, s \notin {"blank", "bar", "and", "semi"}
  PROVE  Has(Content(cmd), s) <=> Has(cmd, s)
<1> DEFINE N == Len(cmd)
<1>1. N \in Nat /\ \A i \in 1..N : cmd[i] \in Symbols
  BY DEF Texts
<1>2. PICK c \in [0..N -> Texts] :
        /\ Content(cmd) = c[N] /\ c[0] = <<>>
        /\ \A i \in 1..N : c[i] = KeptWord(c[i - 1], cmd[i])
  BY ContentWalks
<1> DEFINE Good(i) == Has(c[i], s) <=> \E k \in 1..i : cmd[k] = s
           S == {i \in 0..N : Good(i)}
<1>3. 0 \in S
  <2>1. Good(0)
    BY <1>2 DEF Has
  <2> HIDE DEF Good
  <2> QED BY <1>1, <2>1
<1>4. ASSUME NEW i \in 0..N, i < N, i \in S PROVE i + 1 \in S
  <2> DEFINE A == c[i]
             B == c[i + 1]
             t == cmd[i + 1]
  <2>1. i + 1 \in 1..N /\ (i + 1) - 1 = i /\ i + 1 \in 0..N
    BY <1>1, <1>4
  <2>2. A \in Texts /\ t \in Symbols /\ B = KeptWord(A, t)
    <3>1. c[i + 1] = KeptWord(c[(i + 1) - 1], cmd[i + 1])
      BY <1>2, <2>1
    <3> QED BY <1>1, <2>1, <3>1
  <2>3. Has(A, s) <=> \E k \in 1..i : cmd[k] = s
    BY <1>4
  <2>4. (\E k \in 1..(i + 1) : cmd[k] = s) <=> (\E k \in 1..i : cmd[k] = s) \/ t = s
    <3>1. \A k \in 1..(i + 1) : k \in 1..i \/ k = i + 1
      BY <1>1
    <3>2. 1..i \subseteq 1..(i + 1) /\ i + 1 \in 1..(i + 1)
      BY <1>1
    <3> QED BY <3>1, <3>2
  <2> HIDE DEF A, B, t
  <2>5. Has(B, s) <=> Has(A, s) \/ t = s
    <3>1. CASE t \in {"blank", "bar", "and", "semi"}
      BY <2>2, <3>1 DEF KeptWord
    <3>2. CASE t \notin {"blank", "bar", "and", "semi"}
      <4>1. B = Append(A, t)
        BY <2>2, <3>2 DEF KeptWord
      <4>2. /\ Len(B) = Len(A) + 1 /\ B[Len(A) + 1] = t /\ Len(A) \in Nat
            /\ \A k \in 1..Len(A) : B[k] = A[k]
        BY <2>2, <4>1, AppendProperties DEF Texts
      <4>3. \A k \in 1..Len(B) : k \in 1..Len(A) \/ k = Len(A) + 1
        BY <4>2
      <4>4. 1..Len(A) \subseteq 1..Len(B) /\ Len(A) + 1 \in 1..Len(B)
        BY <4>2
      <4> QED BY <4>2, <4>3, <4>4 DEF Has
    <3> QED BY <3>1, <3>2
  <2>6. Good(i + 1)
    BY <2>3, <2>4, <2>5 DEF B
  <2> HIDE DEF Good
  <2> QED BY <2>1, <2>6
<1>5. Good(N)
  <2> HIDE DEF S
  <2>1. \A i \in 0..N : i \in S
    BY <1>1, <1>3, <1>4, WalkInduction
  <2>2. N \in S
    BY <1>1, <2>1
  <2> HIDE DEF Good
  <2> QED BY <2>2 DEF S
<1> QED BY <1>2, <1>5 DEF Has

\* and a word in the contents of parts is in one of them.
LEMMA ContentsHas ==
  ASSUME NEW parts \in Seq(Texts), NEW s, s \notin {"blank", "bar", "and", "semi"},
         Has(Contents(parts), s)
  PROVE  \E k \in 1..Len(parts) : Has(parts[k], s)
<1> DEFINE N == Len(parts)
<1>1. N \in Nat /\ \A i \in 1..N : parts[i] \in Texts
  OBVIOUS
<1>2. PICK c \in [0..N -> Texts] :
        /\ Contents(parts) = c[N] /\ c[0] = <<>>
        /\ \A i \in 1..N : c[i] = c[i - 1] \o Content(parts[i])
  BY ContentsWalks
<1> DEFINE Good(i) == Has(c[i], s) => \E k \in 1..i : Has(parts[k], s)
           S == {i \in 0..N : Good(i)}
<1>3. 0 \in S
  <2>1. Good(0)
    BY <1>2 DEF Has
  <2> HIDE DEF Good
  <2> QED BY <1>1, <2>1
<1>4. ASSUME NEW i \in 0..N, i < N, i \in S PROVE i + 1 \in S
  <2> DEFINE A == c[i]
             B == c[i + 1]
             p == parts[i + 1]
             d == Content(p)
  <2>1. i + 1 \in 1..N /\ (i + 1) - 1 = i /\ i + 1 \in 0..N
    BY <1>1, <1>4
  <2>2. A \in Texts /\ p \in Texts /\ B = A \o d
    <3>1. c[i + 1] = c[(i + 1) - 1] \o Content(parts[i + 1])
      BY <1>2, <2>1
    <3> QED BY <1>1, <2>1, <3>1
  <2>3. Has(A, s) => \E k \in 1..i : Has(parts[k], s)
    BY <1>4
  <2>4. d \in Texts /\ (Has(d, s) <=> Has(p, s))
    <3> HIDE DEF p
    <3> QED BY <2>2, ContentIsText, ContentHas
  <2>5. 1..i \subseteq 1..(i + 1) /\ i + 1 \in 1..(i + 1)
    BY <1>1
  <2> HIDE DEF A, B, d
  <2>6. Has(B, s) => Has(A, s) \/ Has(d, s)
    <3>1. /\ Len(B) = Len(A) + Len(d) /\ Len(A) \in Nat /\ Len(d) \in Nat
          /\ \A k \in 1..(Len(A) + Len(d)) :
               B[k] = IF k <= Len(A) THEN A[k] ELSE d[k - Len(A)]
      BY <2>2, <2>4, ConcatProperties DEF Texts
    <3> SUFFICES ASSUME NEW k \in 1..Len(B), B[k] = s PROVE Has(A, s) \/ Has(d, s)
      BY DEF Has
    <3>2. CASE k <= Len(A)
      <4>1. k \in 1..Len(A) /\ A[k] = s
        BY <3>1, <3>2
      <4> QED BY <4>1 DEF Has
    <3>3. CASE ~(k <= Len(A))
      <4>1. k - Len(A) \in 1..Len(d) /\ d[k - Len(A)] = s
        BY <3>1, <3>3
      <4> QED BY <4>1 DEF Has
    <3> QED BY <3>2, <3>3
  <2>7. Has(B, s) => \E k \in 1..(i + 1) : Has(parts[k], s)
    BY <2>3, <2>4, <2>5, <2>6
  <2>8. Good(i + 1)
    BY <2>7 DEF B
  <2> HIDE DEF Good
  <2> QED BY <2>1, <2>8
<1>5. Good(N)
  <2> HIDE DEF S
  <2>1. \A i \in 0..N : i \in S
    BY <1>1, <1>3, <1>4, WalkInduction
  <2>2. N \in S
    BY <1>1, <2>1
  <2> HIDE DEF Good
  <2> QED BY <2>2 DEF S
<1> QED BY <1>2, <1>5

\* The saved rules are the normalized ones, each of them once.
LEMMA MergedRules ==
  ASSUME NEW T, NEW new \in Seq(T)
  PROVE  /\ \A rule \in Range(Merged(<<>>, new)) :
              \E k \in 1..Len(new) : rule = NormalizeRule(new[k])
         /\ \A k \in 1..Len(new) : NormalizeRule(new[k]) \in Range(Merged(<<>>, new))
         /\ IsInjective(Merged(<<>>, new))
<1> DEFINE N == Len(new)
           R == NormalRules(T)
           Norm(k) == NormalizeRule(new[k])
<1>1. N \in Nat
  OBVIOUS
<1>2. \A k \in 1..N : Norm(k) \in R
  BY DEF NormalRules
<1>3. PICK c \in [0..N -> Seq(R)] :
        /\ Merged(<<>>, new) = c[N] /\ c[0] = <<>>
        /\ \A i \in 1..N : c[i] = MergeIntoAllow(c[i - 1], NormalizeRule(new[i]))
  BY MergedWalks
<1> HIDE DEF R
<1> DEFINE Good(i) == /\ \A j \in 1..Len(c[i]) : \E k \in 1..i : c[i][j] = Norm(k)
                      /\ \A k \in 1..i : \E j \in 1..Len(c[i]) : c[i][j] = Norm(k)
                      /\ \A j, k \in 1..Len(c[i]) : c[i][j] = c[i][k] => j = k
           S == {i \in 0..N : Good(i)}
<1>4. 0 \in S
  <2>1. Good(0)
    BY <1>3
  <2> HIDE DEF Good
  <2> QED BY <1>1, <2>1
<1>5. ASSUME NEW i \in 0..N, i < N, i \in S PROVE i + 1 \in S
  <2> DEFINE A == c[i]
             B == c[i + 1]
             r == Norm(i + 1)
  <2>1. i + 1 \in 1..N /\ (i + 1) - 1 = i /\ i + 1 \in 0..N
    BY <1>1, <1>5
  <2>2. A \in Seq(R) /\ r \in R /\ B = MergeIntoAllow(A, r)
    <3>1. c[i + 1] = MergeIntoAllow(c[(i + 1) - 1], NormalizeRule(new[i + 1]))
      BY <1>3, <2>1
    <3>2. r \in R
      BY <1>2, <2>1
    <3> QED BY <1>1, <2>1, <3>1, <3>2
  <2>3. Good(i)
    BY <1>5
  <2>4. \A k \in 1..(i + 1) : k \in 1..i \/ k = i + 1
    BY <1>1
  <2>5. 1..i \subseteq 1..(i + 1) /\ i + 1 \in 1..(i + 1)
    BY <1>1
  <2>6. /\ \A j \in 1..Len(A) : \E k \in 1..i : A[j] = Norm(k)
        /\ \A k \in 1..i : \E j \in 1..Len(A) : A[j] = Norm(k)
        /\ \A j, k \in 1..Len(A) : A[j] = A[k] => j = k
    <3> HIDE DEF Norm
    <3> QED BY <2>3
  <2>7. DOMAIN A = 1..Len(A) /\ Len(A) \in Nat
    <3> HIDE DEF A
    <3> QED BY <2>2
  <2>8. r = Norm(i + 1)
    OBVIOUS
  <2> HIDE DEF A, B, r, Norm
  <2>9. /\ \A j \in 1..Len(B) : \E k \in 1..(i + 1) : B[j] = Norm(k)
        /\ \A k \in 1..(i + 1) : \E j \in 1..Len(B) : B[j] = Norm(k)
        /\ \A j, k \in 1..Len(B) : B[j] = B[k] => j = k
    <3>1. CASE r \in Range(A)
      <4>1. B = A
        BY <2>2, <3>1 DEF MergeIntoAllow
      <4>2. \E j \in 1..Len(A) : A[j] = r
        BY <2>7, <3>1 DEF Range
      <4>3. \A k \in 1..(i + 1) : \E j \in 1..Len(B) : B[j] = Norm(k)
        BY <2>4, <2>6, <2>8, <4>1, <4>2
      <4> QED BY <2>5, <2>6, <4>1, <4>3
    <3>2. CASE r \notin Range(A)
      <4>1. B = Append(A, r)
        BY <2>2, <3>2 DEF MergeIntoAllow
      <4>2. /\ Len(B) = Len(A) + 1 /\ B[Len(A) + 1] = r
            /\ \A k \in 1..Len(A) : B[k] = A[k]
        BY <2>2, <4>1, AppendProperties
      <4>3. \A k \in 1..Len(B) : k \in 1..Len(A) \/ k = Len(A) + 1
        BY <2>7, <4>2
      <4>4. 1..Len(A) \subseteq 1..Len(B) /\ Len(A) + 1 \in 1..Len(B)
        BY <2>7, <4>2
      <4>5. \A j \in 1..Len(A) : A[j] # r
        BY <2>7, <3>2 DEF Range
      <4>6. \A j \in 1..Len(B) : \E k \in 1..(i + 1) : B[j] = Norm(k)
        <5> TAKE j \in 1..Len(B)
        <5>1. CASE j \in 1..Len(A)
          <6>1. PICK k \in 1..i : A[j] = Norm(k)
            BY <2>6, <5>1
          <6> QED BY <2>5, <4>2, <5>1, <6>1
        <5>2. CASE j = Len(A) + 1
          BY <2>5, <2>8, <4>2, <5>2
        <5> QED BY <4>3, <5>1, <5>2
      <4>7. \A k \in 1..(i + 1) : \E j \in 1..Len(B) : B[j] = Norm(k)
        BY <2>4, <2>6, <2>8, <4>2, <4>4
      <4>8. \A j, k \in 1..Len(B) : B[j] = B[k] => j = k
        BY <2>6, <4>2, <4>3, <4>5
      <4> QED BY <4>6, <4>7, <4>8
    <3> QED BY <3>1, <3>2
  <2>10. Good(i + 1)
    BY <2>9 DEF B
  <2> HIDE DEF Good
  <2> QED BY <2>1, <2>10
<1>6. Good(N)
  <2> HIDE DEF S
  <2>1. \A i \in 0..N : i \in S
    BY <1>1, <1>4, <1>5, WalkInduction
  <2>2. N \in S
    BY <1>1, <2>1
  <2> HIDE DEF Good
  <2> QED BY <2>2 DEF S
<1> DEFINE M == Merged(<<>>, new)
<1>7. M \in Seq(R) /\ M = c[N]
  BY <1>1, <1>3
<1>8. DOMAIN M = 1..Len(M)
  <2> HIDE DEF M
  <2> QED BY <1>7
<1>9. /\ \A j \in 1..Len(M) : \E k \in 1..N : M[j] = Norm(k)
      /\ \A k \in 1..N : \E j \in 1..Len(M) : M[j] = Norm(k)
      /\ \A j, k \in 1..Len(M) : M[j] = M[k] => j = k
  <2> HIDE DEF M, Norm
  <2> QED BY <1>6, <1>7
<1> HIDE DEF M
<1>10. IsInjective(M)
  BY <1>8, <1>9 DEF IsInjective
<1>11. \A rule \in Range(M) : \E k \in 1..N : rule = Norm(k)
  BY <1>8, <1>9 DEF Range
<1>12. \A k \in 1..N : Norm(k) \in Range(M)
  <2> HIDE DEF Norm
  <2> QED BY <1>8, <1>9 DEF Range
<1> QED BY <1>10, <1>11, <1>12 DEF M

(* The requests and their rules. *)

Targets == UNION {Asked(t) : t \in ToolNames}
Requests == [tool : ToolNames, command : Texts, target : Targets]

\* The first token of a part that begins with no blank: it is not empty, and a blank or
\* nothing follows it.
LEMMA FirstTokenOf ==
  ASSUME NEW part \in Texts, part # <<>>, part[1] # "blank"
  PROVE  \E n \in 1..Len(part) :
            /\ FirstToken(part) = SubSeq(part, 1, n)
            /\ FirstToken(part) \in Texts /\ Len(FirstToken(part)) = n
            /\ n < Len(part) => part[n + 1] = "blank"
<1> DEFINE N == Len(part)
           blanks == {i \in DOMAIN part : part[i] = "blank"}
           Good(n) == /\ FirstToken(part) = SubSeq(part, 1, n)
                      /\ FirstToken(part) \in Texts /\ Len(FirstToken(part)) = n
                      /\ n < Len(part) => part[n + 1] = "blank"
<1>1. N \in Nat /\ N # 0 /\ DOMAIN part = 1..N /\ \A i \in 1..N : part[i] \in Symbols
  BY DEF Texts
<1>2. ASSUME NEW n \in 1..N, FirstToken(part) = SubSeq(part, 1, n),
             n < N => part[n + 1] = "blank"
      PROVE  Good(n)
  <2>1. \A i \in 1..n : part[i] \in Symbols
    BY <1>1
  <2>2. SubSeq(part, 1, n) \in Texts /\ Len(SubSeq(part, 1, n)) = n - 1 + 1
    BY <1>1, <2>1, SubSeqProperties DEF Texts
  <2>3. n - 1 + 1 = n
    BY <1>1
  <2> QED BY <1>2, <2>2, <2>3
<1>3. CASE blanks = {}
  <2>1. FirstToken(part) = part
    BY <1>3 DEF FirstToken
  <2>2. SubSeq(part, 1, N) = part
    BY SubSeqFull DEF Texts
  <2>3. N \in 1..N /\ ~(N < N)
    BY <1>1
  <2>4. Good(N)
    BY <1>2, <2>1, <2>2, <2>3
  <2> HIDE DEF Good
  <2>5. \E n \in 1..N : Good(n)
    BY <2>3, <2>4
  <2> QED BY <2>5 DEF Good
<1>4. CASE blanks # {}
  <2> DEFINE n == Min(blanks) - 1
  <2>1. FirstToken(part) = SubSeq(part, 1, n)
    BY <1>4 DEF FirstToken
  <2>2. blanks \in SUBSET (0..N)
    <3>1. \A i \in 1..N : i \in 0..N
      BY <1>1
    <3> QED BY <1>1, <3>1
  <2>3. Min(blanks) \in blanks
    <3> HIDE DEF blanks
    <3> QED BY <1>1, <1>4, <2>2, MinOf
  <2>4. Min(blanks) \in 1..N /\ part[Min(blanks)] = "blank"
    BY <1>1, <2>3
  <2>5. Min(blanks) # 1
    BY <2>4
  <2>6. n \in 1..N /\ n + 1 = Min(blanks)
    <3> HIDE DEF blanks
    <3> QED BY <1>1, <2>4, <2>5
  <2>7. Good(n)
    <3> HIDE DEF n, Good, blanks
    <3> QED BY <1>2, <2>1, <2>4, <2>6
  <2> HIDE DEF Good, n
  <2>8. \E m \in 1..N : Good(m)
    BY <2>6, <2>7
  <2> QED BY <2>8 DEF Good
<1> QED BY <1>3, <1>4

\* A rule keeps its tool, and its text unless it ends in the suffix.
LEMMA NormalizedRule ==
  ASSUME NEW tool, NEW cmd
  PROVE  /\ NormalizeRule(Rule(tool, cmd)).tool = tool
         /\ cmd[Len(cmd)] # "colon_star" => NormalizeRule(Rule(tool, cmd)) = Rule(tool, cmd)
<1> DEFINE cut == SubSeq(cmd, 1, Len(cmd) - 1) \o <<"blank", "star">>
           rule == Rule(tool, cmd)
<1>1. rule.tool = tool /\ rule.text = cmd
  BY DEF Rule
<1>2. NormalizeRule(rule) \in {rule, [rule EXCEPT !.text = cut]}
  BY <1>1 DEF NormalizeRule, Rule
<1>3. [rule EXCEPT !.text = cut].tool = tool
  <2> HIDE DEF cut
  <2> QED BY DEF Rule
<1>4. cmd[Len(cmd)] # "colon_star" => NormalizeRule(rule) = rule
  BY <1>1 DEF NormalizeRule
<1> HIDE DEF cut
<1> QED BY <1>1, <1>2, <1>3, <1>4

\* The rules of a request.
LEMMA RuleTextsOf ==
  ASSUME NEW r \in Requests, NEW kind
  PROVE  /\ RuleTexts(r, kind) \in Seq({Rule(r.tool, RuleTexts(r, kind)[k].text) :
                                          k \in 1..Len(RuleTexts(r, kind))})
         /\ r.tool = "Bash" /\ kind \in {"exact", "prefix"} =>
              LET parts == SplitSubcommands(r.command)
              IN /\ Len(RuleTexts(r, kind)) = Len(parts)
                 /\ \A k \in 1..Len(parts) :
                      RuleTexts(r, kind)[k] =
                        IF kind = "exact" THEN Rule("Bash", parts[k])
                        ELSE Rule("Bash", FirstToken(parts[k]) \o <<"blank", "star">>)
         /\ r.tool = "Bash" /\ kind = "tool" => RuleTexts(r, kind) = <<Rule("Bash", <<"star">>)>>
<1> DEFINE new == RuleTexts(r, kind)
           parts == SplitSubcommands(r.command)
           S == {Rule(r.tool, new[k].text) : k \in 1..Len(new)}
<1>1. r.command \in Texts
  BY DEF Requests
<1>2. parts \in Seq(Texts)
  BY <1>1, SplitParts
<1>3. ASSUME NEW q \in Requests
      PROVE  \E t : RuleText(q, kind) = Rule(q.tool, t)
  <2>1. CASE kind = "tool" /\ q.tool = "mcp__server__tool"
    BY <2>1 DEF RuleText
  <2>2. CASE kind = "tool" /\ q.tool # "mcp__server__tool"
    BY <2>2 DEF RuleText
  <2>3. CASE kind = "prefix"
    BY <2>3 DEF RuleText
  <2>4. CASE kind = "exact" /\ q.tool = "Bash"
    BY <2>4 DEF RuleText
  <2>5. CASE kind \notin {"tool", "prefix"} /\ ~(kind = "exact" /\ q.tool = "Bash")
    BY <2>5 DEF RuleText
  <2> QED BY <2>1, <2>2, <2>3, <2>4, <2>5
<1>4. CASE r.tool = "Bash" /\ kind \in {"exact", "prefix"}
  <2> DEFINE Of(k) == [r EXCEPT !.command = parts[k]]
  <2>1. new = [i \in DOMAIN parts |-> RuleText(Of(i), kind)]
    BY <1>4 DEF RuleTexts
  <2>2. DOMAIN parts = 1..Len(parts) /\ Len(parts) \in Nat
    <3> HIDE DEF parts
    <3> QED BY <1>2
  <2>3. ASSUME NEW k \in 1..Len(parts)
        PROVE  Of(k) \in Requests /\ Of(k).command = parts[k] /\ Of(k).tool = "Bash"
    <3>1. parts[k] \in Texts
      <4> HIDE DEF parts
      <4> QED BY <1>2, <2>2
    <3> HIDE DEF parts
    <3> QED BY <1>4, <3>1 DEF Requests
  <2> HIDE DEF Of, parts
  <2>4. ASSUME NEW k \in 1..Len(parts)
        PROVE  RuleText(Of(k), kind) =
                 IF kind = "exact" THEN Rule("Bash", parts[k])
                 ELSE Rule("Bash", FirstToken(parts[k]) \o <<"blank", "star">>)
    <3>1. Of(k).command = parts[k] /\ Of(k).tool = "Bash"
      BY <2>3
    <3>2. CASE kind = "exact"
      BY <3>1, <3>2 DEF RuleText
    <3>3. CASE kind = "prefix"
      BY <3>1, <3>3 DEF RuleText
    <3> QED BY <1>4, <3>2, <3>3
  <2>5. new = [i \in 1..Len(parts) |-> new[i]] /\ \A k \in 1..Len(parts) : new[k] = RuleText(Of(k), kind)
    <3> HIDE DEF new
    <3> QED BY <2>1, <2>2
  <2> HIDE DEF new
  <2>6. \A k \in 1..Len(parts) : new[k] = Rule(r.tool, new[k].text)
    <3> TAKE k \in 1..Len(parts)
    <3>1. PICK t : new[k] = Rule("Bash", t)
      BY <2>4, <2>5
    <3>2. new[k].text = t
      BY <3>1 DEF Rule
    <3> QED BY <1>4, <3>1, <3>2
  <2>7. Len(new) = Len(parts) /\ DOMAIN new = 1..Len(parts)
    <3>1. \A n \in Nat : \A f : f = [i \in 1..n |-> f[i]] => Len(f) = n /\ DOMAIN f = 1..n
      OBVIOUS
    <3> QED BY <2>2, <2>5, <3>1
  <2>8. \A k \in 1..Len(parts) : new[k] \in S
    BY <2>6, <2>7
  <2> HIDE DEF S
  <2>9. new \in Seq(S)
    <3>1. new \in [1..Len(parts) -> S]
      BY <2>5, <2>8
    <3> QED BY <2>2, <3>1, SeqDef
  <2> QED BY <1>4, <2>4, <2>5, <2>7, <2>9 DEF new, S, parts
<1>5. CASE ~(r.tool = "Bash" /\ kind \in {"exact", "prefix"})
  <2>1. new = <<RuleText(r, kind)>>
    BY <1>5 DEF RuleTexts
  <2>2. PICK t : RuleText(r, kind) = Rule(r.tool, t)
    BY <1>3
  <2>3. r.tool = "Bash" /\ kind = "tool" => RuleText(r, kind) = Rule("Bash", <<"star">>)
    BY DEF RuleText
  <2>4. new = <<Rule(r.tool, t)>> /\ Rule(r.tool, t).text = t
    BY <2>1, <2>2 DEF Rule
  <2> HIDE DEF new
  <2>5. Len(new) = 1 /\ new[1] = Rule(r.tool, t) /\ new[1].text = t
    BY <2>4
  <2>6. Rule(r.tool, t) \in S
    BY <2>5
  <2> HIDE DEF S
  <2>7. new \in Seq(S)
    BY <2>4, <2>6
  <2> QED BY <1>5, <2>1, <2>3, <2>7 DEF new, S
<1> QED BY <1>4, <1>5

\* The rules that are saved for a request are of its tool, each of them once.
LEMMA SavedRules ==
  ASSUME NEW r \in Requests, NEW kind
  PROVE  LET new == RuleTexts(r, kind)
             saved == Merged(<<>>, new)
         IN /\ \A rule \in Range(saved) : rule.tool = r.tool
            /\ IsInjective(saved)
            /\ \A k \in 1..Len(new) : NormalizeRule(new[k]) \in Range(saved)
<1> DEFINE new == RuleTexts(r, kind)
           saved == Merged(<<>>, new)
           S == {Rule(r.tool, new[k].text) : k \in 1..Len(new)}
<1>1. new \in Seq(S)
  BY RuleTextsOf
<1>2. \A s \in S : NormalizeRule(s).tool = r.tool
  BY NormalizedRule
<1>3. \A k \in 1..Len(new) : new[k] \in S
  <2> HIDE DEF new, S
  <2> QED BY <1>1
<1> HIDE DEF new, S
<1>4. /\ \A rule \in Range(saved) : \E k \in 1..Len(new) : rule = NormalizeRule(new[k])
      /\ \A k \in 1..Len(new) : NormalizeRule(new[k]) \in Range(saved)
      /\ IsInjective(saved)
  BY <1>1, MergedRules
<1> HIDE DEF saved
<1>5. \A rule \in Range(saved) : rule.tool = r.tool
  <2> TAKE rule \in Range(saved)
  <2>1. PICK k \in 1..Len(new) : rule = NormalizeRule(new[k])
    BY <1>4
  <2> QED BY <1>2, <1>3, <2>1
<1> QED BY <1>4, <1>5 DEF saved, new

\* The rules saved for a Bash request, whatever their kind, allow each of its parts.
LEMMA PartsAreAllowed ==
  ASSUME NEW r \in Requests, r.tool = "Bash", NEW kind \in {"tool", "exact", "prefix"},
         NEW k \in 1..Len(SplitSubcommands(r.command)),
         LET p == SplitSubcommands(r.command)[k] IN p[Len(p)] # "colon_star",
         RuleTexts(r, kind) # <<>>
  PROVE  \E rule \in Range(Merged(<<>>, RuleTexts(r, kind))) :
            Matches(rule, SplitSubcommands(r.command)[k])
<1> DEFINE parts == SplitSubcommands(r.command)
           p == parts[k]
           new == RuleTexts(r, kind)
           saved == Merged(<<>>, new)
<1>1. r.command \in Texts
  BY DEF Requests
<1>2. parts \in Seq(Texts) /\ p # <<>> /\ Trim(p) = p /\ p \in Texts
  <2>1. parts \in Seq(Texts) /\ \A j \in 1..Len(parts) : parts[j] # <<>> /\ Trim(parts[j]) = parts[j]
    BY <1>1, SplitParts
  <2> HIDE DEF parts
  <2>2. p \in Texts
    BY <2>1 DEF parts
  <2> QED BY <2>1, <2>2 DEF parts
<1>3. \A j \in 1..Len(new) : NormalizeRule(new[j]) \in Range(saved)
  BY SavedRules
<1>4. CASE kind = "tool"
  <2> DEFINE rule == Rule("Bash", <<"star">>)
  <2>1. new = <<rule>>
    BY <1>4, RuleTextsOf
  <2>2. Len(new) = 1 /\ new[1] = rule
    BY <2>1
  <2>3. NormalizeRule(rule) = rule
    <3>1. <<"star">>[Len(<<"star">>)] # "colon_star"
      OBVIOUS
    <3> QED BY <3>1, NormalizedRule
  <2> HIDE DEF new, saved
  <2>4. rule \in Range(saved)
    BY <1>3, <2>2, <2>3
  <2>5. Matches(rule, p)
    BY DEF Matches, Rule
  <2> QED BY <2>4, <2>5 DEF new, saved
<1>5. CASE kind = "exact"
  <2> DEFINE rule == Rule("Bash", p)
  <2>1. Len(new) = Len(parts) /\ new[k] = rule
    BY <1>5, RuleTextsOf
  <2>2. NormalizeRule(rule) = rule
    BY NormalizedRule
  <2>3. Matches(rule, p)
    <3> HIDE DEF p
    <3> QED BY DEF Matches, Rule
  <2> HIDE DEF new, saved, rule
  <2>4. rule \in Range(saved)
    BY <1>3, <2>1, <2>2
  <2> QED BY <2>3, <2>4 DEF new, saved
<1>6. CASE kind = "prefix"
  <2> DEFINE token == FirstToken(p)
             cmd == token \o <<"blank", "star">>
             rule == Rule("Bash", cmd)
  <2>1. Len(new) = Len(parts) /\ new[k] = rule
    BY <1>6, RuleTextsOf
  <2>2. p[1] # "blank"
    <3> HIDE DEF p
    <3>1. PICK a \in 1..Len(p) : /\ \A i \in 1..Len(Trim(p)) : Trim(p)[i] = p[(a - 1) + i]
                                 /\ p[a] # "blank"
      BY <1>2, TrimLies
    <3>2. 1 \in 1..Len(p) /\ (a - 1) + 1 = a
      BY <1>2, <3>1 DEF Texts
    <3> QED BY <1>2, <3>1, <3>2
  <2>3. PICK n \in 1..Len(p) :
          /\ token = SubSeq(p, 1, n) /\ token \in Texts /\ Len(token) = n
          /\ n < Len(p) => p[n + 1] = "blank"
    <3> HIDE DEF p
    <3> QED BY <1>2, <2>2, FirstTokenOf
  <2>4. Len(p) \in Nat
    <3> HIDE DEF p
    <3> QED BY <1>2 DEF Texts
  <2> HIDE DEF token, p
  <2>5. /\ Len(cmd) = n + 2 /\ cmd[n + 2] = "star"
        /\ \A i \in 1..n : cmd[i] = token[i]
    <3> DEFINE All == Symbols \cup {"blank", "star"}
    <3>1. token \in Seq(All) /\ <<"blank", "star">> \in Seq(All)
      BY <2>3 DEF Texts
    <3>2. /\ Len(cmd) = Len(token) + 2
          /\ \A i \in 1..(Len(token) + 2) :
               cmd[i] = IF i <= Len(token) THEN token[i] ELSE <<"blank", "star">>[i - Len(token)]
      BY <3>1, ConcatProperties
    <3>3. n + 2 \in 1..(n + 2) /\ ~(n + 2 <= n) /\ (n + 2) - n = 2 /\ 1..n \subseteq 1..(n + 2)
      BY <2>4
    <3> QED BY <2>3, <2>4, <3>2, <3>3
  <2> HIDE DEF cmd
  <2>6. SubSeq(cmd, 1, n) = SubSeq(p, 1, n)
    <3>1. \A i \in 1..n : cmd[i] \in Symbols
      <4>1. \A i \in 1..n : token[i] \in Symbols
        BY <2>3 DEF Texts
      <4> QED BY <2>5, <4>1
    <3>2. /\ SubSeq(cmd, 1, n) \in Texts /\ Len(SubSeq(cmd, 1, n)) = n
          /\ \A i \in 1..n : SubSeq(cmd, 1, n)[i] = cmd[i]
      <4>1. /\ SubSeq(cmd, 1, n) \in Seq(Symbols)
            /\ Len(SubSeq(cmd, 1, n)) = IF 1 <= n THEN n - 1 + 1 ELSE 0
            /\ \A i \in 1..(n - 1 + 1) : SubSeq(cmd, 1, n)[i] = cmd[1 + i - 1]
        BY <2>4, <3>1, SubSeqProperties
      <4>2. n - 1 + 1 = n /\ 1 <= n /\ \A i \in 1..n : 1 + i - 1 = i
        BY <2>4
      <4> QED BY <4>1, <4>2 DEF Texts
    <3>3. SubSeq(cmd, 1, n) = token
      BY <2>3, <2>5, <3>2, SeqEqual DEF Texts
    <3> QED BY <2>3, <3>3
  <2>7. rule.text = cmd /\ Len(cmd) > 2 /\ Len(cmd) - 2 = n
    BY <2>4, <2>5 DEF Rule
  <2> HIDE DEF rule
  <2>8. Matches(rule, p)
    <3>1. Len(p) >= n /\ (Len(p) > n => n < Len(p)) /\ cmd[Len(cmd)] = "star"
      BY <2>4, <2>5
    <3> QED BY <2>3, <2>6, <2>7, <3>1 DEF Matches
  <2>9. NormalizeRule(rule) = rule
    <3>1. cmd[Len(cmd)] # "colon_star"
      BY <2>5
    <3> QED BY <3>1, NormalizedRule DEF rule
  <2>10. k \in 1..Len(new)
    BY <2>1
  <2> HIDE DEF new, saved
  <2>11. rule \in Range(saved)
    BY <1>3, <2>1, <2>9, <2>10
  <2> QED BY <2>8, <2>11 DEF new, saved, p
<1> QED BY <1>4, <1>5, <1>6

\* A severity is 0, 1 or 2, and 2 for a dangerous pattern.
LEMMA SeverityOf ==
  ASSUME NEW rule
  PROVE  /\ Severity(rule) \in 0..2
         /\ "rm_rf" \in Range(rule.text) => Severity(rule) = 2
<1> DEFINE Danger == "rm_rf" \in Range(rule.text)
<1>1. Severity(rule) \in {0, 1, 2}
  BY Zenon DEF Severity
<1>2. Danger => Severity(rule) = 2
  <2>1. Danger => rule.text # <<"star">>
    BY DEF Range
  <2> HIDE DEF Danger
  <2> QED BY <2>1, Zenon DEF Severity, Danger
<1>3. \A n \in {0, 1, 2} : n \in 0..2
  OBVIOUS
<1> HIDE DEF Danger
<1> QED BY <1>1, <1>2, <1>3 DEF Danger

\* The kinds of rules for a Bash request.
LEMMA BashKinds ==
  ASSUME NEW r \in Requests, r.tool = "Bash", r.target = "anything"
  PROVE  /\ Kinds(r) \subseteq {"tool", "exact", "prefix"}
         /\ r.command # <<>> => "exact" \in Kinds(r)
<1>1. ~Protected(r)
  BY DEF Protected, FilePaths
<1>2. CASE r.command # <<>>
  BY <1>1, <1>2 DEF Kinds
<1>3. CASE r.command = <<>>
  <2>1. Kinds(r) = {"tool"} \cup {}
    BY <1>1, <1>3 DEF Kinds, FileTools
  <2> QED BY <1>3, <2>1
<1> QED BY <1>2, <1>3

\* A dangerous command is shown as such: one of its parts holds the pattern, and so
\* does the exact rule for that part.
LEMMA DangerShown ==
  ASSUME NEW r \in Requests, r.tool = "Bash", r.target = "anything",
         "rm_rf" \in Range(r.command)
  PROVE  ShownSeverity(r) = 2
<1> DEFINE parts == SplitSubcommands(r.command)
           new == RuleTexts(r, "exact")
           Shown(k) == {Severity(rule) : rule \in Range(RuleTexts(r, k))}
           All == UNION {Shown(k) : k \in Kinds(r)}
           S == {0} \cup All
<1>1. r.command \in Texts
  BY DEF Requests
<1>2. Has(r.command, "rm_rf") /\ r.command # <<>>
  BY <1>1 DEF Has, Texts, Range
<1>3. parts \in Seq(Texts) /\ Contents(parts) = Content(r.command)
  BY <1>1, SplitParts
<1>4. \E k \in 1..Len(parts) : Has(parts[k], "rm_rf")
  <2>1. Has(Content(r.command), "rm_rf")
    BY <1>1, <1>2, ContentHas
  <2> HIDE DEF parts
  <2> QED BY <1>3, <2>1, ContentsHas
<1>5. PICK k \in 1..Len(parts) : Has(parts[k], "rm_rf")
  BY <1>4
<1>6. Len(new) = Len(parts) /\ new[k] = Rule("Bash", parts[k])
  BY <1>5, RuleTextsOf
<1>7. parts[k] \in Texts
  <2> HIDE DEF parts
  <2> QED BY <1>3, <1>5
<1>8. "rm_rf" \in Range(new[k].text)
  <2>1. new[k].text = parts[k]
    BY <1>6 DEF Rule
  <2> HIDE DEF parts, new
  <2> QED BY <1>5, <1>7, <2>1 DEF Has, Range, Texts
<1>9. new[k] \in Range(new)
  <2>1. new \in Seq({Rule(r.tool, new[j].text) : j \in 1..Len(new)})
    BY RuleTextsOf
  <2> DEFINE T == {Rule(r.tool, new[j].text) : j \in 1..Len(new)}
  <2> HIDE DEF T, new, parts
  <2>2. new \in Seq(T)
    BY <2>1 DEF T
  <2> QED BY <1>5, <1>6, <2>2 DEF Range
<1>10. Severity(new[k]) = 2
  BY <1>8, SeverityOf
<1>11. 2 \in Shown("exact")
  BY <1>9, <1>10
<1>12. "exact" \in Kinds(r)
  BY <1>2, BashKinds
<1>13. \A kind : Shown(kind) \in SUBSET (0..2)
  <2> TAKE kind
  <2>1. \A rule \in Range(RuleTexts(r, kind)) : Severity(rule) \in 0..2
    BY SeverityOf
  <2> QED BY <2>1
<1> HIDE DEF Shown, new, parts
<1>14. 2 \in All /\ All \in SUBSET (0..2)
  BY <1>11, <1>12, <1>13
<1> HIDE DEF All
<1>15. S \in SUBSET (0..2) /\ 2 \in S /\ S # {}
  BY <1>14
<1> HIDE DEF S
<1>16. Max(S) \in 0..2 /\ 2 <= Max(S)
  BY <1>15, MaxOf
<1>17. Max(S) = 2
  BY <1>16
<1>18. ShownSeverity(r) = Max(S)
  BY DEF ShownSeverity, S, All, Shown
<1> QED BY <1>17, <1>18

\* The inductive invariant: the settings file holds what the clicked button saves.
RulesInd ==
  /\ request \in Requests /\ Len(request.command) <= MaxCommand
  /\ request.tool = "Bash" => request.target = "anything"
  /\ extraDirs \subseteq Layers
  /\ choice = "none" => allow = <<>>
  /\ choice # "none" =>
       /\ choice \in Kinds(request) /\ RuleTexts(request, choice) # <<>>
       /\ allow = Merged(<<>>, RuleTexts(request, choice))

\* The invariant holds of a request that is not typed yet,
LEMMA RulesInitially == RulesInit => RulesInd
<1> SUFFICES ASSUME RulesInit PROVE RulesInd
  OBVIOUS
<1>1. <<>> \in Texts /\ Len(<<>>) = 0
  BY DEF Texts
<1>2. request \in Requests /\ request.command = <<>>
  BY <1>1 DEF RulesInit, Requests, Targets
<1>3. Len(request.command) <= MaxCommand
  BY <1>1, <1>2, RulesAssumption
<1>4. extraDirs \subseteq Layers
  BY DEF RulesInit
<1>5. request.tool = "Bash" => request.target = "anything"
  BY DEF RulesInit, Asked, FileTools
<1> QED BY <1>2, <1>3, <1>4, <1>5 DEF RulesInit, RulesInd

\* and typing and the click keep it,
LEMMA RulesStep == RulesInd /\ [RulesNext]_rulesVars => RulesInd'
<1> SUFFICES ASSUME RulesInd, [RulesNext]_rulesVars PROVE RulesInd'
  OBVIOUS
<1>1. ASSUME NEW s \in Symbols, Type(s) PROVE RulesInd'
  <2> DEFINE c == Append(request.command, s)
  <2>1. /\ request \in Requests /\ request.command \in Texts
        /\ Len(request.command) \in Nat /\ Len(request.command) < MaxCommand
    BY <1>1 DEF RulesInd, Requests, Texts, Type
  <2>2. c \in Texts /\ Len(c) = Len(request.command) + 1
    BY <2>1 DEF Texts
  <2>3. Len(c) <= MaxCommand
    BY <2>1, <2>2, RulesAssumption
  <2>4. request' = [request EXCEPT !.command = c]
    BY <1>1 DEF Type
  <2> HIDE DEF c
  <2>5. request' \in Requests /\ request'.command = c
    BY <2>1, <2>2, <2>4 DEF Requests
  <2>6. request'.tool = request.tool /\ request'.target = request.target
    BY <2>1, <2>4 DEF Requests
  <2> QED BY <1>1, <2>3, <2>5, <2>6 DEF RulesInd, Type
<1>2. ASSUME NEW kind \in {"exact", "prefix", "domain", "tool"}, AlwaysAllow(kind)
      PROVE  RulesInd'
  <2>1. request' = request /\ extraDirs' = extraDirs /\ choice' = kind /\ kind # "none"
    BY <1>2 DEF AlwaysAllow
  <2>2. Kinds(request)' = Kinds(request)
    BY <2>1 DEF Kinds, Protected, AdditionalDirs
  <2>3. RuleTexts(request, choice)' = RuleTexts(request, kind)
    BY <2>1
  <2>4. allow' = Merged(<<>>, RuleTexts(request, kind))
    BY <1>2 DEF AlwaysAllow, RulesInd
  <2> QED BY <1>2, <2>1, <2>2, <2>3, <2>4 DEF RulesInd, AlwaysAllow
<1>3. CASE UNCHANGED rulesVars
  <2>1. Kinds(request)' = Kinds(request)
    BY <1>3 DEF Kinds, Protected, AdditionalDirs, rulesVars
  <2> QED BY <1>3, <2>1 DEF RulesInd, rulesVars
<1> QED BY <1>1, <1>2, <1>3 DEF RulesNext

\* so that it always holds.
LEMMA RulesHold == RulesSpec => []RulesInd
BY RulesInitially, RulesStep, PTL DEF RulesSpec

\* It implies the type invariant
LEMMA RulesIndType == RulesInd => RulesTypeOK
<1> SUFFICES ASSUME RulesInd PROVE RulesTypeOK
  OBVIOUS
<1>1. request \in Requests /\ request.command \in Seq(Symbols)
  BY DEF RulesInd, Requests, Texts
<1>2. (\A rule \in Range(allow) : rule.tool = request.tool) /\ IsInjective(allow)
  <2>1. CASE choice = "none"
    BY <2>1 DEF RulesInd, Range, IsInjective
  <2>2. CASE choice # "none"
    BY <1>1, <2>2, SavedRules DEF RulesInd
  <2> QED BY <2>1, <2>2
<1> QED BY <1>1, <1>2 DEF RulesInd, RulesTypeOK

\* and that the rules cover the request.
LEMMA RulesIndCovers == RulesInd => RulesCoverRequest
<1> SUFFICES ASSUME RulesInd PROVE RulesCoverRequest
  OBVIOUS
<1> DEFINE parts == SplitSubcommands(request.command)
<1>1. request \in Requests /\ request.command \in Texts
  BY DEF RulesInd, Requests
<1>2. /\ parts \in Seq(Texts) /\ Contents(parts) = Content(request.command)
      /\ \A k \in 1..Len(parts) :
           /\ SplitSubcommands(parts[k]) = <<parts[k]>>
           /\ Closed(Trim(request.command)) =>
                Closed(parts[k]) \/ parts[k][Len(parts[k])] = "esc"
  BY <1>1, SplitParts
<1>3. \A p \in Range(parts) : \E k \in 1..Len(parts) : p = parts[k]
  <2> HIDE DEF parts
  <2> QED BY <1>2 DEF Range
<1>4. SplitIsFaithful
  BY <1>2, <1>3 DEF SplitIsFaithful
<1>5. EveryPartIsAllowed
  <2> SUFFICES ASSUME choice # "none", request.tool = "Bash", NEW p \in Range(parts),
                      p[Len(p)] # "colon_star"
               PROVE  \E rule \in Range(allow) : Matches(rule, p)
    BY DEF EveryPartIsAllowed
  <2>1. PICK k \in 1..Len(parts) : p = parts[k]
    BY <1>3
  <2>2. choice \in {"tool", "exact", "prefix"}
    BY <1>1, BashKinds DEF RulesInd
  <2>3. \E rule \in Range(Merged(<<>>, RuleTexts(request, choice))) : Matches(rule, parts[k])
    BY <1>1, <2>1, <2>2, PartsAreAllowed DEF RulesInd
  <2> QED BY <2>1, <2>3 DEF RulesInd
<1>6. DangerIsShown
  BY <1>1, DangerShown DEF DangerIsShown, RulesInd
<1> QED BY <1>4, <1>5, <1>6 DEF RulesCoverRequest

\* The type invariant of the rules: an Always Allow saves rules of the tool that was
\* asked for, each of them once (claude_settings/rule.rs, dedup.rs).
THEOREM RulesStayTyped == RulesSpec => []RulesTypeOK
BY RulesHold, RulesIndType, PTL

\* However long a command is and however it is quoted: its parts lose none of its words
\* and are not split again, the rules an Always Allow saves allow every one of them,
\* and level 2 of the prompt tells a dangerous pattern in any of them.
THEOREM RulesStayFaithful == RulesSpec => []RulesCoverRequest
BY RulesHold, RulesIndCovers, PTL

=============================================================================

---------------------------- MODULE BenchProofs ----------------------------
(***************************************************************************)
(* Proof that the report of the benchmark is complete, for any number of   *)
(* workers and of connections.                                             *)
(***************************************************************************)
EXTENDS Bench, FiniteSetTheorems, TLAPS

\* There is much for the provers to look through here: they get more time.
USE SMTT(40), ZenonT(40)

(***************************************************************************)
(* The inductive invariant                                                 *)
(***************************************************************************)

Places == {"claim", "connect", "head", "echo", "done", "failed"}

\* A tunnel that was measured.
Sample == [index : Nat, reply : {200}]

\* The variables that the argument is about have their types.
Types ==
    /\ next \in Nat
    /\ worker \in [Workers -> Places]
    /\ index \in [Workers -> Nat]
    /\ reply \in [Workers -> {0, 200, 502}]
    /\ latencies \in [Workers -> Seq(Sample)]
    /\ joined \subseteq Workers
    /\ collected \in Seq(Sample)

\* Tunnel k is among the samples s.
Has(s, k) == \E i \in 1..Len(s) : s[i].index = k

\* No tunnel is among them twice.
Distinct(s) == \A i, j \in 1..Len(s) : s[i].index = s[j].index => i = j

\* The worker is opening a tunnel.
Busy(w) == worker[w] \in {"connect", "head", "echo"}

\* The worker has measured tunnel k or is opening it.
Owns(w, k) == Has(latencies[w], k) \/ (Busy(w) /\ index[w] = k)

\* A tunnel has one owner, who measures it once; it was claimed.
Sharing ==
    /\ \A w \in Workers :
          /\ Distinct(latencies[w])
          /\ Busy(w) => ~Has(latencies[w], index[w])
    /\ \A w, v \in Workers : \A k \in Nat : Owns(w, k) /\ Owns(v, k) => w = v
    /\ \A w \in Workers : \A k \in Nat : Owns(w, k) => k < next /\ k < Connections

\* Every tunnel that was claimed has an owner, unless a worker has failed.
Claimed ==
    \A k \in 0..(Connections - 1) :
        k < next => \/ \E w \in Workers : Owns(w, k)
                    \/ \E w \in Workers : worker[w] = "failed"

\* What main has is what the workers it joined had measured.
Collecting ==
    /\ Distinct(collected)
    /\ \A k \in Nat : Has(collected, k) <=> \E w \in joined : Has(latencies[w], k)
    /\ \A w \in joined : worker[w] = "done"

\* A worker stops when every tunnel is claimed, and main when all have stopped.
Ending ==
    /\ \A w \in Workers : worker[w] = "done" => next >= Connections
    /\ main \in {"stopping", "done"} => joined = Workers

BenchInv == Types /\ Sharing /\ Claimed /\ Collecting /\ Ending

(***************************************************************************)
(* Facts about samples                                                     *)
(***************************************************************************)

\* One more sample.
LEMMA AppendHas ==
  ASSUME NEW s \in Seq(Sample), NEW x \in Sample
  PROVE  /\ Append(s, x) \in Seq(Sample)
         /\ \A k : Has(Append(s, x), k) <=> Has(s, k) \/ x.index = k
         /\ Distinct(s) /\ ~Has(s, x.index) => Distinct(Append(s, x))
  <1> DEFINE a == Append(s, x)
             n == Len(s)
  <1>1. /\ a \in Seq(Sample) /\ n \in Nat /\ Len(a) = n + 1 /\ a[n + 1] = x
        /\ \A i \in 1..n : a[i] = s[i]
    OBVIOUS
  <1> HIDE DEF a
  <1>2. \A k : Has(a, k) <=> Has(s, k) \/ x.index = k
    <2> SUFFICES ASSUME NEW k PROVE Has(a, k) <=> Has(s, k) \/ x.index = k
      OBVIOUS
    <2>1. Has(a, k) => Has(s, k) \/ x.index = k
      <3> SUFFICES ASSUME Has(a, k) PROVE Has(s, k) \/ x.index = k
        OBVIOUS
      <3>1. PICK i \in 1..Len(a) : a[i].index = k
        BY DEF Has
      <3>2. CASE i = n + 1
        BY <1>1, <3>1, <3>2
      <3>3. CASE i # n + 1
        <4>1. i \in 1..n
          BY <1>1, <3>3
        <4> QED
          BY <1>1, <3>1, <4>1 DEF Has
      <3> QED
        BY <3>2, <3>3
    <2>2. Has(s, k) => Has(a, k)
      <3>1. \A i \in 1..n : i \in 1..Len(a)
        BY <1>1
      <3> QED
        BY <1>1, <3>1 DEF Has
    <2>3. x.index = k => Has(a, k)
      <3>1. n + 1 \in 1..Len(a)
        BY <1>1
      <3> QED
        BY <1>1, <3>1 DEF Has
    <2> QED
      BY <2>1, <2>2, <2>3
  <1>3. Distinct(s) /\ ~Has(s, x.index) => Distinct(a)
    <2> SUFFICES ASSUME Distinct(s), ~Has(s, x.index),
                        NEW i \in 1..Len(a), NEW j \in 1..Len(a), a[i].index = a[j].index
                 PROVE  i = j
      BY DEF Distinct
    <2>1. \A m \in 1..Len(a) : m = n + 1 \/ m \in 1..n
      BY <1>1
    <2>2. \A m \in 1..n : a[m].index # x.index
      BY <1>1 DEF Has
    <2>3. CASE i \in 1..n /\ j \in 1..n
      BY <1>1, <2>3 DEF Distinct
    <2>4. CASE i = n + 1 \/ j = n + 1
      BY <1>1, <2>1, <2>2, <2>4
    <2> QED
      BY <2>1, <2>3, <2>4
  <1> QED
    BY <1>1, <1>2, <1>3 DEF a

\* The samples of one more worker.
LEMMA CatHas ==
  ASSUME NEW s \in Seq(Sample), NEW t \in Seq(Sample)
  PROVE  /\ s \o t \in Seq(Sample)
         /\ \A k : Has(s \o t, k) <=> Has(s, k) \/ Has(t, k)
         /\ Distinct(s) /\ Distinct(t) /\ (\A k \in Nat : ~(Has(s, k) /\ Has(t, k)))
               => Distinct(s \o t)
  <1> DEFINE a == s \o t
             m == Len(s)
             n == Len(t)
  <1>1. /\ a \in Seq(Sample) /\ m \in Nat /\ n \in Nat /\ Len(a) = m + n
        /\ \A i \in 1..m : a[i] = s[i]
        /\ \A i \in 1..Len(a) : i > m => a[i] = t[i - m]
    OBVIOUS
  <1> HIDE DEF a
  <1>2. \A i \in 1..Len(a) : i \in 1..m \/ (i - m \in 1..n /\ a[i] = t[i - m])
    BY <1>1
  <1>3. \A i \in 1..n : m + i \in 1..Len(a) /\ a[m + i] = t[i]
    <2> SUFFICES ASSUME NEW i \in 1..n PROVE m + i \in 1..Len(a) /\ a[m + i] = t[i]
      OBVIOUS
    <2>1. m + i \in 1..Len(a) /\ m + i > m /\ (m + i) - m = i
      BY <1>1
    <2> QED
      BY <1>1, <2>1
  <1>4. \A k : Has(a, k) <=> Has(s, k) \/ Has(t, k)
    <2> SUFFICES ASSUME NEW k PROVE Has(a, k) <=> Has(s, k) \/ Has(t, k)
      OBVIOUS
    <2>1. Has(a, k) => Has(s, k) \/ Has(t, k)
      BY <1>1, <1>2, ZenonT(40) DEF Has
    <2>2. Has(s, k) => Has(a, k)
      <3>1. \A i \in 1..m : i \in 1..Len(a)
        BY <1>1
      <3> QED
        BY <1>1, <3>1 DEF Has
    <2>3. Has(t, k) => Has(a, k)
      BY <1>3 DEF Has
    <2> QED
      BY <2>1, <2>2, <2>3
  <1>5. ASSUME Distinct(s), Distinct(t), \A k \in Nat : ~(Has(s, k) /\ Has(t, k))
        PROVE  Distinct(a)
    <2> SUFFICES ASSUME NEW i \in 1..Len(a), NEW j \in 1..Len(a), a[i].index = a[j].index
                 PROVE  i = j
      BY DEF Distinct
    <2>1. \A x \in 1..m, y \in 1..n : s[x].index # t[y].index
      <3> SUFFICES ASSUME NEW x \in 1..m, NEW y \in 1..n, s[x].index = t[y].index PROVE FALSE
        OBVIOUS
      <3>1. s[x].index \in Nat
        <4>1. s[x] \in Sample
          BY x \in 1..Len(s)
        <4> QED
          BY <4>1 DEF Sample
      <3>2. Has(s, s[x].index) /\ Has(t, s[x].index)
        BY DEF Has
      <3> QED
        BY <1>5, <3>1, <3>2
    <2>2. CASE i \in 1..m /\ j \in 1..m
      BY <1>1, <1>5, <2>2 DEF Distinct
    <2>3. CASE i \in 1..m /\ j \notin 1..m
      BY <1>1, <1>2, <2>1, <2>3
    <2>4. CASE i \notin 1..m /\ j \in 1..m
      BY <1>1, <1>2, <2>1, <2>4
    <2>5. CASE i \notin 1..m /\ j \notin 1..m
      <3>1. i - m \in 1..n /\ j - m \in 1..n /\ t[i - m].index = t[j - m].index
        BY <1>2, <2>5
      <3>2. i - m = j - m
        BY <1>5, <3>1 DEF Distinct
      <3> QED
        BY <1>1, <3>2
    <2> QED
      BY <2>2, <2>3, <2>4, <2>5
  <1> QED
    BY <1>1, <1>4, <1>5 DEF a

(***************************************************************************)
(* The steps                                                               *)
(***************************************************************************)

\* A worker moves on and leaves the samples alone: it keeps its tunnel, or it
\* fails.
LEMMA MovesOn ==
  ASSUME BenchInv, NEW w \in Workers, Busy(w),
         NEW place \in {"head", "echo", "failed"}, Goto(w, place),
         reply' \in [Workers -> {0, 200, 502}],
         UNCHANGED <<next, index, latencies, report>>
  PROVE  BenchInv'
  <1> USE DEF BenchInv
  <1>1. worker' = [worker EXCEPT ![w] = place] /\ worker \in [Workers -> Places]
    BY DEF Goto, Types
  <1>2. /\ worker' \in [Workers -> Places] /\ worker'[w] = place
        /\ \A v \in Workers : v # w => worker'[v] = worker[v]
    BY <1>1 DEF Places
  <1>3. UNCHANGED <<joined, collected, main>>
    BY DEF report
  <1>4. \A v \in Workers : Busy(v)' => Busy(v)
    BY <1>2 DEF Busy
  <1>5. \A v \in Workers : \A k : Owns(v, k)' => Owns(v, k)
    BY <1>4 DEF Owns
  <1>6. \A v \in Workers : worker[v] = "done" <=> worker'[v] = "done"
    BY <1>2 DEF Busy
  <1>7. Types'
    BY <1>2, <1>3 DEF Types
  <1>8. Sharing'
    BY <1>4, <1>5 DEF Sharing
  <1>9. Claimed'
    <2> SUFFICES ASSUME NEW k \in 0..(Connections - 1), k < next,
                        ~\E v \in Workers : worker'[v] = "failed"
                 PROVE  \E v \in Workers : Owns(v, k)'
      BY DEF Claimed
    <2>1. /\ place # "failed" /\ ~\E v \in Workers : worker[v] = "failed"
      BY <1>2 DEF Busy
    <2>2. PICK v \in Workers : Owns(v, k)
      BY <2>1 DEF Claimed
    <2>3. Busy(v) => Busy(v)'
      BY <1>2, <2>1 DEF Busy
    <2> QED
      BY <2>2, <2>3 DEF Owns
  <1>10. Collecting'
    BY <1>3, <1>6 DEF Collecting, Types
  <1>11. Ending'
    BY <1>3, <1>6 DEF Ending
  <1> QED
    BY <1>7, <1>8, <1>9, <1>10, <1>11

\* A worker claims the next tunnel, or stops when there is none.
LEMMA ClaimKeeps ==
  ASSUME BenchInv, NEW w \in Workers, Claim(w), UNCHANGED report
  PROVE  BenchInv'
  <1> USE DEF BenchInv
  <1> DEFINE place == IF AllClaimed THEN "done" ELSE "connect"
  <1>1. /\ worker' = [worker EXCEPT ![w] = place] /\ worker \in [Workers -> Places]
        /\ index' = [index EXCEPT ![w] = next] /\ index \in [Workers -> Nat]
        /\ next' = next + 1 /\ next \in Nat /\ UNCHANGED <<reply, latencies>>
        /\ worker[w] = "claim" /\ Connections \in Nat
    BY BenchBounds DEF Claim, Goto, Types
  <1>2. /\ worker' \in [Workers -> Places] /\ worker'[w] = place
        /\ \A v \in Workers : v # w => worker'[v] = worker[v]
        /\ index' \in [Workers -> Nat] /\ index'[w] = next
        /\ \A v \in Workers : v # w => index'[v] = index[v]
    BY <1>1 DEF Places
  <1>3. UNCHANGED <<joined, collected, main>>
    BY DEF report
  <1>4. \A v \in Workers : v # w => (Busy(v)' <=> Busy(v)) /\ \A k : Owns(v, k)' <=> Owns(v, k)
    BY <1>1, <1>2 DEF Busy, Owns
  <1>5. ~Busy(w) /\ (Busy(w)' <=> ~AllClaimed)
    BY <1>1, <1>2 DEF Busy
  <1>6. \A k : Owns(w, k)' <=> Owns(w, k) \/ (~AllClaimed /\ k = next)
    BY <1>1, <1>2, <1>5 DEF Owns
  <1>7. \A v \in Workers : ~Owns(v, next)
    BY <1>1 DEF Sharing
  <1>8. Types'
    BY <1>1, <1>2, <1>3 DEF Types
  <1>9. Sharing'
    <2>1. ASSUME NEW v \in Workers
          PROVE  /\ Distinct(latencies'[v])
                 /\ Busy(v)' => ~Has(latencies'[v], index'[v])
      <3>1. CASE v = w
        BY <1>1, <1>2, <1>7, <3>1 DEF Sharing, Owns
      <3>2. CASE v # w
        BY <1>1, <1>2, <1>4, <3>2 DEF Sharing
      <3> QED
        BY <3>1, <3>2
    <2>2. ASSUME NEW v \in Workers, NEW u \in Workers, NEW k \in Nat, Owns(v, k)', Owns(u, k)'
          PROVE  v = u
      <3>1. CASE k = next
        BY <1>4, <1>7, <2>2, <3>1
      <3>2. CASE k # next
        <4>1. Owns(v, k) /\ Owns(u, k)
          BY <1>4, <1>6, <2>2, <3>2
        <4> QED
          BY <4>1 DEF Sharing
      <3> QED
        BY <3>1, <3>2
    <2>3. ASSUME NEW v \in Workers, NEW k \in Nat, Owns(v, k)'
          PROVE  k < next' /\ k < Connections
      <3>1. CASE ~AllClaimed /\ k = next
        BY <1>1, <3>1 DEF AllClaimed
      <3>2. CASE Owns(v, k)
        <4>1. k < next /\ k < Connections
          BY <3>2 DEF Sharing
        <4> QED
          BY <1>1, <4>1
      <3> QED
        BY <1>4, <1>6, <2>3, <3>1, <3>2
    <2> QED
      BY <2>1, <2>2, <2>3 DEF Sharing
  <1>10. Claimed'
    <2> SUFFICES ASSUME NEW k \in 0..(Connections - 1), k < next',
                        ~\E v \in Workers : worker'[v] = "failed"
                 PROVE  \E v \in Workers : Owns(v, k)'
      BY DEF Claimed
    <2>1. ~\E v \in Workers : worker[v] = "failed"
      BY <1>1, <1>2
    <2>2. CASE k < next
      <3>1. PICK v \in Workers : Owns(v, k)
        BY <2>1, <2>2 DEF Claimed
      <3> QED
        BY <1>4, <1>6, <3>1
    <2>3. CASE ~(k < next)
      <3>1. k = next /\ ~AllClaimed
        BY <1>1, <2>3 DEF AllClaimed
      <3> QED
        BY <1>6, <3>1
    <2> QED
      BY <2>2, <2>3
  <1>11. Collecting'
    <2>1. w \notin joined
      BY <1>1 DEF Collecting
    <2>2. \A v \in joined : worker'[v] = "done"
      BY <1>2, <2>1 DEF Collecting, Types
    <2> QED
      BY <1>1, <1>3, <2>2 DEF Collecting
  <1>12. Ending'
    <2>1. ASSUME NEW v \in Workers, worker'[v] = "done"
          PROVE  next' >= Connections
      <3>1. next >= Connections
        BY <1>2, <2>1 DEF Ending, AllClaimed
      <3> QED
        BY <1>1, <3>1
    <2> QED
      BY <1>3, <2>1 DEF Ending
  <1> QED
    BY <1>8, <1>9, <1>10, <1>11, <1>12

\* A worker has measured its tunnel.
LEMMA EchoKeeps ==
  ASSUME BenchInv, NEW w \in Workers, worker[w] = "echo", EchoMatches(w),
         latencies' = [latencies EXCEPT ![w] =
                          Append(@, [index |-> index[w], reply |-> reply[w]])],
         Goto(w, "claim"), UNCHANGED <<next, index, reply, report>>
  PROVE  BenchInv'
  <1> USE DEF BenchInv
  <1> DEFINE x == [index |-> index[w], reply |-> reply[w]]
             s == latencies[w]
  <1>1. /\ worker' = [worker EXCEPT ![w] = "claim"] /\ worker \in [Workers -> Places]
        /\ latencies \in [Workers -> Seq(Sample)] /\ index \in [Workers -> Nat]
    BY DEF Goto, Types
  <1>2. /\ worker' \in [Workers -> Places] /\ worker'[w] = "claim"
        /\ \A v \in Workers : v # w => worker'[v] = worker[v]
    BY <1>1 DEF Places
  <1>3. UNCHANGED <<joined, collected, main>>
    BY DEF report
  <1>4. x \in Sample /\ x.index = index[w] /\ s \in Seq(Sample)
    BY <1>1 DEF EchoMatches, Sample
  <1>5. Busy(w) /\ ~Busy(w)' /\ Distinct(s) /\ ~Has(s, index[w])
    BY <1>2 DEF Busy, Sharing
  <1>6. /\ latencies'[w] = Append(s, x)
        /\ \A v \in Workers : v # w => latencies'[v] = latencies[v]
    BY <1>1
  <1> HIDE DEF x, s
  <1>7. /\ Append(s, x) \in Seq(Sample) /\ Distinct(Append(s, x))
        /\ \A k : Has(Append(s, x), k) <=> Has(s, k) \/ index[w] = k
    BY <1>4, <1>5, AppendHas
  <1>8. \A v \in Workers : v # w => (Busy(v)' <=> Busy(v)) /\ \A k : Owns(v, k)' <=> Owns(v, k)
    BY <1>2, <1>6 DEF Busy, Owns
  <1>9. \A k : Owns(w, k)' <=> Owns(w, k)
    BY <1>5, <1>6, <1>7 DEF Owns, s
  <1>10. Types'
    <2>1. latencies' \in [Workers -> Seq(Sample)]
      BY <1>1, <1>6, <1>7 DEF x, s
    <2> QED
      BY <1>2, <1>3, <2>1 DEF Types
  <1>11. Sharing'
    <2>1. ASSUME NEW v \in Workers
          PROVE  /\ Distinct(latencies'[v])
                 /\ Busy(v)' => ~Has(latencies'[v], index'[v])
      <3>1. CASE v = w
        BY <1>5, <1>6, <1>7, <3>1, ZenonT(40)
      <3>2. CASE v # w
        BY <1>6, <1>8, <3>2 DEF Sharing
      <3> QED
        BY <3>1, <3>2
    <2>2. \A v \in Workers : \A k \in Nat : Owns(v, k)' <=> Owns(v, k)
      BY <1>8, <1>9
    <2> QED
      BY <2>1, <2>2 DEF Sharing
  <1>12. Claimed'
    <2>1. \A v \in Workers : worker[v] = "failed" => worker'[v] = "failed"
      BY <1>2
    <2>2. \A v \in Workers : \A k : Owns(v, k) => Owns(v, k)'
      BY <1>8, <1>9
    <2> QED
      BY <2>1, <2>2 DEF Claimed
  <1>13. Collecting'
    <2>1. w \notin joined /\ joined \subseteq Workers
      BY DEF Collecting, Types
    <2>2. \A v \in joined : worker'[v] = "done" /\ latencies'[v] = latencies[v]
      BY <1>2, <1>6, <2>1 DEF Collecting
    <2> QED
      BY <1>3, <2>2 DEF Collecting
  <1>14. Ending'
    BY <1>2, <1>3 DEF Ending
  <1> QED
    BY <1>10, <1>11, <1>12, <1>13, <1>14

\* main joins a worker.
LEMMA JoinKeeps ==
  ASSUME BenchInv, NEW w \in Workers, Join(w), UNCHANGED run
  PROVE  BenchInv'
  <1> USE DEF BenchInv
  <1>1. UNCHANGED <<next, worker, index, reply, latencies>>
    BY DEF run
  <1>2. Sharing' /\ Claimed'
    BY <1>1 DEF Sharing, Claimed, Owns, Busy
  <1>3. CASE main' = "failed" /\ UNCHANGED <<joined, collected, shutdown>>
    BY <1>1, <1>2, <1>3 DEF Types, Collecting, Ending
  <1>4. CASE /\ worker[w] = "done" /\ joined' = joined \union {w}
             /\ collected' = collected \o latencies[w]
             /\ IF joined' = Workers THEN main' = "stopping" /\ SendShutdown
                                     ELSE UNCHANGED <<main, shutdown>>
    <2>1. w \notin joined /\ main = "joining" /\ joined \subseteq Workers
      BY DEF Join, Types
    <2> DEFINE s == latencies[w]
    <2>2. s \in Seq(Sample) /\ collected \in Seq(Sample) /\ Distinct(s) /\ Distinct(collected)
      BY DEF Types, Sharing, Collecting
    <2> HIDE DEF s
    <2>3. \A k \in Nat : ~(Has(collected, k) /\ Has(s, k))
      <3> SUFFICES ASSUME NEW k \in Nat, Has(collected, k), Has(s, k) PROVE FALSE
        OBVIOUS
      <3>1. PICK v \in joined : Has(latencies[v], k)
        BY DEF Collecting
      <3>2. v \in Workers /\ v # w /\ Owns(v, k) /\ Owns(w, k)
        BY <2>1, <3>1 DEF Owns, s
      <3> QED
        BY <3>2 DEF Sharing
    <2>4. /\ collected \o s \in Seq(Sample) /\ Distinct(collected \o s)
          /\ \A k : Has(collected \o s, k) <=> Has(collected, k) \/ Has(s, k)
      BY <2>2, <2>3, CatHas
    <2>5. collected' = collected \o s
      BY <1>4 DEF s
    <2>6. Types'
      BY <1>1, <1>4, <2>1, <2>4, <2>5 DEF Types
    <2>7. Collecting'
      <3>1. ASSUME NEW k \in Nat
            PROVE  Has(collected', k) <=> \E v \in joined' : Has(latencies'[v], k)
        <4>1. Has(collected', k) <=> Has(collected, k) \/ Has(s, k)
          BY <2>4, <2>5
        <4>2. Has(collected, k) <=> \E v \in joined : Has(latencies[v], k)
          BY DEF Collecting
        <4> QED
          BY <1>1, <1>4, <4>1, <4>2 DEF s
      <3>2. \A v \in joined' : worker'[v] = "done"
        BY <1>1, <1>4 DEF Collecting
      <3> QED
        BY <2>4, <2>5, <3>1, <3>2 DEF Collecting
    <2>8. Ending'
      BY <1>1, <1>4, <2>1 DEF Ending
    <2> QED
      BY <1>2, <2>6, <2>7, <2>8
  <1> QED
    BY <1>3, <1>4 DEF Join

\* A step that changes none of the variables the invariant is about, or ends
\* the program with its report.
LEMMA RestKeeps ==
  ASSUME BenchInv,
         UNCHANGED <<next, worker, index, reply, latencies, joined, collected>>,
         main' = main \/ (main = "stopping" /\ main' = "done")
  PROVE  BenchInv'
  BY DEF BenchInv, Types, Sharing, Claimed, Collecting, Ending, Owns, Busy

\* Every step preserves the invariant.
LEMMA NextKeeps ==
  ASSUME BenchInv, [Next]_vars
  PROVE  BenchInv'
  <1>1. ASSUME NEW w \in Workers, Work(w)
        PROVE  BenchInv'
    <2>1. UNCHANGED report
      BY <1>1 DEF Work
    <2>2. reply \in [Workers -> {0, 200, 502}]
      BY DEF BenchInv, Types
    <2>3. CASE Claim(w)
      BY <2>1, <2>3, ClaimKeeps
    <2>4. CASE Connect(w)
      <3>1. Busy(w) /\ Goto(w, "head") /\ UNCHANGED <<next, index, reply, latencies>>
        BY <2>4 DEF Connect, Busy
      <3> QED
        BY <2>1, <2>2, <3>1, MovesOn
    <2>5. CASE ReadHead(w)
      <3>1. Busy(w) /\ UNCHANGED <<next, index, latencies>>
        BY <2>5 DEF ReadHead, Busy
      <3>2. reply' \in [Workers -> {0, 200, 502}]
        BY <2>2, <2>5 DEF ReadHead
      <3>3. Goto(w, "echo") \/ Goto(w, "failed")
        BY <2>5 DEF ReadHead, Leave
      <3> QED
        BY <2>1, <3>1, <3>2, <3>3, MovesOn
    <2>6. CASE Echo(w)
      <3>1. worker[w] = "echo" /\ Busy(w) /\ UNCHANGED <<next, index, reply>>
        BY <2>6 DEF Echo, Busy
      <3>2. CASE Goto(w, "failed") /\ UNCHANGED latencies
        BY <2>1, <2>2, <3>1, <3>2, MovesOn
      <3>3. CASE /\ EchoMatches(w) /\ Goto(w, "claim")
                 /\ latencies' = [latencies EXCEPT ![w] =
                                     Append(@, [index |-> index[w], reply |-> reply[w]])]
        BY <2>1, <3>1, <3>3, EchoKeeps, ZenonT(40)
      <3> QED
        BY <2>6, <3>2, <3>3 DEF Echo, Leave
    <2> QED
      BY <1>1, <2>3, <2>4, <2>5, <2>6 DEF Work, Run
  <1>2. ASSUME NEW w \in Workers, Join(w), UNCHANGED run
        PROVE  BenchInv'
    BY <1>2, JoinKeeps
  <1>3. CASE Linger \/ (Report /\ UNCHANGED run) \/ UNCHANGED vars
    BY <1>3, RestKeeps DEF Linger, SessionEnds, Report, run, report, vars
  <1> QED
    BY <1>1, <1>2, <1>3 DEF Next, Main, Exited

\* It holds at the start.
LEMMA InitHolds == Init => BenchInv
  <1> SUFFICES ASSUME Init PROVE BenchInv
    OBVIOUS
  <1>1. \A w \in Workers : ~Busy(w) /\ latencies[w] = <<>> /\ Len(<<>>) = 0
    BY DEF Init, Busy
  <1>2. \A k : ~Has(<<>>, k)
    BY DEF Has
  <1>3. Distinct(<<>>)
    BY DEF Distinct
  <1>4. \A w \in Workers : \A k : ~Owns(w, k)
    BY <1>1, <1>2 DEF Owns
  <1>5. Types
    BY DEF Init, Types, Places
  <1>6. Sharing
    BY <1>1, <1>3, <1>4 DEF Sharing
  <1>7. Claimed
    BY DEF Init, Claimed
  <1>8. Collecting
    BY <1>2, <1>3 DEF Init, Collecting
  <1>9. Ending
    BY DEF Init, Ending
  <1> QED
    BY <1>5, <1>6, <1>7, <1>8, <1>9 DEF BenchInv

\* The samples s are one for each of the first n connections, opened with 200.
Complete(s, n) ==
    /\ Len(s) = n
    /\ {s[i].index : i \in DOMAIN s} = 0..(n - 1)
    /\ \A i \in DOMAIN s : s[i].reply = 200

\* Samples of distinct tunnels, and of all from 0 to n - 1, are n samples.
LEMMA CountSamples ==
  ASSUME NEW s \in Seq(Sample), Distinct(s), NEW n \in Nat,
         \A k \in Nat : Has(s, k) <=> k < n
  PROVE  Complete(s, n)
  <1>1. Len(s) \in Nat /\ DOMAIN s = 1..Len(s) /\ \A i \in 1..Len(s) : s[i] \in Sample
    OBVIOUS
  <1>2. \A i \in 1..Len(s) : s[i].index \in Nat /\ s[i].reply = 200 /\ Has(s, s[i].index)
    BY <1>1 DEF Sample, Has
  <1>3. \A i \in 1..Len(s) : s[i].index \in 0..(n - 1)
    BY <1>2
  <1>4. \A k \in 0..(n - 1) : \E i \in 1..Len(s) : s[i].index = k
    BY DEF Has
  <1> DEFINE f == [i \in 1..Len(s) |-> s[i].index]
  <1>5. f \in Bijection(1..Len(s), 0..(n - 1))
    <2>1. f \in [1..Len(s) -> 0..(n - 1)]
      BY <1>3
    <2>2. \A i, j \in 1..Len(s) : f[i] = f[j] => i = j
      BY DEF Distinct
    <2>3. \A k \in 0..(n - 1) : \E i \in 1..Len(s) : f[i] = k
      BY <1>4
    <2> HIDE DEF f
    <2> QED
      BY <2>1, <2>2, <2>3 DEF Bijection, Injection, Surjection, IsInjective
  <1>6. Cardinality(0..(n - 1)) = Len(s)
    <2>1. ExistsBijection(1..Len(s), 0..(n - 1))
      BY <1>5 DEF ExistsBijection
    <2> QED
      BY <1>1, <2>1, FS_CountingElements
  <1>7. Cardinality(0..(n - 1)) = n
    <2> DEFINE b == n - 1
    <2>1. 0 \in Int /\ b \in Int /\ (IF 0 > b THEN 0 ELSE b - 0 + 1) = n
      OBVIOUS
    <2> HIDE DEF b
    <2>2. Cardinality(0..b) = IF 0 > b THEN 0 ELSE b - 0 + 1
      BY <2>1, FS_Interval
    <2> QED
      BY <2>1, <2>2 DEF b
  <1>8. {s[i].index : i \in 1..Len(s)} = 0..(n - 1)
    BY <1>3, <1>4
  <1>9. Len(s) = n
    BY <1>6, <1>7
  <1>10. {s[i].index : i \in DOMAIN s} = 0..(n - 1)
    BY <1>1, <1>8, ZenonT(40)
  <1>11. \A i \in DOMAIN s : s[i].reply = 200
    BY <1>1, <1>2
  <1> QED
    BY <1>9, <1>10, <1>11, ZenonT(40) DEF Complete

\* The report counts every tunnel once, each opened with a 200: whatever the
\* interleaving of the workers at the shared counter and of main's joins.
THEOREM TheReportIsComplete == Spec => []ReportIsComplete
  <1>1. BenchInv => ReportIsComplete
    <2> SUFFICES ASSUME BenchInv, main = "done"
                 PROVE  Complete(collected, Connections)
      BY ZenonT(40) DEF ReportIsComplete, Complete
    <2>1. /\ joined = Workers /\ \A w \in Workers : worker[w] = "done"
          /\ collected \in Seq(Sample) /\ Distinct(collected)
          /\ Connections \in Nat /\ next \in Nat
      BY BenchBounds DEF BenchInv, Ending, Collecting, Types
    <2>2. next >= Connections
      BY <2>1, BenchBounds DEF BenchInv, Ending
    <2>3. \A w \in Workers : \A k : Owns(w, k) <=> Has(latencies[w], k)
      BY <2>1 DEF Owns, Busy
    <2>4. ASSUME NEW k \in Nat
          PROVE  Has(collected, k) <=> k < Connections
      <3>1. Has(collected, k) <=> \E w \in Workers : Owns(w, k)
        BY <2>1, <2>3 DEF BenchInv, Collecting
      <3>2. (\E w \in Workers : Owns(w, k)) => k < Connections
        BY DEF BenchInv, Sharing
      <3>3. k < Connections => \E w \in Workers : Owns(w, k)
        <4> SUFFICES ASSUME k < Connections PROVE \E w \in Workers : Owns(w, k)
          OBVIOUS
        <4>1. k \in 0..(Connections - 1) /\ k < next
          BY <2>1, <2>2
        <4> QED
          BY <2>1, <4>1 DEF BenchInv, Claimed
      <3> QED
        BY <3>1, <3>2, <3>3
    <2>5. collected \in Seq(Sample) /\ Distinct(collected) /\ Connections \in Nat
      BY <2>1
    <2>6. \A k \in Nat : Has(collected, k) <=> k < Connections
      BY <2>4
    <2> QED
      BY <2>5, <2>6, CountSamples, ZenonT(40)
  <1> QED
    BY <1>1, InitHolds, NextKeeps, PTL DEF Spec

=============================================================================

------------------------ MODULE RetryScheduleProofs ------------------------
(***************************************************************************)
(* How long retries wait, for every base delay, cap, jitter ratio and draw. *)
(* The provers know the powers of two that they can compute, but not that   *)
(* every power is a natural number: where the code's formula goes beyond    *)
(* its sequence, a hypothesis says so of the exponents in question.         *)
(***************************************************************************)
EXTENDS RetrySchedule, TLAPS

-----------------------------------------------------------------------------
(* Arithmetic *)

LEMMA DivisionBounds ==
    ASSUME NEW a \in Int, NEW b \in Nat \ {0}
    PROVE  /\ a \div b \in Int
           /\ b * (a \div b) <= a
           /\ a < b * (a \div b) + b
OBVIOUS

LEMMA CancelFactor ==
    ASSUME NEW a \in Int, NEW b \in Int, NEW d \in Nat \ {0}, a * d <= b * d
    PROVE  a <= b
OBVIOUS

LEMMA ScaledBounds ==
    ASSUME NEW k \in Nat, NEW x \in Int, NEW d \in Nat, x <= d, -d <= x
    PROVE  k * x <= k * d /\ -(k * d) <= k * x
OBVIOUS

(* Math.round is off by half at most.                                       *)
LEMMA RoundBounds ==
    ASSUME NEW num \in Int, NEW den \in Nat \ {0}
    PROVE  /\ Round(num, den) \in Int
           /\ 2 * (den * Round(num, den)) <= 2 * num + den
           /\ 2 * num - den <= 2 * (den * Round(num, den))
<1> DEFINE a == 2 * num + den
           b == 2 * den
           q == a \div b
<1>1. a \in Int /\ b \in Nat \ {0}
  OBVIOUS
<1>2. q \in Int /\ b * q <= a /\ a < b * q + b
  BY <1>1, DivisionBounds
<1>3. b * q = 2 * (den * q)
  BY <1>2
<1> HIDE DEF q
<1>4. 2 * (den * q) <= 2 * num + den /\ 2 * num - den <= 2 * (den * q)
  BY <1>2, <1>3
<1> QED  BY <1>2, <1>4 DEF q, Round

-----------------------------------------------------------------------------
(* Jitter and rounding move a delay by a jitter ratio and one unit at most: *)
(* the cap, a delay of zero and the cut at zero are no exceptions.          *)
LEMMA JitterBounds ==
    ASSUME NEW capped \in Nat, NEW draw \in 0 .. Draws - 1,
           NEW scale, scale = JitterDen * Draws,
           NEW offset, offset = capped * JitterNum * (2 * draw - Draws),
           NEW d, d = Larger(0, Round(capped * scale + offset, scale))
    PROVE  /\ d \in Nat
           /\ (d - capped) * JitterDen <= capped * JitterNum + JitterDen
           /\ -((d - capped) * JitterDen) <= capped * JitterNum + JitterDen
<1> DEFINE k == capped * JitterNum
           x == 2 * draw - Draws
           num == capped * scale + offset
           rounded == Round(num, scale)
<1>1. /\ Draws \in Nat \ {0} /\ JitterDen \in Nat \ {0} /\ JitterNum \in Nat
      /\ k \in Nat /\ scale \in Nat \ {0} /\ x \in Int
      /\ x <= Draws /\ -Draws <= x
  BY BackoffAssumption
<1>2. offset \in Int /\ offset <= k * Draws /\ -(k * Draws) <= offset
  BY <1>1, ScaledBounds
<1>3. num \in Int
  BY <1>1, <1>2
<1>4. /\ rounded \in Int
      /\ 2 * (scale * rounded) <= 2 * num + scale
      /\ 2 * num - scale <= 2 * (scale * rounded)
  BY <1>1, <1>3, RoundBounds
<1>5. d \in Nat /\ (d = rounded \/ (d = 0 /\ rounded < 0))
  BY <1>4 DEF Larger
<1> HIDE DEF rounded, k
<1>6. /\ 2 * (scale * (rounded - capped)) <= 2 * (k * Draws) + scale
      /\ -(2 * (k * Draws)) - scale <= 2 * (scale * (rounded - capped))
  <2>1. scale * (rounded - capped) = scale * rounded - capped * scale
    BY <1>1, <1>4
  <2> QED  BY <1>1, <1>2, <1>4, <2>1
<1>7. /\ (2 * (JitterDen * (rounded - capped))) * Draws <= (2 * k + JitterDen) * Draws
      /\ (-(2 * k) - JitterDen) * Draws <= (2 * (JitterDen * (rounded - capped))) * Draws
  <2>1. 2 * (scale * (rounded - capped)) = (2 * (JitterDen * (rounded - capped))) * Draws
    BY <1>1, <1>4
  <2>2. 2 * (k * Draws) + scale = (2 * k + JitterDen) * Draws
    BY <1>1
  <2>3. -(2 * (k * Draws)) - scale = (-(2 * k) - JitterDen) * Draws
    BY <1>1
  <2> QED  BY <1>6, <2>1, <2>2, <2>3
<1>8. /\ 2 * (JitterDen * (rounded - capped)) <= 2 * k + JitterDen
      /\ -(2 * k) - JitterDen <= 2 * (JitterDen * (rounded - capped))
  BY <1>1, <1>4, <1>7, CancelFactor
<1>9. /\ (rounded - capped) * JitterDen <= k + JitterDen
      /\ -((rounded - capped) * JitterDen) <= k + JitterDen
  BY <1>1, <1>4, <1>8
<1>10. CASE d = 0 /\ rounded < 0
  <2>1. /\ (rounded - capped) * JitterDen <= (d - capped) * JitterDen
        /\ (d - capped) * JitterDen <= 0
    BY <1>1, <1>4, <1>10
  <2> QED  BY <1>1, <1>4, <1>5, <1>9, <2>1 DEF k
<1>11. CASE d = rounded
  BY <1>5, <1>9, <1>11 DEF k
<1> QED  BY <1>5, <1>10, <1>11

(* The sequence in the code is the documented one, and so is the formula    *)
(* that takes over after its end.                                           *)
LEMMA SequenceIsDocumented ==
    ASSUME NEW n \in Nat \ {0}, n > 5 => 2 ^ (n - 1) \in Nat
    PROVE  CappedDelay(n) = DocumentedDelay(n) /\ CappedDelay(n) \in Nat
<1>1. /\ 2 ^ 0 = 1 /\ 2 ^ 1 = 2 /\ 2 ^ 2 = 4 /\ 2 ^ 3 = 8 /\ 2 ^ 4 = 16
  OBVIOUS
<1>2. Larger(1, n) = n
  BY DEF Larger
<1>3. ComputeBaseDelay(n) = BaseDelay * 2 ^ (n - 1) /\ ComputeBaseDelay(n) \in Nat
  <2>1. CASE n > 5
    <3>1. ComputeBaseDelay(n) = 2 ^ (n - 1) * BaseDelay
      BY <2>1 DEF ComputeBaseDelay, BackoffSequence
    <3> QED  BY <2>1, <3>1, BackoffAssumption
  <2>2. CASE n <= 5
    <3>1. n = 1 \/ n = 2 \/ n = 3 \/ n = 4 \/ n = 5
      BY <2>2
    <3>2. ComputeBaseDelay(n) = BackoffSequence[n] * BaseDelay
      BY <2>2, <3>1 DEF ComputeBaseDelay, BackoffSequence, Larger, Smaller
    <3>3. BackoffSequence[n] = 2 ^ (n - 1) /\ BackoffSequence[n] \in Nat
      <4>1. CASE n = 1  BY <1>1, <4>1 DEF BackoffSequence
      <4>2. CASE n = 2  BY <1>1, <4>2 DEF BackoffSequence
      <4>3. CASE n = 3  BY <1>1, <4>3 DEF BackoffSequence
      <4>4. CASE n = 4  BY <1>1, <4>4 DEF BackoffSequence
      <4>5. CASE n = 5  BY <1>1, <4>5 DEF BackoffSequence
      <4> QED  BY <3>1, <4>1, <4>2, <4>3, <4>4, <4>5
    <3> QED  BY <3>2, <3>3, BackoffAssumption
  <2> QED  BY <2>1, <2>2
<1> QED  BY <1>2, <1>3, BackoffAssumption DEF CappedDelay, DocumentedDelay, Smaller

(* One delay is within the documented bounds.                               *)
LEMMA DelayIsNear ==
    ASSUME NEW n \in Nat \ {0}, n > 5 => 2 ^ (n - 1) \in Nat,
           NEW draw \in 0 .. Draws - 1,
           NEW d, d = CalculateBackoffDelay(n, draw)
    PROVE  NearDocumented(n, d)
<1>1. CappedDelay(n) = DocumentedDelay(n) /\ CappedDelay(n) \in Nat
  BY SequenceIsDocumented
<1>2. d = Larger(0, Round(CappedDelay(n) * (JitterDen * Draws)
                            + CappedDelay(n) * JitterNum * (2 * draw - Draws),
                          JitterDen * Draws))
  BY DEF CalculateBackoffDelay
<1> QED  BY <1>1, <1>2, JitterBounds
     DEF NearDocumented, NotTooShort, NotTooLong, Slack

-----------------------------------------------------------------------------
(* A fact of arithmetic, for the exponents that the formula meets.          *)
PowersAreNatural == \A k \in 5 .. Attempts - 1 : 2 ^ k \in Nat

NearInv == retryCount \in 0 .. Attempts /\ DelayNearDocumented

(* However often a job fails and whatever random() returns, its delays keep *)
(* to the documented schedule up to the jitter ratio and a rounding, for    *)
(* any base delay, cap and ratio; at the cap they are only bounded below.   *)
THEOREM DelaysNearDocumented ==
    ASSUME PowersAreNatural
    PROVE  Spec => []DelayNearDocumented
<1>1. Init => NearInv
  BY AttemptsAssumption DEF Init, NearInv, DelayNearDocumented
<1>2. ASSUME NearInv, [Next]_vars
      PROVE  NearInv'
  <2>1. CASE UNCHANGED vars
    BY <1>2, <2>1 DEF vars, NearInv, DelayNearDocumented
  <2>2. ASSUME NEW draw \in 0 .. Draws - 1, Fail(draw)
        PROVE  NearInv'
    <3>1. /\ retryCount' \in 1 .. Attempts
          /\ delay' = CalculateBackoffDelay(retryCount', draw)
      BY <1>2, <2>2, AttemptsAssumption DEF Fail, NearInv
    <3>2. retryCount' > 5 => 2 ^ (retryCount' - 1) \in Nat
      <4> DEFINE n == retryCount'
      <4>1. n \in Nat /\ n <= Attempts
        BY <3>1, AttemptsAssumption
      <4> HIDE DEF n
      <4>2. n > 5 => n - 1 \in 5 .. Attempts - 1
        BY <4>1, AttemptsAssumption
      <4>3. n > 5 => 2 ^ (n - 1) \in Nat
        BY <4>2 DEF PowersAreNatural
      <4> QED  BY <4>3 DEF n
    <3>3. DelayNearDocumented'
      <4> DEFINE n == retryCount'
                 d == delay'
      <4>1. n \in Nat \ {0} /\ d = CalculateBackoffDelay(n, draw)
        BY <3>1, AttemptsAssumption
      <4>2. n > 5 => 2 ^ (n - 1) \in Nat
        BY <3>2
      <4> HIDE DEF n, d
      <4>3. NearDocumented(n, d)
        BY <4>1, <4>2, DelayIsNear
      <4> QED  BY <4>3 DEF DelayNearDocumented, n, d
    <3> QED  BY <3>1, <3>3, AttemptsAssumption DEF NearInv
  <2> QED  BY <1>2, <2>1, <2>2 DEF Next
<1>3. NearInv => DelayNearDocumented
  BY DEF NearInv
<1> QED  BY <1>1, <1>2, <1>3, PTL DEF Spec

(* Without any hypothesis on powers for up to twelve failures of a job; the *)
(* code's jobs have five retries.                                           *)
COROLLARY TwelveDelaysNearDocumented ==
    ASSUME Attempts <= 12
    PROVE  Spec => []DelayNearDocumented
<1>1. /\ 2 ^ 5 = 32 /\ 2 ^ 6 = 64 /\ 2 ^ 7 = 128 /\ 2 ^ 8 = 256
      /\ 2 ^ 9 = 512 /\ 2 ^ 10 = 1024 /\ 2 ^ 11 = 2048
  OBVIOUS
<1>2. ASSUME NEW k \in 5 .. Attempts - 1
      PROVE  2 ^ k \in Nat
  <2>1. k = 5 \/ k = 6 \/ k = 7 \/ k = 8 \/ k = 9 \/ k = 10 \/ k = 11
    BY AttemptsAssumption
  <2>2. CASE k = 5  BY <1>1, <2>2
  <2>3. CASE k = 6  BY <1>1, <2>3
  <2>4. CASE k = 7  BY <1>1, <2>4
  <2>5. CASE k = 8  BY <1>1, <2>5
  <2>6. CASE k = 9  BY <1>1, <2>6
  <2>7. CASE k = 10  BY <1>1, <2>7
  <2>8. CASE k = 11  BY <1>1, <2>8
  <2> QED  BY <2>1, <2>2, <2>3, <2>4, <2>5, <2>6, <2>7, <2>8
<1> QED  BY <1>2, DelaysNearDocumented DEF PowersAreNatural

=============================================================================

------------------------- MODULE RegistrationProofs -------------------------
(***************************************************************************)
(* Theorems about Registration: for any numbers of names, addresses,       *)
(* invitations and handlers that overlap, and any limits.                  *)
(*                                                                         *)
(* Guesses are counted in two places, fails[e] and, as history, each code. *)
(* Fits says how the two go together, code by code.  The quota is kept by  *)
(* the sum of the registrations that count and the starts that are on      *)
(* their way.                                                              *)
(***************************************************************************)
EXTENDS Registration, TLAPS, FiniteSetTheorems

Count == 0 .. MaxGuesses

\* A code of an address whose count stands at n: one that can still be
\* compared has met what is counted and four for each count before.
Fits(k, n) ==
    /\ k.guesses <= MaxGuesses + (MaxGuesses - 1) * k.fresh
    /\ (k.purpose = "reset" /\ k.age # "old" /\ ~ k.used) =>
           k.guesses <= (MaxGuesses - 1) * k.fresh + (IF n < MaxGuesses THEN n ELSE 0)

\* A code after the count has begun anew from n.
Fresh(k, n) ==
    IF k.purpose = "reset" /\ k.age # "old" /\ n > 0 THEN [k EXCEPT !.fresh = @ + 1] ELSE k

AllFit(cs, n) == \A i \in DOMAIN cs : Fits(cs[i], n)
CodesFit == \A e \in Emails : AllFit(codes[e], fails[e].n)

CodesOK ==
    /\ codes \in [Emails -> Seq(Code)]
    /\ \A e \in Emails : Len(codes[e]) <= Daily
    /\ fails \in [Emails -> [n : Count, from : 0 .. Daily]]
    /\ CodesFit

RegsOK ==
    /\ regs \in [Rows -> Registration \cup {None}]
    /\ call \in [Calls -> Call \cup {None}]
    /\ QuotaHolds

AccountsOK == accounts \subseteq Account /\ invites \in [Invites -> 0 .. 1]

\* The inductive invariant.
RegInv == CodesOK /\ RegsOK /\ AccountsOK /\ crashes \in 0 .. Crashes

-----------------------------------------------------------------------------
(* One code *)

LEMMA FitsNew ==
    ASSUME RegistrationAssumption, NEW p \in Purposes, NEW n \in Count
    PROVE  LET k == [purpose |-> p, age |-> "young", used |-> FALSE, guesses |-> 0, fresh |-> 0]
           IN  k \in Code /\ Fits(k, n)
BY DEF RegistrationAssumption, Code, Fits, Count

LEMMA FitsUsed ==
    ASSUME NEW k \in Code, NEW n \in Count, Fits(k, n)
    PROVE  LET m == [k EXCEPT !.used = TRUE]
           IN  m \in Code /\ Fits(m, n)
BY DEF Code, Fits

LEMMA FitsAged ==
    ASSUME NEW k \in Code, NEW n \in Count, Fits(k, n), NEW a \in {"live", "old"}, k.age # "old"
    PROVE  LET m == [k EXCEPT !.age = a]
           IN  m \in Code /\ Fits(m, n)
BY DEF Code, Fits

LEMMA FitsFresh ==
    ASSUME RegistrationAssumption, NEW k \in Code, NEW n \in Count, Fits(k, n)
    PROVE  Fresh(k, n) \in Code /\ Fits(Fresh(k, n), 0)
<1>1. k.fresh \in Nat /\ k.guesses \in Nat /\ MaxGuesses \in Nat \ {0} /\ n \in 0 .. MaxGuesses
  BY DEF Code, RegistrationAssumption, Count
<1> DEFINE P == (MaxGuesses - 1) * k.fresh
<1>2. P \in Nat
  BY <1>1
<1>3. (MaxGuesses - 1) * (k.fresh + 1) = P + (MaxGuesses - 1)
  BY <1>1
<1>4. CASE k.purpose = "reset" /\ k.age # "old" /\ n > 0
  <2> DEFINE m == [k EXCEPT !.fresh = @ + 1]
  <2>1. /\ Fresh(k, n) = m /\ m \in Code
        /\ m.guesses = k.guesses /\ m.fresh = k.fresh + 1 /\ m.used = k.used
        /\ m.purpose = k.purpose /\ m.age = k.age
    BY <1>1, <1>4 DEF Fresh, Code
  <2>2. k.guesses <= MaxGuesses + P /\ (~ k.used => k.guesses <= P + (IF n < MaxGuesses THEN n ELSE 0))
    BY <1>4 DEF Fits
  <2>3. (MaxGuesses - 1) * m.fresh = P + (MaxGuesses - 1)
    BY <1>3, <2>1
  <2> HIDE DEF P, m
  <2>4. m.guesses <= MaxGuesses + (P + (MaxGuesses - 1))
    BY <1>1, <1>2, <2>1, <2>2
  <2>5. ~ m.used => m.guesses <= P + (MaxGuesses - 1) + (IF 0 < MaxGuesses THEN 0 ELSE 0)
    BY <1>1, <1>2, <2>1, <2>2
  <2>6. Fits(m, 0)
    BY <2>3, <2>4, <2>5 DEF Fits
  <2>7. QED
    BY <2>1, <2>6
<1>5. CASE ~ (k.purpose = "reset" /\ k.age # "old" /\ n > 0)
  <2>1. Fresh(k, n) = k
    BY <1>5 DEF Fresh
  <2>2. (k.purpose = "reset" /\ k.age # "old") => n = 0
    BY <1>1, <1>5
  <2>3. QED
    BY <1>1, <2>1, <2>2 DEF Fits
<1>6. QED
  BY <1>4, <1>5

\* A wrong guess takes the count from n to m; met: the code is the one that
\* was compared; spent: it can no longer be.
LEMMA FitsGuessed ==
    ASSUME RegistrationAssumption, NEW k \in Code, NEW n \in Count, Fits(k, n),
           NEW m \in Count, m = (IF TooMany(n + 1) THEN MaxGuesses ELSE n + 1),
           NEW met \in BOOLEAN, NEW spent \in BOOLEAN,
           met => k.purpose = "reset" /\ k.age # "old" /\ ~ k.used,
           (TooMany(n + 1) /\ k.purpose = "reset" /\ k.age # "old" /\ ~ k.used) => spent,
           NEW g, g = [k EXCEPT !.used = k.used \/ spent,
                                !.guesses = IF met THEN k.guesses + 1 ELSE k.guesses]
    PROVE  g \in Code /\ Fits(g, m)
<1>1. /\ k.fresh \in Nat /\ k.guesses \in Nat /\ k.used \in BOOLEAN
      /\ MaxGuesses \in Nat \ {0} /\ n \in 0 .. MaxGuesses
  BY DEF Code, RegistrationAssumption, Count
<1> DEFINE P == (MaxGuesses - 1) * k.fresh
<1>2. P \in Nat
  BY <1>1
<1>3. /\ g \in Code /\ g.used = (k.used \/ spent) /\ g.purpose = k.purpose /\ g.age = k.age
      /\ g.guesses = (IF met THEN k.guesses + 1 ELSE k.guesses) /\ g.fresh = k.fresh
  <2> DEFINE u == k.used \/ spent
             x == IF met THEN k.guesses + 1 ELSE k.guesses
  <2>1. u \in BOOLEAN /\ x \in Nat
    BY <1>1
  <2>2. g = [k EXCEPT !.used = u, !.guesses = x]
    OBVIOUS
  <2> HIDE DEF u, x
  <2>3. g \in Code /\ g.used = u /\ g.purpose = k.purpose /\ g.age = k.age /\ g.guesses = x /\ g.fresh = k.fresh
    BY <2>1, <2>2 DEF Code
  <2>4. QED
    BY <2>3 DEF u, x
<1>4. k.guesses <= MaxGuesses + P
  BY DEF Fits
<1>5. (k.purpose = "reset" /\ k.age # "old" /\ ~ k.used) =>
          k.guesses <= P + (IF n < MaxGuesses THEN n ELSE 0)
  BY DEF Fits
<1>6. (MaxGuesses - 1) * g.fresh = P
  BY <1>3
<1> HIDE DEF P
<1>7. g.guesses <= MaxGuesses + P
  BY <1>1, <1>2, <1>3, <1>4, <1>5
<1>8. (g.purpose = "reset" /\ g.age # "old" /\ ~ g.used) =>
          g.guesses <= P + (IF m < MaxGuesses THEN m ELSE 0)
  BY <1>1, <1>2, <1>3, <1>5 DEF TooMany
<1>9. QED
  BY <1>3, <1>6, <1>7, <1>8 DEF Fits

-----------------------------------------------------------------------------
(* The codes of an address *)

\* A sequence that is changed element by element.
LEMMA SeqOfCodes ==
    ASSUME NEW cs \in Seq(Code), NEW ds, DOMAIN ds = DOMAIN cs,
           ds = [i \in DOMAIN cs |-> ds[i]],
           \A i \in DOMAIN cs : ds[i] \in Code
    PROVE  ds \in Seq(Code) /\ Len(ds) = Len(cs)
<1>1. DOMAIN cs = 1 .. Len(cs) /\ Len(cs) \in Nat
  OBVIOUS
<1>2. ds \in [1 .. Len(cs) -> Code]
  BY <1>1
<1>3. QED
  BY <1>1, <1>2

LEMMA CodesOf ==
    ASSUME RegistrationAssumption, CodesOK, NEW e \in Emails
    PROVE  /\ codes[e] \in Seq(Code) /\ Len(codes[e]) \in 0 .. Daily
           /\ DOMAIN codes[e] = 1 .. Len(codes[e])
           /\ \A i \in DOMAIN codes[e] : codes[e][i] \in Code
           /\ fails[e] \in [n : Count, from : 0 .. Daily] /\ fails[e].n \in Count
           /\ AllFit(codes[e], fails[e].n)
<1>1. codes[e] \in Seq(Code) /\ Len(codes[e]) <= Daily /\ fails[e] \in [n : Count, from : 0 .. Daily]
  BY DEF CodesOK
<1>2. Len(codes[e]) \in Nat /\ DOMAIN codes[e] = 1 .. Len(codes[e])
  BY <1>1
<1>3. \A i \in DOMAIN codes[e] : codes[e][i] \in Code
  BY <1>1
<1>4. Len(codes[e]) \in 0 .. Daily
  BY <1>1, <1>2 DEF RegistrationAssumption
<1>5. QED
  BY <1>1, <1>2, <1>3, <1>4 DEF CodesOK, CodesFit

\* The step changes the codes, and perhaps the count, of e only.
LEMMA CodesStep ==
    ASSUME CodesOK, NEW e \in Emails, NEW cs \in Seq(Code), Len(cs) <= Daily,
           NEW f \in [n : Count, from : 0 .. Daily],
           codes' = [codes EXCEPT ![e] = cs], fails' = [fails EXCEPT ![e] = f],
           AllFit(cs, f.n)
    PROVE  CodesOK'
<1>1. /\ codes' \in [Emails -> Seq(Code)]
      /\ \A x \in Emails : Len(codes'[x]) <= Daily
      /\ fails' \in [Emails -> [n : Count, from : 0 .. Daily]]
  BY DEF CodesOK
<1>2. CodesFit'
  <2> SUFFICES ASSUME NEW x \in Emails
               PROVE  AllFit(codes'[x], fails'[x].n)
    BY DEF CodesFit, AllFit, Fits
  <2>1. CASE x = e
    BY <2>1 DEF CodesOK
  <2>2. CASE x # e
    BY <2>2 DEF CodesOK, CodesFit
  <2>3. QED
    BY <2>1, <2>2
<1>3. QED
  BY <1>1, <1>2 DEF CodesOK

\* ... or only the codes.
LEMMA CodesChange ==
    ASSUME RegistrationAssumption, CodesOK, NEW e \in Emails, NEW cs \in Seq(Code), Len(cs) <= Daily,
           codes' = [codes EXCEPT ![e] = cs], UNCHANGED fails, AllFit(cs, fails[e].n)
    PROVE  CodesOK'
<1>1. fails[e] \in [n : Count, from : 0 .. Daily] /\ fails' = [fails EXCEPT ![e] = fails[e]]
  BY DEF CodesOK
<1>2. QED
  BY <1>1, CodesStep

LEMMA CodesStay ==
    ASSUME CodesOK, UNCHANGED <<codes, fails>>
    PROVE  CodesOK'
BY DEF CodesOK, CodesFit, AllFit, Fits

LEMMA RenewedFits ==
    ASSUME RegistrationAssumption, NEW e \in Emails, fails[e].n \in Count,
           NEW cs \in Seq(Code), AllFit(cs, fails[e].n)
    PROVE  /\ Renewed(e, cs) \in Seq(Code) /\ Len(Renewed(e, cs)) = Len(cs)
           /\ AllFit(Renewed(e, cs), 0)
<1> DEFINE ds == Renewed(e, cs)
<1>1. /\ DOMAIN ds = DOMAIN cs /\ ds = [i \in DOMAIN cs |-> ds[i]]
      /\ \A i \in DOMAIN cs : ds[i] = Fresh(cs[i], fails[e].n)
  BY DEF Renewed, Fresh
<1>2. \A i \in DOMAIN cs : cs[i] \in Code /\ Fits(cs[i], fails[e].n)
  BY DEF AllFit
<1>3. \A i \in DOMAIN cs : ds[i] \in Code /\ Fits(ds[i], 0)
  BY <1>1, <1>2, FitsFresh
<1> HIDE DEF ds
<1>4. ds \in Seq(Code) /\ Len(ds) = Len(cs)
  BY <1>1, <1>3, SeqOfCodes
<1>5. AllFit(ds, 0)
  BY <1>1, <1>3 DEF AllFit
<1>6. QED
  BY <1>4, <1>5 DEF ds

\* One code is replaced.
LEMMA OneChanged ==
    ASSUME NEW cs \in Seq(Code), NEW n, AllFit(cs, n), NEW i \in DOMAIN cs,
           NEW k \in Code, Fits(k, n), NEW ds, ds = [cs EXCEPT ![i] = k]
    PROVE  ds \in Seq(Code) /\ Len(ds) = Len(cs) /\ AllFit(ds, n)
<1>1. /\ DOMAIN ds = DOMAIN cs /\ ds = [j \in DOMAIN cs |-> ds[j]]
      /\ \A j \in DOMAIN cs : ds[j] = IF j = i THEN k ELSE cs[j]
  OBVIOUS
<1>2. \A j \in DOMAIN cs : cs[j] \in Code /\ Fits(cs[j], n)
  BY DEF AllFit
<1>3. \A j \in DOMAIN cs : ds[j] \in Code /\ Fits(ds[j], n)
  BY <1>1, <1>2
<1>4. ds \in Seq(Code) /\ Len(ds) = Len(cs)
  BY <1>1, <1>3, SeqOfCodes
<1>5. QED
  BY <1>1, <1>3, <1>4 DEF AllFit

LEMMA ComparedIsValid ==
    ASSUME NEW e \in Emails, NEW p, Compared(e, p) # 0
    PROVE  Compared(e, p) \in Valid(e, p)
<1>1. Newest(Valid(e, p)) # {} /\ Compared(e, p) = CHOOSE i \in Newest(Valid(e, p)) : TRUE
  BY DEF Compared
<1>2. Compared(e, p) \in Newest(Valid(e, p))
  BY <1>1
<1>3. QED
  BY <1>2 DEF Newest

-----------------------------------------------------------------------------
(* The steps that touch codes *)

LEMMA IssueKeeps ==
    ASSUME RegistrationAssumption, CodesOK, NEW e \in Emails, NEW p \in Purposes,
           MayIssue(e), Issue(e, p), UNCHANGED fails
    PROVE  CodesOK'
<1> DEFINE k == [purpose |-> p, age |-> "young", used |-> FALSE, guesses |-> 0, fresh |-> 0]
           cs == codes[e]
<1>1. cs \in Seq(Code) /\ Len(cs) \in 0 .. Daily /\ fails[e].n \in Count /\ AllFit(cs, fails[e].n)
  BY CodesOf
<1>2. k \in Code /\ Fits(k, fails[e].n)
  BY <1>1, FitsNew
<1>3. codes' = [codes EXCEPT ![e] = Append(cs, k)] /\ Len(cs) < Daily
  BY DEF Issue, MayIssue
<1> HIDE DEF k, cs
<1>4. Append(cs, k) \in Seq(Code) /\ Len(Append(cs, k)) = Len(cs) + 1
  BY <1>1, <1>2
<1>5. Len(Append(cs, k)) <= Daily
  BY <1>1, <1>3, <1>4 DEF RegistrationAssumption
<1>6. AllFit(Append(cs, k), fails[e].n)
  <2> SUFFICES ASSUME NEW i \in DOMAIN Append(cs, k)
               PROVE  Fits(Append(cs, k)[i], fails[e].n)
    BY DEF AllFit
  <2>1. CASE i = Len(cs) + 1
    BY <1>1, <1>2, <2>1
  <2>2. CASE i # Len(cs) + 1
    BY <1>1, <1>2, <2>2 DEF AllFit
  <2>3. QED
    BY <2>1, <2>2
<1>7. QED
  BY <1>3, <1>4, <1>5, <1>6, CodesChange

LEMMA UsedFits ==
    ASSUME RegistrationAssumption, CodesOK, NEW e \in Emails, NEW i \in DOMAIN codes[e]
    PROVE  LET ds == [codes[e] EXCEPT ![i].used = TRUE]
           IN  ds \in Seq(Code) /\ Len(ds) = Len(codes[e]) /\ AllFit(ds, fails[e].n)
<1> DEFINE k == [codes[e][i] EXCEPT !.used = TRUE]
           ds == [codes[e] EXCEPT ![i].used = TRUE]
<1>1. /\ codes[e] \in Seq(Code) /\ codes[e][i] \in Code /\ fails[e].n \in Count
      /\ AllFit(codes[e], fails[e].n)
  BY CodesOf
<1>2. k \in Code /\ Fits(k, fails[e].n)
  BY <1>1, FitsUsed DEF AllFit
<1>3. ds = [codes[e] EXCEPT ![i] = k]
  OBVIOUS
<1> HIDE DEF k, ds
<1>4. ds \in Seq(Code) /\ Len(ds) = Len(codes[e]) /\ AllFit(ds, fails[e].n)
  BY <1>1, <1>2, <1>3, OneChanged
<1>5. QED
  BY <1>4 DEF ds

LEMMA UseKeeps ==
    ASSUME RegistrationAssumption, CodesOK, NEW e \in Emails, NEW i \in DOMAIN codes[e],
           Use(e, i), UNCHANGED fails
    PROVE  CodesOK'
<1> DEFINE ds == [codes[e] EXCEPT ![i].used = TRUE]
<1>1. codes' = [codes EXCEPT ![e] = ds]
  BY DEF Use
<1>2. ds \in Seq(Code) /\ Len(ds) <= Daily /\ AllFit(ds, fails[e].n)
  <2>1. ds \in Seq(Code) /\ Len(ds) = Len(codes[e]) /\ AllFit(ds, fails[e].n)
    BY UsedFits
  <2>2. Len(codes[e]) <= Daily
    BY CodesOf DEF RegistrationAssumption
  <2> HIDE DEF ds
  <2>3. QED
    BY <2>1, <2>2
<1> HIDE DEF ds
<1>3. QED
  BY <1>1, <1>2, CodesChange

LEMMA RenewKeeps ==
    ASSUME RegistrationAssumption, CodesOK, NEW e \in Emails,
           codes' = [codes EXCEPT ![e] = Renewed(e, @)], fails' = [fails EXCEPT ![e] = NoFails]
    PROVE  CodesOK'
<1>1. codes[e] \in Seq(Code) /\ Len(codes[e]) <= Daily /\ fails[e].n \in Count
      /\ AllFit(codes[e], fails[e].n)
  BY CodesOf DEF RegistrationAssumption
<1> DEFINE ds == Renewed(e, codes[e])
<1>2. ds \in Seq(Code) /\ Len(ds) <= Daily /\ AllFit(ds, 0)
  BY <1>1, RenewedFits
<1>3. NoFails \in [n : Count, from : 0 .. Daily] /\ NoFails.n = 0
  BY DEF NoFails, Count, RegistrationAssumption
<1>4. codes' = [codes EXCEPT ![e] = ds]
  OBVIOUS
<1> HIDE DEF ds
<1>5. QED
  BY <1>2, <1>3, <1>4, CodesStep

LEMMA AgeCodeKeeps ==
    ASSUME RegistrationAssumption, CodesOK, NEW e \in Emails, NEW i \in DOMAIN codes[e], AgeCode(e, i)
    PROVE  CodesOK'
<1>1. /\ codes[e] \in Seq(Code) /\ Len(codes[e]) <= Daily /\ codes[e][i] \in Code
      /\ fails[e].n \in Count /\ AllFit(codes[e], fails[e].n)
  BY CodesOf DEF RegistrationAssumption
<1>2. PICK a \in {"live", "old"} :
        codes' = [codes EXCEPT ![e][i].age = a] /\ codes[e][i].age # "old"
  BY DEF AgeCode
<1> DEFINE k == [codes[e][i] EXCEPT !.age = a]
           ds == [codes[e] EXCEPT ![i] = k]
<1>3. codes' = [codes EXCEPT ![e] = ds] /\ UNCHANGED fails
  BY <1>2 DEF AgeCode
<1>4. k \in Code /\ Fits(k, fails[e].n)
  BY <1>1, <1>2, FitsAged DEF AllFit
<1> HIDE DEF k
<1>5. ds \in Seq(Code) /\ Len(ds) = Len(codes[e]) /\ AllFit(ds, fails[e].n)
  BY <1>1, <1>4, OneChanged
<1> HIDE DEF ds
<1>6. QED
  BY <1>1, <1>3, <1>5, CodesChange

LEMMA DropCodesKeeps ==
    ASSUME RegistrationAssumption, CodesOK, NEW e \in Emails, DropCodes(e)
    PROVE  CodesOK'
<1>1. <<>> \in Seq(Code) /\ Len(<<>>) <= Daily /\ AllFit(<<>>, fails[e].n)
  BY DEF RegistrationAssumption, AllFit
<1>2. codes' = [codes EXCEPT ![e] = <<>>] /\ UNCHANGED fails
  BY DEF DropCodes
<1>3. QED
  BY <1>1, <1>2, CodesChange

LEMMA WrongResetKeeps ==
    ASSUME RegistrationAssumption, CodesOK, NEW e \in Emails, NEW i,
           i = 0 \/ i \in Valid(e, "reset"), WrongReset(e, i)
    PROVE  CodesOK'
<1> DEFINE cs == codes[e]
           n == fails[e].n
           f == IF TooMany(n + 1) THEN [fails[e] EXCEPT !.n = MaxGuesses] ELSE Counted(e)
           V == Valid(e, "reset")
           ds == [j \in DOMAIN cs |->
                     [cs[j] EXCEPT !.used = cs[j].used \/ (TooMany(n + 1) /\ j \in V),
                                   !.guesses = IF j = i THEN @ + 1 ELSE @]]
<1>1. /\ cs \in Seq(Code) /\ Len(cs) \in 0 .. Daily /\ \A j \in DOMAIN cs : cs[j] \in Code
      /\ DOMAIN cs = 1 .. Len(cs)
      /\ fails[e] \in [n : Count, from : 0 .. Daily] /\ n \in Count /\ AllFit(cs, n)
  BY CodesOf
<1>2. codes' = [codes EXCEPT ![e] = ds] /\ fails' = [fails EXCEPT ![e] = f]
  BY DEF WrongReset
<1>3. /\ f \in [n : Count, from : 0 .. Daily]
      /\ f.n = (IF TooMany(n + 1) THEN MaxGuesses ELSE n + 1)
  <2>1. MaxGuesses \in Nat \ {0} /\ n \in 0 .. MaxGuesses
    BY <1>1 DEF Count, RegistrationAssumption
  <2>2. CASE TooMany(n + 1)
    <3>1. f = [fails[e] EXCEPT !.n = MaxGuesses] /\ MaxGuesses \in Count
      BY <2>1, <2>2 DEF Count
    <3>2. QED
      BY <1>1, <2>2, <3>1
  <2>3. CASE ~ TooMany(n + 1)
    <3>1. f = Counted(e) /\ n + 1 \in Count
      BY <2>1, <2>3 DEF Count, TooMany
    <3>2. CASE n = 0
      <4>1. f = [n |-> 1, from |-> Len(cs)]
        BY <3>1, <3>2 DEF Counted
      <4>2. QED
        BY <1>1, <2>3, <3>1, <3>2, <4>1
    <3>3. CASE n # 0
      <4>1. f = [fails[e] EXCEPT !.n = n + 1]
        BY <3>1, <3>3 DEF Counted
      <4>2. QED
        BY <1>1, <2>3, <3>1, <4>1
    <3>4. QED
      BY <3>2, <3>3
  <2>4. QED
    BY <2>2, <2>3
<1>4. \A j \in V : j \in DOMAIN cs /\ cs[j].purpose = "reset" /\ cs[j].age # "old" /\ ~ cs[j].used
  BY DEF Valid
<1>5. \A j \in DOMAIN cs : (cs[j].purpose = "reset" /\ cs[j].age # "old" /\ ~ cs[j].used) => j \in V
  BY DEF Valid
<1>6. i = 0 \/ i \in V
  OBVIOUS
<1> HIDE DEF f, V, cs, n
<1>7. ASSUME NEW j \in DOMAIN cs
      PROVE  ds[j] \in Code /\ Fits(ds[j], f.n)
  <2> DEFINE met == j = i
             spent == TooMany(n + 1) /\ j \in V
  <2>1. met => cs[j].purpose = "reset" /\ cs[j].age # "old" /\ ~ cs[j].used
    BY <1>1, <1>4, <1>6
  <2>2. ds[j] = [cs[j] EXCEPT !.used = cs[j].used \/ spent,
                              !.guesses = IF met THEN cs[j].guesses + 1 ELSE cs[j].guesses]
    BY <1>1 DEF Code
  <2>3. (TooMany(n + 1) /\ cs[j].purpose = "reset" /\ cs[j].age # "old" /\ ~ cs[j].used) => spent
    BY <1>5
  <2>4. met \in BOOLEAN /\ spent \in BOOLEAN
    BY DEF TooMany
  <2>5. cs[j] \in Code /\ Fits(cs[j], n) /\ n \in Count /\ f.n \in Count
    BY <1>1, <1>3 DEF AllFit
  <2> HIDE DEF met, spent, ds
  <2>6. QED
    BY <1>3, <2>1, <2>2, <2>3, <2>4, <2>5, FitsGuessed
<1>8. DOMAIN ds = DOMAIN cs /\ ds = [j \in DOMAIN cs |-> ds[j]]
  OBVIOUS
<1> HIDE DEF ds
<1>9. ds \in Seq(Code) /\ Len(ds) = Len(cs)
  BY <1>1, <1>7, <1>8, SeqOfCodes
<1>10. AllFit(ds, f.n) /\ Len(ds) <= Daily
  BY <1>1, <1>7, <1>8, <1>9 DEF AllFit, RegistrationAssumption
<1>11. QED
  BY <1>2, <1>3, <1>9, <1>10, CodesStep

LEMMA VerifyForgotKeeps ==
    ASSUME RegistrationAssumption, CodesOK, NEW e \in Emails, NEW right \in BOOLEAN,
           VerifyForgot(e, right)
    PROVE  CodesOK'
<1> DEFINE i == Compared(e, "reset")
<1>1. i = 0 \/ i \in Valid(e, "reset")
  BY ComparedIsValid
<1>2. i # 0 => i \in DOMAIN codes[e]
  BY <1>1 DEF Valid
<1>3. \/ i # 0 /\ codes' = [codes EXCEPT ![e] = Renewed(e, [@ EXCEPT ![i].used = TRUE])]
                /\ fails' = [fails EXCEPT ![e] = NoFails]
      \/ i # 0 /\ Use(e, i) /\ UNCHANGED fails
      \/ WrongReset(e, i)
  BY DEF VerifyForgot, Accepted
<1> HIDE DEF i
<1>4. CASE /\ i # 0 /\ codes' = [codes EXCEPT ![e] = Renewed(e, [@ EXCEPT ![i].used = TRUE])]
           /\ fails' = [fails EXCEPT ![e] = NoFails]
  <2> DEFINE cs == [codes[e] EXCEPT ![i].used = TRUE]
             ds == Renewed(e, cs)
  <2>1. cs \in Seq(Code) /\ Len(cs) <= Daily /\ AllFit(cs, fails[e].n) /\ fails[e].n \in Count
    <3>1. i \in DOMAIN codes[e]
      BY <1>2, <1>4
    <3>2. cs \in Seq(Code) /\ Len(cs) = Len(codes[e]) /\ AllFit(cs, fails[e].n)
      BY <3>1, UsedFits
    <3>3. Len(codes[e]) <= Daily /\ fails[e].n \in Count
      BY CodesOf DEF RegistrationAssumption
    <3> HIDE DEF cs
    <3>4. QED
      BY <3>2, <3>3
  <2>2. codes' = [codes EXCEPT ![e] = ds]
    BY <1>4
  <2> HIDE DEF cs
  <2>3. ds \in Seq(Code) /\ Len(ds) <= Daily /\ AllFit(ds, 0)
    BY <2>1, RenewedFits
  <2>4. NoFails \in [n : Count, from : 0 .. Daily] /\ NoFails.n = 0
    BY DEF NoFails, Count, RegistrationAssumption
  <2> HIDE DEF ds
  <2>5. QED
    BY <1>4, <2>2, <2>3, <2>4, CodesStep
<1>5. CASE i # 0 /\ Use(e, i) /\ UNCHANGED fails
  BY <1>2, <1>5, UseKeeps
<1>6. CASE WrongReset(e, i)
  BY <1>1, <1>6, WrongResetKeeps
<1>7. QED
  BY <1>3, <1>4, <1>5, <1>6

\* A restart: every count begins anew.
LEMMA CrashFits ==
    ASSUME RegistrationAssumption, CodesOK, Crash
    PROVE  CodesOK'
<1>1. /\ codes' = [e \in Emails |-> Renewed(e, codes[e])]
      /\ fails' = [e \in Emails |-> NoFails]
  BY DEF Crash
<1>2. ASSUME NEW e \in Emails
      PROVE  /\ Renewed(e, codes[e]) \in Seq(Code) /\ Len(Renewed(e, codes[e])) <= Daily
             /\ AllFit(Renewed(e, codes[e]), 0)
  BY CodesOf, RenewedFits DEF RegistrationAssumption
<1>3. NoFails \in [n : Count, from : 0 .. Daily] /\ NoFails.n = 0
  BY DEF NoFails, Count, RegistrationAssumption
<1>4. CodesFit'
  <2> SUFFICES ASSUME NEW e \in Emails
               PROVE  AllFit(codes'[e], fails'[e].n)
    BY DEF CodesFit, AllFit, Fits
  <2>1. QED
    BY <1>1, <1>2, <1>3
<1>5. QED
  BY <1>1, <1>2, <1>3, <1>4 DEF CodesOK

-----------------------------------------------------------------------------
(* The quota of an address: registrations that count, and starts under way *)

QuotaOf(ip) == Cardinality(Recent(ip)) + Cardinality(InFlight(ip)) <= MaxPerIp + Cardinality(Calls) - 1

LEMMA QuotaSets ==
    ASSUME RegistrationAssumption, NEW ip
    PROVE  /\ IsFiniteSet(Recent(ip)) /\ Cardinality(Recent(ip)) \in Nat
           /\ IsFiniteSet(InFlight(ip)) /\ Cardinality(InFlight(ip)) \in Nat
           /\ Cardinality(InFlight(ip)) <= Cardinality(Calls)
           /\ Cardinality(Calls) \in Nat \ {0} /\ MaxPerIp \in Nat
<1>1. IsFiniteSet(Calls) /\ IsFiniteSet(Rows) /\ Calls # {} /\ MaxPerIp \in Nat
  BY DEF RegistrationAssumption
<1>2. Recent(ip) \subseteq Rows /\ InFlight(ip) \subseteq Calls
  BY DEF Recent, InFlight
<1>3. /\ IsFiniteSet(Recent(ip)) /\ IsFiniteSet(InFlight(ip))
      /\ Cardinality(InFlight(ip)) <= Cardinality(Calls)
  BY <1>1, <1>2, FS_Subset
<1>4. Cardinality(Calls) # 0
  BY <1>1, FS_EmptySet
<1>5. QED
  BY <1>1, <1>3, <1>4, FS_CardinalityType

\* The sum of smaller sets is smaller.
LEMMA QuotaShrinks ==
    ASSUME RegistrationAssumption, NEW ip, QuotaOf(ip),
           Recent(ip)' \subseteq Recent(ip), InFlight(ip)' \subseteq InFlight(ip)
    PROVE  QuotaOf(ip)'
<1> DEFINE R == Recent(ip)
           F == InFlight(ip)
           S == Recent(ip)'
           G == InFlight(ip)'
<1>1. /\ IsFiniteSet(R) /\ IsFiniteSet(F) /\ Cardinality(R) \in Nat /\ Cardinality(F) \in Nat
      /\ Cardinality(Calls) \in Nat /\ MaxPerIp \in Nat
  BY QuotaSets
<1>2. S \subseteq R /\ G \subseteq F
  OBVIOUS
<1>3. Cardinality(R) + Cardinality(F) <= MaxPerIp + Cardinality(Calls) - 1
  BY DEF QuotaOf
<1> HIDE DEF R, F, S, G
<1>4. /\ Cardinality(S) <= Cardinality(R) /\ Cardinality(G) <= Cardinality(F)
      /\ IsFiniteSet(S) /\ IsFiniteSet(G)
  BY <1>1, <1>2, FS_Subset
<1>5. Cardinality(S) \in Nat /\ Cardinality(G) \in Nat
  BY <1>4, FS_CardinalityType
<1>6. Cardinality(S) + Cardinality(G) <= MaxPerIp + Cardinality(Calls) - 1
  BY <1>1, <1>3, <1>4, <1>5
<1>7. QED
  BY <1>6 DEF QuotaOf, S, G

\* A start that is let in: the registrations that count are below the limit,
\* and no more starts than handlers are under way.
LEMMA QuotaOfStart ==
    ASSUME RegistrationAssumption, NEW ip, BelowQuota(ip), Recent(ip)' = Recent(ip),
           InFlight(ip)' \subseteq Calls
    PROVE  QuotaOf(ip)'
<1> DEFINE R == Recent(ip)
           G == InFlight(ip)'
<1>1. Cardinality(R) \in Nat /\ Cardinality(Calls) \in Nat /\ MaxPerIp \in Nat /\ IsFiniteSet(Calls)
  BY QuotaSets DEF RegistrationAssumption
<1>2. Cardinality(R) < MaxPerIp /\ G \subseteq Calls /\ Recent(ip)' = R
  BY DEF BelowQuota
<1> HIDE DEF R, G
<1>3. IsFiniteSet(G) /\ Cardinality(G) <= Cardinality(Calls) /\ Cardinality(G) \in Nat
  BY <1>1, <1>2, FS_Subset, FS_CardinalityType
<1>4. Cardinality(R) + Cardinality(G) <= MaxPerIp + Cardinality(Calls) - 1
  BY <1>1, <1>2, <1>3
<1>5. QED
  BY <1>2, <1>4 DEF QuotaOf, G

\* A start that ends becomes a registration.
LEMMA QuotaOfEnd ==
    ASSUME RegistrationAssumption, NEW ip, QuotaOf(ip), NEW r, NEW c \in InFlight(ip),
           Recent(ip)' \subseteq Recent(ip) \cup {r}, InFlight(ip)' \subseteq InFlight(ip) \ {c}
    PROVE  QuotaOf(ip)'
<1> DEFINE R == Recent(ip)
           F == InFlight(ip)
           S == Recent(ip)'
           G == InFlight(ip)'
<1>1. /\ IsFiniteSet(R) /\ IsFiniteSet(F) /\ Cardinality(R) \in Nat /\ Cardinality(F) \in Nat
      /\ Cardinality(Calls) \in Nat /\ MaxPerIp \in Nat
  BY QuotaSets
<1>2. S \subseteq R \cup {r} /\ G \subseteq F \ {c} /\ c \in F
  OBVIOUS
<1>3. Cardinality(R) + Cardinality(F) <= MaxPerIp + Cardinality(Calls) - 1
  BY DEF QuotaOf
<1> HIDE DEF R, F, S, G
<1>4. IsFiniteSet(R \cup {r}) /\ Cardinality(R \cup {r}) <= Cardinality(R) + 1
  <2>1. /\ IsFiniteSet(R \cup {r})
        /\ Cardinality(R \cup {r}) = IF r \in R THEN Cardinality(R) ELSE Cardinality(R) + 1
    BY <1>1, FS_AddElement
  <2>2. QED
    BY <1>1, <2>1
<1>5. IsFiniteSet(F \ {c}) /\ Cardinality(F \ {c}) = Cardinality(F) - 1
  BY <1>1, <1>2, FS_RemoveElement
<1>6. /\ IsFiniteSet(S) /\ Cardinality(S) <= Cardinality(R \cup {r})
      /\ IsFiniteSet(G) /\ Cardinality(G) <= Cardinality(F \ {c})
  BY <1>2, <1>4, <1>5, FS_Subset
<1>7. /\ Cardinality(S) \in Nat /\ Cardinality(G) \in Nat
      /\ Cardinality(R \cup {r}) \in Nat /\ Cardinality(F \ {c}) \in Nat
  BY <1>4, <1>5, <1>6, FS_CardinalityType
<1>8. Cardinality(S) + Cardinality(G) <= MaxPerIp + Cardinality(Calls) - 1
  BY <1>1, <1>3, <1>4, <1>5, <1>6, <1>7
<1>9. QED
  BY <1>8 DEF QuotaOf, S, G

LEMMA QuotaIs == QuotaHolds <=> \A ip \in Ips : QuotaOf(ip)
BY DEF QuotaHolds, QuotaOf

\* No registration comes to count, no start begins.
LEMMA RegsShrink ==
    ASSUME RegistrationAssumption, RegsOK,
           regs' \in [Rows -> Registration \cup {None}], call' \in [Calls -> Call \cup {None}],
           \A r \in Rows : regs'[r] # None =>
               regs[r] # None /\ regs'[r].ip = regs[r].ip /\ (regs'[r].age = "open" => regs[r].age = "open"),
           \A c \in Calls : call'[c] # None => call'[c] = call[c]
    PROVE  RegsOK'
<1>1. ASSUME NEW ip \in Ips
      PROVE  QuotaOf(ip)'
  <2>1. Recent(ip)' \subseteq Recent(ip) /\ InFlight(ip)' \subseteq InFlight(ip)
    BY DEF Recent, InFlight
  <2>2. QuotaOf(ip)
    BY QuotaIs DEF RegsOK
  <2>3. QED
    BY <2>1, <2>2, QuotaShrinks
<1>2. QuotaHolds'
  BY <1>1 DEF QuotaOf, QuotaHolds
<1>3. QED
  BY <1>2 DEF RegsOK

LEMMA RegsStay ==
    ASSUME RegsOK, UNCHANGED <<regs, call>>
    PROVE  RegsOK'
BY DEF RegsOK, QuotaHolds, Recent, InFlight

LEMMA CallEnds ==
    ASSUME RegistrationAssumption, RegsOK, UNCHANGED regs, NEW c \in Calls, End(c)
    PROVE  RegsOK'
BY RegsShrink DEF RegsOK, End

\* A flow of a code only.
LEMMA OtherCallBegins ==
    ASSUME RegistrationAssumption, RegsOK, UNCHANGED regs, NEW c \in Calls, NEW e \in Emails,
           NEW p \in {"reset", "bind"}, Begin(c, [purpose |-> p, email |-> e])
    PROVE  RegsOK'
<1> DEFINE k == [purpose |-> p, email |-> e]
<1>1. k \in Call /\ k.purpose # "register" /\ k # None
  BY DEF Call, RegistrationAssumption
<1>2. call' = [call EXCEPT ![c] = k]
  BY DEF Begin
<1> HIDE DEF k
<1>3. regs' \in [Rows -> Registration \cup {None}] /\ call' \in [Calls -> Call \cup {None}]
  BY <1>1, <1>2 DEF RegsOK
<1>4. ASSUME NEW ip \in Ips
      PROVE  QuotaOf(ip)'
  <2>1. Recent(ip)' \subseteq Recent(ip)
    BY DEF Recent
  <2>2. InFlight(ip)' \subseteq InFlight(ip)
    BY <1>1, <1>2 DEF InFlight, RegsOK
  <2>3. QuotaOf(ip)
    BY QuotaIs DEF RegsOK
  <2>4. QED
    BY <2>1, <2>2, <2>3, QuotaShrinks
<1>5. QuotaHolds'
  BY <1>4 DEF QuotaOf, QuotaHolds
<1>6. QED
  BY <1>3, <1>5 DEF RegsOK

LEMMA StartKeeps ==
    ASSUME RegistrationAssumption, RegsOK, NEW c \in Calls, NEW n \in Names, NEW e \in Emails,
           NEW v \in Invites \cup {None}, NEW ip \in Ips, StartRegister(c, n, e, v, ip)
    PROVE  RegsOK'
<1> DEFINE k == [purpose |-> "register", name |-> n, email |-> e, invite |-> v, ip |-> ip]
<1>1. k \in Call /\ k.ip = ip
  BY DEF Call
<1>2. call' = [call EXCEPT ![c] = k] /\ UNCHANGED regs /\ BelowQuota(ip)
  BY DEF StartRegister, Begin
<1> HIDE DEF k
<1>3. regs' \in [Rows -> Registration \cup {None}] /\ call' \in [Calls -> Call \cup {None}]
  BY <1>1, <1>2 DEF RegsOK
<1>4. ASSUME NEW x \in Ips
      PROVE  QuotaOf(x)'
  <2>1. Recent(x)' = Recent(x)
    BY <1>2 DEF Recent
  <2>2. CASE x = ip
    <3>1. InFlight(x)' \subseteq Calls
      BY DEF InFlight
    <3>2. QED
      BY <1>2, <2>1, <2>2, <3>1, QuotaOfStart
  <2>3. CASE x # ip
    <3>1. InFlight(x)' \subseteq InFlight(x)
      BY <1>1, <1>2, <2>3 DEF InFlight, RegsOK
    <3>2. QuotaOf(x)
      BY QuotaIs DEF RegsOK
    <3>3. QED
      BY <2>1, <3>1, <3>2, QuotaShrinks
  <2>4. QED
    BY <2>2, <2>3
<1>5. QuotaHolds'
  BY <1>4 DEF QuotaOf, QuotaHolds
<1>6. QED
  BY <1>3, <1>5 DEF RegsOK

LEMMA EndStartKeeps ==
    ASSUME RegistrationAssumption, RegsOK, NEW c \in Calls, NEW r \in Rows, EndStart(c, r)
    PROVE  RegsOK'
<1> DEFINE g == [name |-> call[c].name, email |-> call[c].email, invite |-> call[c].invite,
                 ip |-> call[c].ip, attempts |-> 0, done |-> FALSE, age |-> "open"]
<1>1. call[c] \in [purpose : {"register"}, name : Names, email : Emails,
                    invite : Invites \cup {None}, ip : Ips]
  BY DEF EndStart, RegsOK, Call
<1>2. g \in Registration /\ g.ip = call[c].ip
  BY <1>1 DEF Registration, RegistrationAssumption
<1>3. /\ regs' = [regs EXCEPT ![r] = g] /\ call' = [call EXCEPT ![c] = None]
      /\ call[c] # None /\ call[c].purpose = "register"
  BY DEF EndStart, End
<1> HIDE DEF g
<1>4. regs' \in [Rows -> Registration \cup {None}] /\ call' \in [Calls -> Call \cup {None}]
  BY <1>2, <1>3 DEF RegsOK
<1>5. ASSUME NEW ip \in Ips
      PROVE  QuotaOf(ip)'
  <2>1. QuotaOf(ip)
    BY QuotaIs DEF RegsOK
  <2>2. InFlight(ip)' \subseteq InFlight(ip) \ {c}
    BY <1>3 DEF InFlight, RegsOK
  <2>3. CASE ip = call[c].ip
    <3>1. c \in InFlight(ip)
      BY <1>3, <2>3 DEF InFlight
    <3>2. Recent(ip)' \subseteq Recent(ip) \cup {r}
      BY <1>3 DEF Recent, RegsOK
    <3>3. QED
      BY <2>1, <2>2, <3>1, <3>2, QuotaOfEnd
  <2>4. CASE ip # call[c].ip
    <3>1. Recent(ip)' \subseteq Recent(ip)
      BY <1>2, <1>3, <2>4 DEF Recent, RegsOK
    <3>2. QED
      BY <2>1, <2>2, <3>1, QuotaShrinks
  <2>5. QED
    BY <2>3, <2>4
<1>6. QuotaHolds'
  BY <1>5 DEF QuotaOf, QuotaHolds
<1>7. QED
  BY <1>4, <1>6 DEF RegsOK

-----------------------------------------------------------------------------
(* Accounts and the steps *)

LEMMA AccountsStay ==
    ASSUME AccountsOK, UNCHANGED <<accounts, invites>>
    PROVE  AccountsOK'
BY DEF AccountsOK

\* A code that is used for a registration, with or without an account of it.
LEMMA VerifyRegisterKeeps ==
    ASSUME RegistrationAssumption, RegInv, NEW r \in Rows, NEW right \in BOOLEAN,
           VerifyRegister(r, right)
    PROVE  RegInv'
<1> DEFINE g == regs[r]
           e == g.email
           i == Compared(e, "register")
<1>1. /\ g # None /\ g \in Registration /\ e \in Emails /\ g.name \in Names
      /\ g.invite \in Invites \cup {None} /\ g.ip \in Ips /\ g.age = "open"
      /\ UNCHANGED <<fails, call, crashes>>
  BY DEF VerifyRegister, Pending, RegInv, RegsOK, Registration
<1>2. i # 0 => i \in DOMAIN codes[e]
  BY <1>1, ComparedIsValid DEF Valid
<1>3. \/ i # 0 /\ Use(e, i) /\ Activate(r)
      \/ regs' = [regs EXCEPT ![r] = Missed(g)] /\ UNCHANGED <<codes, accounts, invites>>
  BY DEF VerifyRegister, Accepted
<1> HIDE DEF i
<1>4. CASE i # 0 /\ Use(e, i) /\ Activate(r)
  <2>1. CodesOK'
    BY <1>1, <1>2, <1>4, UseKeeps DEF RegInv
  <2>2. CASE UNCHANGED <<accounts, invites, regs>>
    BY <1>1, <2>1, <2>2, AccountsStay, RegsStay DEF RegInv
  <2>3. CASE /\ Spendable(g.invite)
             /\ accounts' = accounts \cup {[name |-> g.name, email |-> g.email, local |-> TRUE]}
             /\ invites' = Spend(g.invite)
             /\ regs' = [regs EXCEPT ![r].done = TRUE]
    <3>1. AccountsOK'
      <4>1. [name |-> g.name, email |-> g.email, local |-> TRUE] \in Account
        BY <1>1 DEF Account
      <4>2. invites' \in [Invites -> 0 .. 1]
        <5>1. CASE g.invite = None
          BY <2>3, <5>1 DEF Spend, RegInv, AccountsOK
        <5>2. CASE g.invite # None
          BY <1>1, <2>3, <5>2 DEF Spend, Spendable, RegInv, AccountsOK
        <5>3. QED
          BY <5>1, <5>2
      <4>3. QED
        BY <2>3, <4>1, <4>2 DEF RegInv, AccountsOK
    <3>2. RegsOK'
      <4> DEFINE h == [g EXCEPT !.done = TRUE]
      <4>1. h \in Registration /\ h.ip = g.ip /\ h.age = g.age
        BY <1>1 DEF Registration
      <4>2. regs' = [regs EXCEPT ![r] = h]
        BY <2>3
      <4> HIDE DEF h, g
      <4>3. regs' \in [Rows -> Registration \cup {None}]
        BY <4>1, <4>2 DEF RegInv, RegsOK
      <4>4. \A s \in Rows : regs'[s] # None =>
              regs[s] # None /\ regs'[s].ip = regs[s].ip /\ (regs'[s].age = "open" => regs[s].age = "open")
        BY <1>1, <4>1, <4>2 DEF RegInv, RegsOK, g
      <4>5. QED
        BY <1>1, <4>3, <4>4, RegsShrink DEF RegInv, RegsOK
    <3>3. QED
      BY <1>1, <2>1, <3>1, <3>2 DEF RegInv
  <2>4. QED
    BY <1>4, <2>2, <2>3 DEF Activate
<1>5. CASE regs' = [regs EXCEPT ![r] = Missed(g)] /\ UNCHANGED <<codes, accounts, invites>>
  <2> DEFINE h == Missed(g)
  <2>1. h = None \/ (h \in Registration /\ h.ip = g.ip /\ h.age = g.age)
    <3>1. MaxGuesses \in Nat /\ g.attempts \in 0 .. MaxGuesses
      BY <1>1 DEF Registration, RegistrationAssumption
    <3>2. CASE g.attempts + 1 >= MaxGuesses
      BY <3>2 DEF Missed
    <3>3. CASE ~ (g.attempts + 1 >= MaxGuesses)
      <4>1. h = [g EXCEPT !.attempts = g.attempts + 1] /\ g.attempts + 1 \in 0 .. MaxGuesses
        BY <3>1, <3>3 DEF Missed
      <4>2. QED
        BY <1>1, <4>1 DEF Registration
    <3>4. QED
      BY <3>2, <3>3
  <2>2. regs' = [regs EXCEPT ![r] = h]
    BY <1>5
  <2> HIDE DEF h, g
  <2>3. regs' \in [Rows -> Registration \cup {None}]
    BY <2>1, <2>2 DEF RegInv, RegsOK
  <2>4. \A s \in Rows : regs'[s] # None =>
          regs[s] # None /\ regs'[s].ip = regs[s].ip /\ (regs'[s].age = "open" => regs[s].age = "open")
    BY <1>1, <2>1, <2>2 DEF RegInv, RegsOK, g
  <2>5. RegsOK'
    BY <1>1, <2>3, <2>4, RegsShrink DEF RegInv, RegsOK
  <2>6. QED
    BY <1>1, <1>5, <2>5, CodesStay, AccountsStay DEF RegInv
<1>6. QED
  BY <1>3, <1>4, <1>5

LEMMA AgeRegKeeps ==
    ASSUME RegistrationAssumption, RegInv, NEW r \in Rows, AgeReg(r)
    PROVE  RegInv'
<1>1. PICK a \in {"expired", "stale"} : regs' = [regs EXCEPT ![r].age = a]
  BY DEF AgeReg
<1> DEFINE h == [regs[r] EXCEPT !.age = a]
<1>2. regs[r] # None /\ UNCHANGED <<codes, accounts, invites, fails, call, crashes>>
  BY DEF AgeReg
<1>3. h \in Registration /\ h.ip = regs[r].ip /\ h.age # "open"
  BY <1>2 DEF RegInv, RegsOK, Registration
<1>4. regs' = [regs EXCEPT ![r] = h]
  BY <1>1
<1> HIDE DEF h
<1>5. RegsOK'
  <2>1. regs' \in [Rows -> Registration \cup {None}]
    BY <1>3, <1>4 DEF RegInv, RegsOK
  <2>2. \A s \in Rows : regs'[s] # None =>
          regs[s] # None /\ regs'[s].ip = regs[s].ip /\ (regs'[s].age = "open" => regs[s].age = "open")
    BY <1>2, <1>3, <1>4 DEF RegInv, RegsOK
  <2>3. QED
    BY <1>2, <2>1, <2>2, RegsShrink DEF RegInv, RegsOK
<1>6. QED
  BY <1>2, <1>5, CodesStay, AccountsStay DEF RegInv

LEMMA PurgeKeeps ==
    ASSUME RegistrationAssumption, RegInv, PurgeRegistrations
    PROVE  RegInv'
<1>1. /\ regs' = [r \in Rows |-> IF Purgeable(r) THEN None ELSE regs[r]]
      /\ UNCHANGED <<codes, accounts, invites, fails, call, crashes>>
  BY DEF PurgeRegistrations
<1>2. RegsOK'
  <2>1. regs' \in [Rows -> Registration \cup {None}]
    BY <1>1 DEF RegInv, RegsOK
  <2>2. \A s \in Rows : regs'[s] # None => regs'[s] = regs[s]
    BY <1>1
  <2>3. QED
    BY <1>1, <2>1, <2>2, RegsShrink DEF RegInv, RegsOK
<1>3. QED
  BY <1>1, <1>2, CodesStay, AccountsStay DEF RegInv

LEMMA CrashKeeps ==
    ASSUME RegistrationAssumption, RegInv, Crash
    PROVE  RegInv'
<1>1. CodesOK'
  BY CrashFits DEF RegInv
<1>2. /\ UNCHANGED <<regs, accounts, invites>> /\ call' = [c \in Calls |-> None]
      /\ crashes' \in 0 .. Crashes
  BY DEF Crash, RegInv, RegistrationAssumption
<1>3. RegsOK'
  BY <1>2, RegsShrink DEF RegInv, RegsOK
<1>4. QED
  BY <1>1, <1>2, <1>3, AccountsStay DEF RegInv

LEMMA EndForgotKeeps ==
    ASSUME RegistrationAssumption, RegInv, NEW c \in Calls, EndForgot(c)
    PROVE  RegInv'
<1>1. call[c].email \in Emails /\ UNCHANGED <<regs, accounts, invites, crashes>> /\ End(c)
  BY DEF EndForgot, RegInv, RegsOK, Call
<1>2. CodesOK'
  BY <1>1, RenewKeeps DEF EndForgot, RegInv
<1>3. QED
  BY <1>1, <1>2, CallEnds, AccountsStay DEF RegInv

\* The address of an account changes, or an account comes or goes.
LEMMA VerifyBindKeeps ==
    ASSUME RegistrationAssumption, RegInv, NEW a \in accounts, NEW e \in Emails, VerifyBind(a, e)
    PROVE  RegInv'
<1> DEFINE i == Compared(e, "bind")
<1>1. i # 0 /\ Use(e, i) /\ UNCHANGED <<regs, invites, fails, call, crashes>>
  BY DEF VerifyBind, Accepted
<1>2. i \in DOMAIN codes[e]
  BY <1>1, ComparedIsValid DEF Valid
<1> HIDE DEF i
<1>3. CodesOK'
  BY <1>1, <1>2, UseKeeps DEF RegInv
<1>4. accounts' \subseteq Account
  <2>1. [a EXCEPT !.email = e] \in Account
    BY DEF RegInv, AccountsOK, Account
  <2>2. QED
    BY <2>1 DEF VerifyBind, RegInv, AccountsOK
<1>5. QED
  BY <1>1, <1>3, <1>4, RegsStay DEF RegInv, AccountsOK

LEMMA OtherAccountKeeps ==
    ASSUME RegInv, NEW n \in Names \cup {None}, NEW e \in Emails \cup {None}, OtherAccount(n, e)
    PROVE  RegInv'
<1>1. [name |-> n, email |-> e, local |-> e = None] \in Account
  BY DEF Account
<1>2. AccountsOK'
  BY <1>1 DEF OtherAccount, RegInv, AccountsOK
<1>3. QED
  BY <1>2, CodesStay, RegsStay DEF OtherAccount, RegInv

LEMMA DeleteAccountKeeps ==
    ASSUME RegInv, NEW a \in accounts, DeleteAccount(a)
    PROVE  RegInv'
<1>1. AccountsOK'
  BY DEF DeleteAccount, RegInv, AccountsOK
<1>2. QED
  BY <1>1, CodesStay, RegsStay DEF DeleteAccount, RegInv

LEMMA InitHolds ==
    ASSUME RegistrationAssumption, Init
    PROVE  RegInv
<1>1. CodesOK
  <2>1. ASSUME NEW e \in Emails
        PROVE  codes[e] = <<>> /\ fails[e] = NoFails
    BY DEF Init
  <2>2. NoFails \in [n : Count, from : 0 .. Daily] /\ <<>> \in Seq(Code) /\ Len(<<>>) <= Daily
    BY DEF NoFails, Count, RegistrationAssumption
  <2>3. CodesFit
    BY <2>1 DEF CodesFit, AllFit
  <2>4. QED
    BY <2>1, <2>2, <2>3 DEF CodesOK, Init
<1>2. RegsOK
  <2>1. ASSUME NEW ip \in Ips
        PROVE  QuotaOf(ip)
    <3>1. Recent(ip) = {} /\ InFlight(ip) = {}
      BY DEF Init, Recent, InFlight
    <3>2. Cardinality({}) = 0 /\ Cardinality(Calls) \in Nat \ {0} /\ MaxPerIp \in Nat
      BY FS_EmptySet, QuotaSets
    <3>3. QED
      BY <3>1, <3>2 DEF QuotaOf
  <2>2. QED
    BY <2>1, QuotaIs DEF Init, RegsOK
<1>3. AccountsOK /\ crashes \in 0 .. Crashes
  BY DEF Init, AccountsOK, RegistrationAssumption
<1>4. QED
  BY <1>1, <1>2, <1>3 DEF RegInv

LEMMA StepHolds ==
    ASSUME RegistrationAssumption, RegInv, [Next]_vars
    PROVE  RegInv'
<1>1. CASE UNCHANGED vars
  BY <1>1, CodesStay, RegsStay, AccountsStay DEF vars, RegInv
<1>2. ASSUME NEW e \in Emails, DropCodes(e)
      PROVE  RegInv'
  BY <1>2, DropCodesKeeps, RegsStay, AccountsStay DEF DropCodes, RegInv
<1>3. ASSUME NEW e \in Emails, NEW i \in DOMAIN codes[e], AgeCode(e, i)
      PROVE  RegInv'
  BY <1>3, AgeCodeKeeps, RegsStay, AccountsStay DEF AgeCode, RegInv
<1>4. ASSUME NEW c \in Calls, SendFails(c)
      PROVE  RegInv'
  BY <1>4, CallEnds, CodesStay, AccountsStay DEF SendFails, RegInv
<1>5. ASSUME NEW c \in Calls, NEW r \in Rows, EndStart(c, r)
      PROVE  RegInv'
  <2>1. RegsOK'
    BY <1>5, EndStartKeeps DEF RegInv
  <2>2. QED
    BY <1>5, <2>1, CodesStay, AccountsStay DEF EndStart, RegInv
<1>6. ASSUME "register" \in Purposes, NEW c \in Calls, NEW n \in Names, NEW e \in Emails,
             NEW v \in Invites \cup {None}, NEW ip \in Ips, StartRegister(c, n, e, v, ip)
      PROVE  RegInv'
  <2>1. RegsOK'
    BY <1>6, StartKeeps DEF RegInv
  <2>2. CodesOK'
    BY <1>6, IssueKeeps DEF StartRegister, RegInv
  <2>3. QED
    BY <1>6, <2>1, <2>2, AccountsStay DEF StartRegister, RegInv
<1>7. ASSUME "reset" \in Purposes, NEW c \in Calls, NEW e \in Emails, StartForgot(c, e)
      PROVE  RegInv'
  <2>1. RegsOK'
    BY <1>7, OtherCallBegins DEF StartForgot, RegInv
  <2>2. CodesOK'
    BY <1>7, IssueKeeps DEF StartForgot, RegInv
  <2>3. QED
    BY <1>7, <2>1, <2>2, AccountsStay DEF StartForgot, RegInv
<1>8. ASSUME "bind" \in Purposes, NEW c \in Calls, NEW a \in accounts, NEW e \in Emails, StartBind(c, a, e)
      PROVE  RegInv'
  <2>1. RegsOK'
    BY <1>8, OtherCallBegins DEF StartBind, RegInv
  <2>2. CodesOK'
    BY <1>8, IssueKeeps DEF StartBind, RegInv
  <2>3. QED
    BY <1>8, <2>1, <2>2, AccountsStay DEF StartBind, RegInv
<1>9. ASSUME NEW e \in Emails, WindowPasses(e)
      PROVE  RegInv'
  <2>1. CodesOK'
    BY <1>9, RenewKeeps DEF WindowPasses, RegInv
  <2>2. QED
    BY <1>9, <2>1, RegsStay, AccountsStay DEF WindowPasses, RegInv
<1>10. ASSUME NEW e \in Emails, NEW right \in BOOLEAN, VerifyForgot(e, right)
       PROVE  RegInv'
  <2>1. CodesOK'
    BY <1>10, VerifyForgotKeeps DEF RegInv
  <2>2. UNCHANGED <<regs, accounts, invites, call, crashes>>
    BY <1>10 DEF VerifyForgot
  <2>3. QED
    BY <2>1, <2>2, RegsStay, AccountsStay DEF RegInv
<1>11. QED
  BY <1>1, <1>2, <1>3, <1>4, <1>5, <1>6, <1>7, <1>8, <1>9, <1>10, VerifyRegisterKeeps, AgeRegKeeps,
     PurgeKeeps, CrashKeeps, EndForgotKeeps, VerifyBindKeeps, OtherAccountKeeps, DeleteAccountKeeps
     DEF Next, EndBind

LEMMA LimitsAreImplied ==
    ASSUME RegistrationAssumption, RegInv
    PROVE  LimitsHold
<1>1. InviteOnce
  BY DEF RegInv, AccountsOK, InviteOnce
<1>2. ResetGuessesBounded
  BY DEF RegInv, CodesOK, CodesFit, AllFit, Fits, ResetGuessesBounded
<1>3. QED
  BY <1>1, <1>2 DEF RegInv, RegsOK, LimitsHold

\* An account that comes to have an address has used a code that was sent there.
LEMMA StepIsProven ==
    ASSUME RegistrationAssumption, RegInv, [Next]_vars
    PROVE  Proven
<1> SUFFICES ASSUME NEW b \in accounts', b \notin accounts, b.local, b.email # None
             PROVE  \E i \in DOMAIN codes[b.email] :
                        LET k == codes[b.email][i]
                        IN  /\ k.purpose # "reset" /\ k.age # "old"
                            /\ ~ k.used /\ codes'[b.email][i].used
  BY DEF Proven
<1>1. ASSUME NEW e \in Emails, NEW p \in {"register", "bind"}, Compared(e, p) # 0,
             Use(e, Compared(e, p)), b.email = e
      PROVE  \E i \in DOMAIN codes[b.email] :
                 LET k == codes[b.email][i]
                 IN  /\ k.purpose # "reset" /\ k.age # "old"
                     /\ ~ k.used /\ codes'[b.email][i].used
  <2> DEFINE i == Compared(e, p)
  <2>1. i \in DOMAIN codes[e] /\ codes[e][i].purpose = p /\ codes[e][i].age # "old" /\ ~ codes[e][i].used
    BY <1>1, ComparedIsValid DEF Valid
  <2>2. codes[e] \in Seq(Code) /\ codes[e][i] \in Code /\ codes \in [Emails -> Seq(Code)]
    BY <2>1, CodesOf DEF RegInv, CodesOK
  <2>3. codes' = [codes EXCEPT ![e][i].used = TRUE]
    BY <1>1 DEF Use
  <2> HIDE DEF i
  <2>4. codes'[e][i].used
    BY <2>1, <2>2, <2>3 DEF Code
  <2>5. QED
    BY <1>1, <2>1, <2>4
<1>2. ASSUME NEW r \in Rows, NEW right \in BOOLEAN, VerifyRegister(r, right)
      PROVE  \E e \in Emails : /\ Compared(e, "register") # 0 /\ b.email = e
                               /\ Use(e, Compared(e, "register"))
  <2>1. regs[r].email \in Emails
    BY <1>2 DEF VerifyRegister, Pending, RegInv, RegsOK, Registration
  <2>2. /\ Compared(regs[r].email, "register") # 0
        /\ Use(regs[r].email, Compared(regs[r].email, "register")) /\ Activate(r)
    BY <1>2 DEF VerifyRegister, Accepted
  <2>3. b = [name |-> regs[r].name, email |-> regs[r].email, local |-> TRUE]
    BY <2>2 DEF Activate
  <2>4. QED
    BY <2>1, <2>2, <2>3
<1>3. ASSUME NEW a \in accounts, NEW e \in Emails, VerifyBind(a, e)
      PROVE  Compared(e, "bind") # 0 /\ Use(e, Compared(e, "bind")) /\ b.email = e
  <2>1. b = [a EXCEPT !.email = e] /\ a \in Account
    BY <1>3 DEF VerifyBind, RegInv, AccountsOK
  <2>2. QED
    BY <1>3, <2>1 DEF VerifyBind, Accepted, Account
<1>4. ASSUME NEW n \in Names \cup {None}, NEW e \in Emails \cup {None}, OtherAccount(n, e)
      PROVE  FALSE
  <2>1. b = [name |-> n, email |-> e, local |-> e = None]
    BY <1>4 DEF OtherAccount
  <2>2. QED
    BY <2>1
<1>5. CASE accounts' \subseteq accounts
  BY <1>5
<1>6. QED
  <2>1. \/ accounts' \subseteq accounts
        \/ \E r \in Rows, right \in BOOLEAN : VerifyRegister(r, right)
        \/ \E a \in accounts, e \in Emails : VerifyBind(a, e)
        \/ \E n \in Names \cup {None}, e \in Emails \cup {None} : OtherAccount(n, e)
    BY DEF Next, vars, PurgeRegistrations, Crash, DropCodes, AgeCode, AgeReg, SendFails, EndForgot, EndBind,
           EndStart, StartRegister, StartForgot, StartBind, WindowPasses, VerifyForgot, DeleteAccount
  <2>2. QED
    BY <1>1, <1>2, <1>3, <1>4, <1>5, <2>1

-----------------------------------------------------------------------------
(* The theorems *)

LEMMA TypesAreImplied ==
    ASSUME RegInv
    PROVE  TypeOK
BY DEF RegInv, CodesOK, RegsOK, AccountsOK, TypeOK, Count

LEMMA Inductive ==
    ASSUME RegistrationAssumption
    PROVE  Spec => []RegInv
<1>1. Init => RegInv
  BY InitHolds
<1>2. RegInv /\ [Next]_vars => RegInv'
  BY StepHolds
<1>3. QED
  BY <1>1, <1>2, PTL DEF Spec

\* Every value has its type.
THEOREM TypeCorrect ==
    ASSUME RegistrationAssumption
    PROVE  Spec => []TypeOK
<1>1. RegInv => TypeOK
  BY TypesAreImplied
<1>2. QED
  BY <1>1, Inductive, PTL

\* Invitations make one account, guesses and the quota exceed their limits by
\* no more than what overlaps or begins anew.
THEOREM LimitsHoldHolds ==
    ASSUME RegistrationAssumption
    PROVE  Spec => []LimitsHold
<1>1. RegInv => LimitsHold
  BY LimitsAreImplied
<1>2. QED
  BY <1>1, Inductive, PTL

\* A local account comes to have an address only in a step that uses a code
\* that was sent there for this purpose.
THEOREM AddressIsProvenHolds ==
    ASSUME RegistrationAssumption
    PROVE  Spec => AddressIsProven
<1>1. RegInv /\ [Next]_vars => [Proven]_vars
  BY StepIsProven
<1>2. QED
  BY <1>1, Inductive, PTL DEF Spec, AddressIsProven
=============================================================================

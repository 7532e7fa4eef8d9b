------------------------ MODULE FaultDiagnosisProofs ------------------------
(***************************************************************************)
(* The graph of FaultDiagnosis, for every alert, every profile and every   *)
(* draft that Qwen may return.                                             *)
(*                                                                         *)
(* Evidence: as long as Qwen has brought no address, the profile names one *)
(* address and the business address of its host, and the evidence is       *)
(* looked up by these.  Reports: what is left of a text when sections and  *)
(* lines are taken out comes from the text, so that the one line with the  *)
(* time is the one that was put in, at a place the findings never reach.   *)
(***************************************************************************)
EXTENDS FaultDiagnosis, FiniteSetTheorems, SequenceTheorems, NaturalsInduction,
        WellFoundedInduction, TLAPS

(* Every nonempty set of natural numbers has a smallest one. *)
LEMMA Smallest ==
  ASSUME NEW S, S \subseteq Nat, S # {}
  PROVE  \E m \in S : \A n \in S : m <= n
<1>1. IsWellFoundedOn({pair \in Nat \X Nat : pair[1] < pair[2]}, Nat)
  BY NatLessThanWellFounded DEF OpToRel
<1>2. \E x \in S : \A y \in S : ~ (<<y, x>> \in {pair \in Nat \X Nat : pair[1] < pair[2]})
  BY <1>1, WFMin
<1>3. PICK m \in S : \A y \in S : ~ (<<y, m>> \in {pair \in Nat \X Nat : pair[1] < pair[2]})
  BY <1>2
<1>4. \A n \in S : ~ (n < m)
  BY <1>3
<1> QED
  BY <1>4

LEMMA MinIs ==
  ASSUME NEW S, S \subseteq Nat, S # {}
  PROVE  Min(S) \in S /\ \A n \in S : Min(S) <= n
<1>1. \E m \in S : \A n \in S : m <= n
  BY Smallest
<1> QED
  BY <1>1 DEF Min

-----------------------------------------------------------------------------
(* At, which takes some places out of a text. *)

(* The function by which it is defined. *)
Takes(f, text, places, n) ==
  f = [i \in 0 .. n |->
         IF i = 0 THEN <<>>
         ELSE IF i \in places THEN Append(f[i - 1], text[i]) ELSE f[i - 1]]

LEMMA TakesAt ==
  ASSUME NEW f, NEW text, NEW places, NEW n, Takes(f, text, places, n)
  PROVE  \A i \in 0 .. n :
           f[i] = IF i = 0 THEN <<>>
                  ELSE IF i \in places THEN Append(f[i - 1], text[i]) ELSE f[i - 1]
<1> DEFINE g == [i \in 0 .. n |->
                   IF i = 0 THEN <<>>
                   ELSE IF i \in places THEN Append(f[i - 1], text[i]) ELSE f[i - 1]]
<1>1. f = g
  BY DEF Takes
<1>2. \A i \in 0 .. n :
        g[i] = IF i = 0 THEN <<>>
               ELSE IF i \in places THEN Append(f[i - 1], text[i]) ELSE f[i - 1]
  OBVIOUS
<1> HIDE DEF g
<1> QED
  BY <1>1, <1>2

LEMMA TakesExists == \A text, places, n : n \in Nat => \E f : Takes(f, text, places, n)
<1> SUFFICES ASSUME NEW text, NEW places, NEW k \in Nat, ~ \E f : Takes(f, text, places, k)
             PROVE  FALSE
  OBVIOUS
<1> DEFINE bad == {n \in Nat : ~ \E f : Takes(f, text, places, n)}
<1>1. PICK n \in bad : \A m \in bad : n <= m
  BY Smallest
<1>2. n # 0
  <2> DEFINE g == [i \in 0 .. 0 |-> <<>>]
  <2>1. g = [i \in 0 .. 0 |->
               IF i = 0 THEN <<>>
               ELSE IF i \in places THEN Append(g[i - 1], text[i]) ELSE g[i - 1]]
    OBVIOUS
  <2> HIDE DEF g
  <2>2. Takes(g, text, places, 0)
    BY <2>1 DEF Takes
  <2> QED
    BY <2>2
<1>3. PICK f : Takes(f, text, places, n - 1)
  BY <1>1, <1>2
<1> DEFINE last == IF n \in places THEN Append(f[n - 1], text[n]) ELSE f[n - 1]
           g == [i \in 0 .. n |-> IF i = n THEN last ELSE f[i]]
<1>4. /\ n \in Nat /\ n - 1 \in Nat
      /\ \A i \in 0 .. n - 1 :
           f[i] = IF i = 0 THEN <<>>
                  ELSE IF i \in places THEN Append(f[i - 1], text[i]) ELSE f[i - 1]
  BY <1>2, <1>3, TakesAt
<1>5. \A i \in 0 .. n : i # 0 => g[i - 1] = f[i - 1]
  BY <1>4
<1>6. ASSUME NEW i \in 0 .. n
      PROVE  g[i] = IF i = 0 THEN <<>>
                    ELSE IF i \in places THEN Append(g[i - 1], text[i]) ELSE g[i - 1]
  <2>1. CASE i = n
    BY <1>2, <1>5, <2>1
  <2>2. CASE i # n
    <3>1. i \in 0 .. n - 1 /\ g[i] = f[i]
      BY <1>4, <2>2
    <3>2. f[i] = IF i = 0 THEN <<>>
                 ELSE IF i \in places THEN Append(f[i - 1], text[i]) ELSE f[i - 1]
      BY <1>4, <3>1
    <3> QED
      BY <1>5, <3>1, <3>2
  <2> QED
    BY <2>1, <2>2
<1>7. Takes(g, text, places, n)
  <2>1. g = [i \in 0 .. n |-> g[i]]
    OBVIOUS
  <2> HIDE DEF g
  <2> QED
    BY <1>6, <2>1 DEF Takes
<1> QED
  BY <1>7

LEMMA AtIs ==
  ASSUME NEW text, NEW places, Len(text) \in Nat
  PROVE  \E f : Takes(f, text, places, Len(text)) /\ At(text, places) = f[Len(text)]
<1> DEFINE f == CHOOSE f : Takes(f, text, places, Len(text))
<1>1. Takes(f, text, places, Len(text))
  BY TakesExists
<1>2. At(text, places) = f[Len(text)]
  BY DEF At, Takes
<1> QED
  BY <1>1, <1>2

(* What it returns are members of the text, from those places only. *)
LEMMA AtType ==
  ASSUME NEW S, NEW text \in Seq(S), NEW places
  PROVE  At(text, places) \in Seq({text[i] : i \in places \cap DOMAIN text})
<1> DEFINE T == {text[i] : i \in places \cap DOMAIN text}
           n == Len(text)
<1>1. n \in Nat /\ DOMAIN text = 1 .. n
  BY LenProperties
<1> HIDE DEF n
<1>2. PICK f : Takes(f, text, places, n) /\ At(text, places) = f[n]
  BY <1>1, AtIs DEF n
<1> SUFFICES ASSUME f[n] \notin Seq(T) PROVE FALSE
  BY <1>2
<1> DEFINE bad == {i \in 0 .. n : f[i] \notin Seq(T)}
<1>3. bad \subseteq Nat /\ n \in bad
  BY <1>1
<1>4. PICK i \in bad : \A j \in bad : i <= j
  <2> HIDE DEF bad
  <2> QED
    BY <1>3, Smallest
<1>5. i \in 0 .. n /\ f[i] \notin Seq(T)
  OBVIOUS
<1>6. f[i] = IF i = 0 THEN <<>>
             ELSE IF i \in places THEN Append(f[i - 1], text[i]) ELSE f[i - 1]
  BY <1>2, <1>5, TakesAt
<1>7. <<>> \in Seq(T)
  OBVIOUS
<1>8. i # 0 => i - 1 \in 0 .. n /\ ~ (i <= i - 1) /\ i \in 1 .. n
  BY <1>1, <1>5
<1>9. i # 0 => f[i - 1] \in Seq(T)
  BY <1>4, <1>8
<1>10. i # 0 /\ i \in places => text[i] \in T
  BY <1>1, <1>8
<1> HIDE DEF T
<1>11. i # 0 /\ i \in places => Append(f[i - 1], text[i]) \in Seq(T)
  BY <1>9, <1>10, AppendProperties
<1> QED
  BY <1>5, <1>6, <1>7, <1>9, <1>11
-----------------------------------------------------------------------------
(* The profile and the evidence. *)

Labels == {"management", "business", "instance", "plain"}

Stages == {"idle", "parse_input", "collect_top_sql", "collect_metrics", "adjudicate",
           "done", "failed"}

(* The types. *)
FaultTyped ==
  /\ stage \in Stages
  /\ profile \in Profiles /\ advised \in BOOLEAN
  /\ top_sql \in [status : {"none", "success", "failure"}, host : Ip \cup {NoIp}]
  /\ metrics.metrics \subseteq MetricNames
  /\ (metrics.status = "success") = (metrics.metrics # {})
  /\ profile.primary_ip = NoIp => profile.management_ip = NoIp
  /\ stage = "failed" => profile.window = "malformed"
  /\ stage = "done" => diagnosis.root_cause = adjudication

(* One host: the address of the profile is one, or Qwen brought another,   *)
(* the business address is that of its host, and the TopSQL was looked up  *)
(* by it.                                                                  *)
OneHost ==
  /\ stage = "idle" => ~ advised /\ metrics.metrics = {}
  /\ stage # "idle" /\ ~ advised =>
       /\ profile.primary_ip = profile.management_ip
       /\ profile.business_ip \in {NoIp, <<"business", profile.management_ip[2]>>}
  /\ stage \in {"parse_input", "collect_top_sql"} => metrics.metrics = {}
  /\ stage \notin {"idle", "parse_input"} =>
       top_sql.host = Or(profile.management_ip, profile.primary_ip)
  /\ metrics.metrics # {} => profile.business_ip # NoIp

LEMMA FirstIpType ==
  ASSUME NEW alert \in Alerts
  PROVE  FirstIp(alert) \in Ip \cup {NoIp}
<1> DEFINE Entries == [label : Labels, ip : Ip]
<1>1. alert \in Seq(Entries)
  BY FaultAssumption DEF Labels
<1>2. ASSUME NEW labels PROVE Labelled(alert, labels) \in Seq(Entries)
  <2> DEFINE places == {i \in DOMAIN alert : alert[i].label \in labels}
             T == {alert[i] : i \in places \cap DOMAIN alert}
  <2>1. At(alert, places) \in Seq(T)
    BY <1>1, AtType
  <2>2. T \subseteq Entries
    <3> HIDE DEF Entries
    <3> QED
      BY <1>1
  <2>3. Seq(T) \subseteq Seq(Entries)
    <3> HIDE DEF T, Entries
    <3> QED
      BY <2>2
  <2>4. Labelled(alert, labels) = At(alert, places)
    BY DEF Labelled
  <2> QED
    BY <2>1, <2>3, <2>4
<1> DEFINE tagged == Labelled(alert, {"management", "business"})
                       \o Labelled(alert, {"instance"}) \o alert
<1>3. tagged \in Seq(Entries)
  <2> HIDE DEF Entries
  <2> QED
    BY <1>1, <1>2, ConcatProperties
<1>4. tagged # <<>> => tagged[1] \in Entries
  <2> HIDE DEF tagged, Entries
  <2> QED
    BY <1>3
<1>5. FirstIp(alert) = IF tagged = <<>> THEN NoIp ELSE tagged[1].ip
  BY DEF FirstIp
<1> HIDE DEF tagged
<1> QED
  BY <1>4, <1>5

(* The profile of the program: one address, and the business address of    *)
(* its host.                                                               *)
LEMMA FallbackOfOneHost ==
  ASSUME NEW alert \in Alerts, NEW known \in BOOLEAN, NEW timed \in BOOLEAN
  PROVE  LET own == FallbackProfile(alert, known, timed)
         IN  /\ own \in Profiles
             /\ own.primary_ip = own.management_ip
             /\ own.business_ip \in {NoIp, <<"business", own.management_ip[2]>>}
<1> DEFINE ip == FirstIp(alert)
<1>1. ip \in Ip \cup {NoIp}
  BY FirstIpType
<1>2. BusinessIpOf(ip, known) \in Ip \cup {NoIp}
  <2> HIDE DEF ip
  <2>1. ip[1] = "management" => ip \in Ip
    BY <1>1 DEF NoIp
  <2>2. ip \in Ip => <<"business", ip[2]>> \in Ip
    BY DEF Ip
  <2> QED
    BY <2>1, <2>2 DEF BusinessIpOf
<1>3. BusinessIpOf(ip, known) \in {NoIp, <<"business", ip[2]>>}
  BY DEF BusinessIpOf
<1> HIDE DEF ip
<1>4. FallbackProfile(alert, known, timed) =
        [management_ip |-> ip, business_ip |-> BusinessIpOf(ip, known), primary_ip |-> ip,
         window |-> "valid", alert_time |-> IF timed THEN "valid" ELSE "none"]
  BY DEF FallbackProfile, ip
<1> QED
  BY <1>1, <1>2, <1>3, <1>4 DEF Profiles

(* Merging keeps it as long as Qwen names no address.                      *)
LEMMA MergedOfOneHost ==
  ASSUME NEW own \in Profiles, NEW fallback \in Profiles
  PROVE  LET merged == Merged(own, fallback)
         IN  /\ merged \in Profiles
             /\ merged.primary_ip = NoIp => merged.management_ip = NoIp
             /\ /\ \A ip \in {own.management_ip, own.business_ip, own.primary_ip} : ip = NoIp
                /\ fallback.primary_ip = fallback.management_ip
                => /\ merged.primary_ip = fallback.primary_ip
                   /\ merged.management_ip = fallback.management_ip
                   /\ merged.business_ip = fallback.business_ip
<1> DEFINE m == Or(Or(own.management_ip, fallback.management_ip), own.primary_ip)
           b == Or(own.business_ip, fallback.business_ip)
           p == Or(own.primary_ip, m)
           t == IF own.alert_time = "none" THEN fallback.alert_time ELSE own.alert_time
<1>1. /\ own.management_ip \in Ip \cup {NoIp} /\ own.business_ip \in Ip \cup {NoIp}
      /\ own.primary_ip \in Ip \cup {NoIp}
      /\ fallback.management_ip \in Ip \cup {NoIp} /\ fallback.business_ip \in Ip \cup {NoIp}
      /\ own.alert_time \in {"none", "valid", "malformed"}
      /\ fallback.alert_time \in {"none", "valid", "malformed"}
  BY DEF Profiles
<1>2. /\ m \in Ip \cup {NoIp} /\ b \in Ip \cup {NoIp} /\ p \in Ip \cup {NoIp}
      /\ t \in {"none", "valid", "malformed"}
      /\ p = NoIp => m = NoIp
  BY <1>1 DEF Or
<1>3. Merged(own, fallback) = [own EXCEPT !.management_ip = m, !.business_ip = b,
                                           !.primary_ip = p, !.alert_time = t]
  BY DEF Merged
<1>4. /\ \A ip \in {own.management_ip, own.business_ip, own.primary_ip} : ip = NoIp
      /\ fallback.primary_ip = fallback.management_ip
      => p = fallback.primary_ip /\ m = fallback.management_ip /\ b = fallback.business_ip
  BY DEF Or
<1> HIDE DEF m, b, p, t
<1> QED
  BY <1>2, <1>3, <1>4 DEF Profiles
-----------------------------------------------------------------------------
LEMMA FaultInitInv == FaultInit => FaultTyped /\ OneHost
<1> SUFFICES ASSUME FaultInit PROVE FaultTyped /\ OneHost
  OBVIOUS
<1>1. NoProfile \in Profiles
  BY DEF NoProfile, Profiles
<1> QED
  BY <1>1 DEF FaultInit, FaultTyped, OneHost, Stages, NoTopSql, NoMetrics, NoProfile

LEMMA FaultStepInv == FaultTyped /\ OneHost /\ [FaultNext]_faultVars => (FaultTyped /\ OneHost)'
<1> SUFFICES ASSUME FaultTyped, OneHost, [FaultNext]_faultVars
             PROVE  (FaultTyped /\ OneHost)'
  OBVIOUS
<1>1. CASE ParseInput
  <2>1. PICK alert \in Alerts, known \in BOOLEAN, timed \in BOOLEAN :
          profile' = FallbackProfile(alert, known, timed)
    BY <1>1 DEF ParseInput
  <2>2. /\ stage = "idle" /\ stage' = "parse_input" /\ advised' = advised
        /\ top_sql' = top_sql /\ metrics' = metrics
    BY <1>1 DEF ParseInput
  <2>3. /\ profile' \in Profiles /\ profile'.primary_ip = profile'.management_ip
        /\ profile'.business_ip \in {NoIp, <<"business", profile'.management_ip[2]>>}
    BY <2>1, FallbackOfOneHost
  <2>4. FaultTyped'
    BY <2>2, <2>3 DEF FaultTyped, Stages
  <2>5. OneHost'
    BY <2>2, <2>3 DEF OneHost
  <2> QED
    BY <2>4, <2>5
<1>2. CASE ParseInputWithQwen
  <2>1. PICK alert \in Alerts, known \in BOOLEAN, timed \in BOOLEAN, own \in Advice :
          /\ profile' = Merged(own, FallbackProfile(alert, known, timed))
          /\ advised' = (\E ip \in {own.management_ip, own.business_ip, own.primary_ip} :
                            ip # NoIp)
    BY <1>2 DEF ParseInputWithQwen
  <2> DEFINE fallback == FallbackProfile(alert, known, timed)
  <2>2. /\ stage = "idle" /\ stage' = "parse_input" /\ top_sql' = top_sql /\ metrics' = metrics
    BY <1>2 DEF ParseInputWithQwen
  <2>3. /\ fallback \in Profiles /\ fallback.primary_ip = fallback.management_ip
        /\ fallback.business_ip \in {NoIp, <<"business", fallback.management_ip[2]>>}
    BY FallbackOfOneHost
  <2>4. own \in Profiles /\ profile' = Merged(own, fallback)
    BY <2>1, FaultAssumption
  <2> HIDE DEF fallback
  <2>5. /\ profile' \in Profiles
        /\ profile'.primary_ip = NoIp => profile'.management_ip = NoIp
        /\ ~ advised' => /\ profile'.primary_ip = fallback.primary_ip
                         /\ profile'.management_ip = fallback.management_ip
                         /\ profile'.business_ip = fallback.business_ip
    BY <2>1, <2>3, <2>4, MergedOfOneHost
  <2>6. advised' \in BOOLEAN
    BY <2>1
  <2>7. FaultTyped'
    BY <2>2, <2>5, <2>6 DEF FaultTyped, Stages
  <2>8. OneHost'
    BY <2>2, <2>3, <2>5 DEF OneHost
  <2> QED
    BY <2>7, <2>8
<1>3. ASSUME NEW found \in BOOLEAN, CollectTopSql(found) PROVE (FaultTyped /\ OneHost)'
  <2>1. /\ stage = "parse_input" /\ stage' = "collect_top_sql"
        /\ profile' = profile /\ advised' = advised /\ metrics' = metrics
        /\ top_sql' = [status |-> IF found THEN "success" ELSE "failure",
                       host |-> Or(profile.management_ip, profile.primary_ip)]
    BY <1>3 DEF CollectTopSql
  <2>2. Or(profile.management_ip, profile.primary_ip) \in Ip \cup {NoIp}
    BY DEF FaultTyped, Profiles, Or
  <2>3. FaultTyped'
    BY <2>1, <2>2 DEF FaultTyped, Stages
  <2>4. OneHost'
    BY <2>1 DEF OneHost
  <2> QED
    BY <2>3, <2>4
<1>4. ASSUME MetricsNotConfigured \/ \E reason : MetricsImpossible(reason)
      PROVE  (FaultTyped /\ OneHost)'
  <2>1. /\ stage = "collect_top_sql" /\ stage' = "collect_metrics"
        /\ profile' = profile /\ advised' = advised /\ top_sql' = top_sql
        /\ metrics'.metrics = {} /\ metrics'.status = "failure"
    BY <1>4 DEF MetricsImpossible, MetricsNotConfigured
  <2>2. FaultTyped'
    BY <2>1 DEF FaultTyped, Stages
  <2>3. OneHost'
    BY <2>1 DEF OneHost
  <2> QED
    BY <2>2, <2>3
<1>5. ASSUME NEW got \in SUBSET MetricNames, CollectMetrics(got)
      PROVE  (FaultTyped /\ OneHost)'
  <2>1. /\ stage = "collect_top_sql" /\ profile.business_ip # NoIp
        /\ profile' = profile /\ advised' = advised /\ top_sql' = top_sql
        /\ \/ /\ stage' = "collect_metrics" /\ metrics'.metrics = got
              /\ metrics'.status = IF got = {} THEN "failure" ELSE "success"
           \/ /\ stage' = "failed" /\ metrics' = metrics /\ profile.window # "valid"
    BY <1>5 DEF CollectMetrics, MetricEvidence
  <2>2. profile.window \in {"valid", "malformed"}
    BY DEF FaultTyped, Profiles
  <2>3. FaultTyped'
    BY <2>1, <2>2 DEF FaultTyped, Stages
  <2>4. OneHost'
    BY <2>1 DEF OneHost
  <2> QED
    BY <2>3, <2>4
<1>6. CASE (\E own \in BOOLEAN : Adjudicate(own)) \/ BuildReport
  <2>1. /\ \/ stage = "collect_metrics" /\ stage' = "adjudicate"
           \/ /\ stage = "adjudicate" /\ stage' = "done" /\ adjudication' = adjudication
              /\ diagnosis'.root_cause = adjudication
        /\ profile' = profile /\ advised' = advised /\ top_sql' = top_sql /\ metrics' = metrics
    BY <1>6 DEF Adjudicate, BuildReport
  <2>2. FaultTyped'
    BY <2>1 DEF FaultTyped, Stages
  <2>3. OneHost'
    BY <2>1 DEF OneHost
  <2> QED
    BY <2>2, <2>3
<1>7. CASE UNCHANGED faultVars
  BY <1>7 DEF faultVars, FaultTyped, OneHost
<1> QED
  BY <1>1, <1>2, <1>3, <1>4, <1>5, <1>6, <1>7 DEF FaultNext

THEOREM FaultInvariance == FaultSpec => [](FaultTyped /\ OneHost)
BY FaultInitInv, FaultStepInv, PTL DEF FaultSpec

(* The variables of the graph keep their types, whatever Qwen returns.     *)
THEOREM FaultTypeCorrect == FaultSpec => []FaultTypeOK
<1>1. FaultTyped => FaultTypeOK
  BY DEF FaultTyped, FaultTypeOK, Stages, Profiles
<1> QED
  BY <1>1, FaultInvariance, PTL

(* The two pieces of evidence are about one host, for any alert and        *)
(* however much of the evidence there is, unless Qwen named an address.    *)
THEOREM EvidenceOfOneHost == FaultSpec => []EvidenceIsOfOneHost
<1>1. ASSUME FaultTyped, OneHost PROVE EvidenceIsOfOneHost
  <2> SUFFICES ASSUME ~ advised, metrics.metrics # {}
               PROVE  /\ \A metric \in metrics.metrics : AddressOf(metric)[2] = top_sql.host[2]
                      /\ profile.business_ip[1] = "business"
    BY DEF EvidenceIsOfOneHost
  <2>1. stage \notin {"idle", "parse_input"}
    BY <1>1 DEF OneHost
  <2>2. profile.business_ip = <<"business", profile.management_ip[2]>>
    BY <1>1, <2>1 DEF OneHost
  <2>3. profile.primary_ip = profile.management_ip
    BY <1>1, <2>1 DEF OneHost
  <2>4. top_sql.host = profile.management_ip
    BY <1>1, <2>1, <2>3 DEF OneHost, Or
  <2>5. \A metric : AddressOf(metric) \in {profile.business_ip, profile.management_ip}
    BY <2>3 DEF AddressOf, Or
  <2> QED
    BY <2>2, <2>4, <2>5
<1> QED
  BY <1>1, FaultInvariance, PTL
-----------------------------------------------------------------------------
(* The shape of a report. *)

Good == (Parts \ {"appendix", "time"}) \cup {"gap_list"}

(* The line with the time is there once, before any findings, and nothing  *)
(* that is not wanted is.                                                  *)
Timed(text) ==
  /\ text \in Seq(Good \cup {"now"})
  /\ \E p \in DOMAIN text :
       /\ text[p] = "now"
       /\ \A i \in DOMAIN text : i # p => text[i] \in Good
       /\ \A i \in 1 .. p : text[i] # "finding"

(* TopSQL that was found is under the heading of the findings, in full.    *)
InFull(text) ==
  top_sql.status = "success" /\ Contains(text, "finding") =>
    \E i \in Findings(text) : text[i] = "all_sql"

(* The unwanted sections go, whose heading is the first thing to go.       *)
LEMMA StripType ==
  ASSUME NEW text \in Seq(Parts)
  PROVE  Strip(text) \in Seq(Parts \ {"appendix"})
<1> DEFINE places == DOMAIN text \ Removed(text)
           T == {text[i] : i \in places \cap DOMAIN text}
<1>1. Strip(text) \in Seq(T)
  BY AtType DEF Strip
<1>2. T \subseteq Parts \ {"appendix"}
  <2> SUFFICES ASSUME NEW i \in places PROVE text[i] \in Parts \ {"appendix"}
    OBVIOUS
  <2>1. i \in DOMAIN text /\ i \in Nat /\ i >= 1 /\ text[i] \in Parts
    BY LenProperties, ElementOfSeq
  <2>2. ASSUME text[i] = "appendix" PROVE FALSE
    <3>1. i \in 1 .. i /\ \A j \in i + 1 .. i : text[j] \notin Headings
      BY <2>1
    <3> QED
      BY <2>1, <2>2, <3>1 DEF Removed
  <2> QED
    BY <2>1, <2>2
<1> HIDE DEF T
<1> QED
  BY <1>1, <1>2

(* The line with the time is put in front of any findings.                 *)
LEMMA EnsureTimeTimed ==
  ASSUME NEW text \in Seq(Parts \ {"appendix"})
  PROVE  Timed(EnsureTime(text))
<1> DEFINE places == {i \in DOMAIN text : text[i] # "time"}
           rest == At(text, places)
           T == {text[i] : i \in places \cap DOMAIN text}
<1>1. rest \in Seq(Good)
  <2>1. rest \in Seq(T)
    BY AtType
  <2>2. T \subseteq Good
    <3> SUFFICES ASSUME NEW i \in places PROVE text[i] \in Good
      OBVIOUS
    <3>1. text[i] \in Parts \ {"appendix"}
      BY ElementOfSeq, LenProperties
    <3> QED
      BY <3>1 DEF Good
  <2> HIDE DEF T, rest
  <2> QED
    BY <2>1, <2>2
<1>2. EnsureTime(text) =
        IF rest = <<>> \/ Head(rest) \notin Headings \ {"finding"} THEN <<"now">> \o rest
        ELSE <<Head(rest), "now">> \o Tail(rest)
  BY DEF EnsureTime
<1> HIDE DEF rest
<1> DEFINE n == Len(rest)
<1>3. n \in Nat /\ \A i \in 1 .. n : rest[i] \in Good
  BY <1>1, LenProperties, ElementOfSeq
<1>4. "now" \notin Good /\ "finding" # "now"
  BY DEF Good, Parts
<1>5. ASSUME rest = <<>> \/ Head(rest) \notin Headings \ {"finding"}
      PROVE  Timed(EnsureTime(text))
  <2> DEFINE u == <<"now">> \o rest
  <2>1. /\ Len(u) = n + 1 /\ u \in Seq(Good \cup {"now"})
        /\ u[1] = "now" /\ \A i \in 2 .. n + 1 : u[i] = rest[i - 1]
    BY <1>1
  <2>2. DOMAIN u = 1 .. n + 1 /\ 1 \in 1 .. n + 1
    BY <1>3, <2>1, LenProperties
  <2> HIDE DEF u, n
  <2>3. \A i \in 1 .. n + 1 : i # 1 => u[i] \in Good
    <3> SUFFICES ASSUME NEW i \in 1 .. n + 1, i # 1 PROVE u[i] \in Good
      OBVIOUS
    <3>1. i \in 2 .. n + 1 /\ i - 1 \in 1 .. n
      BY <1>3
    <3> QED
      BY <1>3, <2>1, <3>1
  <2>4. \A i \in 1 .. 1 : u[i] # "finding"
    BY <1>4, <2>1
  <2>5. Timed(u)
    BY <2>1, <2>2, <2>3, <2>4 DEF Timed
  <2> QED
    BY <1>2, <1>5, <2>5 DEF u
<1>6. ASSUME ~ (rest = <<>> \/ Head(rest) \notin Headings \ {"finding"})
      PROVE  Timed(EnsureTime(text))
  <2> DEFINE h == Head(rest)
             t == Tail(rest)
             u == <<h, "now">> \o t
  <2>1. /\ rest # <<>> /\ h = rest[1] /\ h # "finding"
        /\ t \in Seq(Good) /\ h \in Good /\ Len(t) \in Nat
        /\ \A i \in 1 .. Len(t) : t[i] \in Good
    BY <1>1, <1>6
  <2> HIDE DEF h, t
  <2>2. /\ Len(u) = Len(t) + 2 /\ u \in Seq(Good \cup {"now"})
        /\ u[1] = h /\ u[2] = "now" /\ \A i \in 3 .. Len(t) + 2 : u[i] = t[i - 2]
    BY <2>1
  <2>3. DOMAIN u = 1 .. Len(t) + 2 /\ 2 \in 1 .. Len(t) + 2
    BY <2>1, <2>2, LenProperties
  <2> HIDE DEF u
  <2>4. \A i \in 1 .. Len(t) + 2 : i # 2 => u[i] \in Good
    <3> SUFFICES ASSUME NEW i \in 1 .. Len(t) + 2, i # 2 PROVE u[i] \in Good
      OBVIOUS
    <3>1. i = 1 \/ (i \in 3 .. Len(t) + 2 /\ i - 2 \in 1 .. Len(t))
      BY <2>1
    <3>2. u[1] \in Good
      BY <2>1, <2>2
    <3>3. i \in 3 .. Len(t) + 2 /\ i - 2 \in 1 .. Len(t) => u[i] \in Good
      BY <2>1, <2>2
    <3> QED
      BY <3>1, <3>2, <3>3
  <2>5. \A i \in 1 .. 2 : u[i] # "finding"
    BY <1>4, <2>1, <2>2
  <2>6. Timed(u)
    BY <2>2, <2>3, <2>4, <2>5 DEF Timed
  <2> QED
    BY <1>2, <1>6, <2>6 DEF u, h, t
<1> QED
  BY <1>5, <1>6

(* The list of the gaps goes behind everything.                            *)
LEMMA AppendGapsTimed ==
  ASSUME NEW text, Timed(text)
  PROVE  /\ Timed(AppendGaps(text))
         /\ \A i \in DOMAIN text :
              i \in DOMAIN AppendGaps(text) /\ AppendGaps(text)[i] = text[i]
<1> DEFINE u == text \o <<"gaps", "gap_list">>
           n == Len(text)
<1>1. AppendGaps(text) \in {text, u}
  BY DEF AppendGaps
<1>2. "gaps" \in Good /\ "gap_list" \in Good
  BY DEF Good, Parts
<1>3. text \in Seq(Good \cup {"now"}) /\ n \in Nat /\ DOMAIN text = 1 .. n
  BY LenProperties DEF Timed
<1>4. /\ Len(u) = n + 2 /\ u \in Seq(Good \cup {"now"})
      /\ \A i \in 1 .. n : u[i] = text[i]
      /\ u[n + 1] = "gaps" /\ u[n + 2] = "gap_list"
  BY <1>2, <1>3
<1>5. DOMAIN u = 1 .. n + 2
  BY <1>4, LenProperties
<1> HIDE DEF u, n
<1>6. Timed(u)
  <2>1. PICK p \in 1 .. n : /\ text[p] = "now"
                            /\ \A i \in 1 .. n : i # p => text[i] \in Good
                            /\ \A i \in 1 .. p : text[i] # "finding"
    BY <1>3 DEF Timed
  <2>2. p \in 1 .. n + 2 /\ u[p] = "now" /\ \A i \in 1 .. p : i \in 1 .. n
    BY <1>3, <1>4, <2>1
  <2>3. \A i \in 1 .. n + 2 : i # p => u[i] \in Good
    <3> SUFFICES ASSUME NEW i \in 1 .. n + 2, i # p PROVE u[i] \in Good
      OBVIOUS
    <3>1. i \in 1 .. n \/ i = n + 1 \/ i = n + 2
      BY <1>3
    <3> QED
      BY <1>2, <1>4, <2>1, <3>1
  <2>4. \A i \in 1 .. p : u[i] # "finding"
    BY <1>4, <2>1, <2>2
  <2> QED
    BY <1>4, <1>5, <2>2, <2>3, <2>4 DEF Timed
<1>7. 1 .. n \subseteq 1 .. n + 2
  BY <1>3
<1> QED
  BY <1>1, <1>3, <1>4, <1>5, <1>6, <1>7
(* The TopSQL in full takes the place of the findings: these begin behind  *)
(* the line with the time, so that it stays.                               *)
LEMMA EnsureFindingShaped ==
  ASSUME NEW text, Timed(text)
  PROVE  Timed(EnsureFinding(text)) /\ InFull(EnsureFinding(text))
<1> DEFINE n == Len(text)
<1>1. text \in Seq(Good \cup {"now"}) /\ n \in Nat /\ DOMAIN text = 1 .. n
  BY LenProperties DEF Timed
<1>2. CASE \/ top_sql.status # "success"
           \/ ~ Contains(text, "finding")
           \/ \E i \in Findings(text) : text[i] = "all_sql"
  BY <1>2 DEF EnsureFinding, InFull
<1>3. CASE ~ (\/ top_sql.status # "success"
              \/ ~ Contains(text, "finding")
              \/ \E i \in Findings(text) : text[i] = "all_sql")
  <2> DEFINE from == Before(text, "finding")
             rest == {i \in DOMAIN text : i > from /\ i \notin Findings(text)}
             head == SubSeq(text, 1, from)
             tail == IF rest = {} THEN <<>> ELSE SubSeq(text, Min(rest), Len(text))
             u == head \o <<"all_sql">> \o tail
             k == Len(tail)
  <2>1. EnsureFinding(text) = u
    BY <1>3 DEF EnsureFinding
  <2>2. from \in 1 .. n /\ text[from] = "finding" /\ \A j \in 1 .. from - 1 : text[j] # "finding"
    <3> DEFINE found == {i \in 1 .. n : text[i] = "finding"}
    <3>1. found # {} /\ found \subseteq Nat
      BY <1>1, <1>3 DEF Contains
    <3>2. from = Min(found)
      BY <3>1 DEF Before, SelectInSeq
    <3> HIDE DEF found, from
    <3>3. from \in found /\ \A j \in found : from <= j
      BY <3>1, <3>2, MinIs
    <3>4. from \in 1 .. n /\ \A j \in 1 .. from - 1 : j \in 1 .. n /\ ~ (from <= j)
      BY <1>1, <3>3 DEF found
    <3> QED
      BY <3>3, <3>4 DEF found
  <2>3. PICK p \in 1 .. n : /\ text[p] = "now"
                            /\ \A i \in 1 .. n : i # p => text[i] \in Good
                            /\ \A i \in 1 .. p : text[i] # "finding"
    BY <1>1 DEF Timed
  <2> HIDE DEF from
  <2>4. p < from
    <3>1. from \in 1 .. p => FALSE
      BY <2>2, <2>3
    <3> QED
      BY <1>1, <2>2, <2>3, <3>1
  <2>5. /\ head \in Seq(Good \cup {"now"}) /\ Len(head) = from
        /\ \A i \in 1 .. from : head[i] = text[i]
    BY <1>1, <2>2
  <2>6. tail \in Seq(Good) /\ k \in Nat
    <3>1. CASE rest = {}
      BY <3>1
    <3>2. CASE rest # {}
      <4> DEFINE m == Min(rest)
      <4>1. rest \subseteq Nat
        BY <1>1
      <4>2. m \in rest
        <5> HIDE DEF rest
        <5> QED
          BY <3>2, <4>1, MinIs
      <4>3. m \in 1 .. n /\ m > from
        BY <1>1, <4>2
      <4>4. tail = SubSeq(text, m, n)
        BY <3>2
      <4> HIDE DEF m, tail, rest
      <4>5. \A i \in m .. n : text[i] \in Good
        BY <1>1, <2>2, <2>3, <2>4, <4>3
      <4>6. SubSeq(text, m, n) \in Seq(Good)
        BY <1>1, <4>3, <4>5, SubSeqProperties
      <4> QED
        BY <4>4, <4>6, LenProperties
    <3> QED
      BY <3>1, <3>2
  <2> HIDE DEF head, tail, rest, k
  <2>7. "all_sql" \in Good /\ "all_sql" # "advice"
    BY DEF Good, Parts
  <2>8. /\ u \in Seq(Good \cup {"now"}) /\ Len(u) = from + 1 + k
        /\ \A i \in 1 .. from : u[i] = text[i]
        /\ u[from + 1] = "all_sql"
        /\ \A i \in 1 .. k : u[from + 1 + i] = tail[i]
    <3> DEFINE v == Append(head, "all_sql")
    <3>1. /\ from \in Nat /\ from + 1 \in Nat
          /\ v \in Seq(Good \cup {"now"}) /\ Len(v) = from + 1
          /\ \A i \in 1 .. from : v[i] = text[i]
          /\ v[from + 1] = "all_sql"
      BY <2>2, <2>5, <2>7
    <3>2. v = head \o <<"all_sql">>
      BY <2>5, <2>7, AppendIsConcat
    <3>3. tail \in Seq(Good \cup {"now"}) /\ Len(tail) = k /\ k \in Nat
      BY <2>6 DEF k
    <3> HIDE DEF v, u
    <3>4. u = v \o tail
      BY <3>2 DEF u
    <3>5. /\ u \in Seq(Good \cup {"now"}) /\ Len(u) = from + 1 + k
          /\ \A i \in 1 .. from + 1 : u[i] = v[i]
          /\ \A i \in 1 .. k : u[from + 1 + i] = tail[i]
      <4> DEFINE q == Len(v)
      <4>1. /\ u \in Seq(Good \cup {"now"}) /\ Len(u) = q + k
            /\ \A i \in 1 .. q + k : u[i] = IF i <= q THEN v[i] ELSE tail[i - q]
        BY <3>1, <3>3, <3>4, ConcatProperties
      <4>2. q \in Nat /\ q = from + 1
        BY <3>1
      <4> HIDE DEF q
      <4>3. \A i \in 1 .. q : u[i] = v[i]
        BY <3>3, <4>1, <4>2
      <4>4. \A i \in 1 .. k : u[q + i] = tail[i]
        <5> SUFFICES ASSUME NEW i \in 1 .. k PROVE u[q + i] = tail[i]
          OBVIOUS
        <5>1. q + i \in 1 .. q + k /\ ~ (q + i <= q) /\ (q + i) - q = i
          BY <3>3, <4>2
        <5> QED
          BY <4>1, <5>1
      <4> QED
        BY <4>1, <4>2, <4>3, <4>4
    <3> QED
      BY <3>1, <3>5
  <2>9. DOMAIN u = 1 .. from + 1 + k
    BY <2>8, LenProperties
  <2> HIDE DEF u
  <2>10. \A i \in 1 .. from + 1 + k : i # p => u[i] \in Good
    <3> SUFFICES ASSUME NEW i \in 1 .. from + 1 + k, i # p PROVE u[i] \in Good
      OBVIOUS
    <3>1. CASE i \in 1 .. from
      BY <1>1, <2>2, <2>3, <2>8, <3>1
    <3>2. CASE i = from + 1
      BY <2>7, <2>8, <3>2
    <3>3. CASE i > from + 1
      <4> DEFINE j == i - (from + 1)
      <4>1. j \in 1 .. k /\ i = from + 1 + j
        BY <2>2, <2>6, <3>3
      <4> HIDE DEF j
      <4>2. u[i] = tail[j]
        BY <2>8, <4>1
      <4> QED
        BY <2>6, <4>1, <4>2, ElementOfSeq DEF k
    <3> QED
      BY <2>2, <3>1, <3>2, <3>3
  <2>11. p \in 1 .. from + 1 + k /\ u[p] = "now" /\ \A i \in 1 .. p : u[i] # "finding"
    <3>1. \A i \in 1 .. p : i \in 1 .. from
      BY <2>2, <2>3, <2>4
    <3>2. p \in 1 .. from /\ p \in 1 .. from + 1 + k
      BY <2>2, <2>3, <2>4, <2>6
    <3> QED
      BY <2>3, <2>8, <3>1, <3>2
  <2>12. Timed(u)
    BY <2>8, <2>9, <2>10, <2>11 DEF Timed
  <2>13. from + 1 \in Findings(u)
    <3>1. /\ from + 1 \in DOMAIN u /\ from \in 1 .. (from + 1) - 1
          /\ \A j \in from + 1 .. from + 1 : j = from + 1
      BY <2>2, <2>6, <2>9
    <3>2. u[from] = "finding" /\ \A j \in 1 .. from - 1 : u[j] # "finding"
      BY <2>2, <2>8
    <3>3. \A j \in from + 1 .. from + 1 : u[j] # "advice"
      BY <2>7, <2>8, <3>1
    <3> QED
      BY <3>1, <3>2, <3>3 DEF Findings
  <2> QED
    BY <2>1, <2>8, <2>12, <2>13 DEF InFull
<1> QED
  BY <1>2, <1>3

LEMMA FallbackShaped == Timed(FallbackMarkdown) /\ InFull(FallbackMarkdown)
<1> DEFINE x == IF top_sql.status = "success" THEN "all_sql" ELSE "some_sql"
           text == <<"brief", "now", "finding", x, "advice">>
<1>1. {"brief", "finding", "all_sql", "some_sql", "advice"} \subseteq Good
  BY DEF Good, Parts
<1>2. x \in {"all_sql", "some_sql"} /\ (top_sql.status = "success" => x = "all_sql")
  OBVIOUS
<1>3. FallbackMarkdown = AppendGaps(text)
  BY DEF FallbackMarkdown
<1> HIDE DEF x
<1>4. /\ text \in Seq(Good \cup {"now"}) /\ DOMAIN text = 1 .. 5
      /\ text[1] = "brief" /\ text[2] = "now" /\ text[3] = "finding" /\ text[4] = x
      /\ text[5] = "advice"
  BY <1>1, <1>2
<1> HIDE DEF text
<1>5. Timed(text)
  <2>1. \A i \in 1 .. 5 : i # 2 => text[i] \in Good
    BY <1>1, <1>2, <1>4
  <2>2. \A i \in 1 .. 2 : text[i] # "finding"
    BY <1>4
  <2> QED
    BY <1>4, <2>1, <2>2 DEF Timed
<1> DEFINE u == AppendGaps(text)
<1>6. Timed(u) /\ \A i \in 1 .. 5 : i \in DOMAIN u /\ u[i] = text[i]
  BY <1>4, <1>5, AppendGapsTimed
<1> HIDE DEF u
<1>7. 4 \in Findings(u)
  <2>1. 4 \in DOMAIN u /\ 3 \in 1 .. 4 - 1 /\ u[3] = "finding" /\ u[4] = x
    BY <1>4, <1>6
  <2>2. /\ \A j \in 3 + 1 .. 4 : u[j] # "advice"
        /\ \A j \in 1 .. 3 - 1 : u[j] # "finding"
    BY <1>2, <1>4, <1>6, <2>1
  <2> QED
    BY <2>1, <2>2 DEF Findings
<1>8. top_sql.status = "success" => u[4] = "all_sql"
  BY <1>2, <1>4, <1>6
<1> QED
  BY <1>3, <1>6, <1>7, <1>8 DEF u, InFull
LEMMA BuildReportShaped ==
  ASSUME BuildReport
  PROVE  Timed(diagnosis'.markdown) /\ InFull(diagnosis'.markdown)
<1>1. PICK markdown \in {FallbackMarkdown} \cup {Repaired(text) : text \in Drafts} :
        diagnosis' = [summary |-> Summary, root_cause |-> adjudication, markdown |-> markdown]
  BY DEF BuildReport
<1>2. CASE markdown = FallbackMarkdown
  BY <1>1, <1>2, FallbackShaped
<1>3. ASSUME NEW text \in Drafts, markdown = Repaired(text)
      PROVE  Timed(markdown) /\ InFull(markdown)
  <2>1. text \in Seq(Parts)
    BY DEF Drafts
  <2>2. Timed(EnsureTime(Strip(text)))
    BY <2>1, StripType, EnsureTimeTimed
  <2>3. Timed(AppendGaps(EnsureTime(Strip(text))))
    BY <2>2, AppendGapsTimed
  <2> QED
    BY <1>3, <2>3, EnsureFindingShaped DEF Repaired
<1> QED
  BY <1>1, <1>2, <1>3

(* Such a text is one of the reports that ReportKeepsItsShape allows.      *)
LEMMA TimedOnce ==
  ASSUME NEW text, Timed(text)
  PROVE  /\ Cardinality({i \in DOMAIN text : text[i] \in {"now", "time"}}) = 1
         /\ Contains(text, "now") /\ ~ Contains(text, "appendix")
<1>1. DOMAIN text = 1 .. Len(text) /\ text \in Seq(Good \cup {"now"})
  BY LenProperties DEF Timed
<1>2. PICK p \in DOMAIN text : text[p] = "now" /\ \A i \in DOMAIN text : i # p => text[i] \in Good
  BY DEF Timed
<1>3. "now" \notin Good /\ "time" \notin Good /\ "appendix" \notin Good
  BY DEF Good, Parts
<1>4. {i \in DOMAIN text : text[i] \in {"now", "time"}} = {p}
  BY <1>2, <1>3
<1>5. Cardinality({p}) = 1
  BY FS_Singleton
<1>6. \A i \in DOMAIN text : text[i] # "appendix"
  BY <1>2, <1>3
<1> QED
  BY <1>1, <1>2, <1>4, <1>5, <1>6 DEF Contains

(* Whatever Qwen writes, in however many parts, the report names the time  *)
(* it was made once, has no unwanted section, and has the statements in    *)
(* full under the heading of the TopSQL findings: of these three no repair *)
(* undoes what an earlier one did.                                         *)
THEOREM ReportsKeepTheirShape == FaultSpec => []ReportKeepsItsShape
<1> DEFINE Shaped == stage = "done" => Timed(diagnosis.markdown) /\ InFull(diagnosis.markdown)
<1>1. FaultInit => Shaped
  BY DEF FaultInit
<1>2. Shaped /\ [FaultNext]_faultVars => Shaped'
  <2> SUFFICES ASSUME Shaped, [FaultNext]_faultVars, stage' = "done"
               PROVE  (Timed(diagnosis.markdown) /\ InFull(diagnosis.markdown))'
    OBVIOUS
  <2>1. CASE UNCHANGED faultVars
    BY <2>1 DEF faultVars, Timed, InFull
  <2>2. CASE BuildReport
    <3>1. Timed(diagnosis'.markdown) /\ InFull(diagnosis'.markdown)
      BY <2>2, BuildReportShaped
    <3>2. top_sql' = top_sql
      BY <2>2 DEF BuildReport
    <3> QED
      BY <3>1, <3>2 DEF Timed, InFull
  <2>3. CASE FaultNext /\ ~ BuildReport
    BY <2>3 DEF FaultNext, ParseInput, ParseInputWithQwen, CollectTopSql, MetricsImpossible,
       MetricsNotConfigured, CollectMetrics, Adjudicate
  <2> QED
    BY <2>1, <2>2, <2>3
<1>3. Shaped => ReportKeepsItsShape
  <2> SUFFICES ASSUME Shaped, stage = "done"
               PROVE  /\ Timed(diagnosis.markdown) /\ InFull(diagnosis.markdown)
                      /\ ReportKeepsItsShape
    BY DEF ReportKeepsItsShape
  <2>1. Timed(diagnosis.markdown) /\ InFull(diagnosis.markdown)
    OBVIOUS
  <2> QED
    BY <2>1, TimedOnce DEF ReportKeepsItsShape, InFull
<1> QED
  BY <1>1, <1>2, <1>3, PTL DEF FaultSpec
=============================================================================

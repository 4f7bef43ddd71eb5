---------------------------- MODULE GreatPowers ----------------------------
(***************************************************************************)
(* Great and secondary powers: CountryInstanceManager::update_gamestate    *)
(* (country/CountryInstanceManager.cpp), which updates every country and   *)
(* then ranks them.  An update moves a country between the three levels of *)
(* the uncivilised and never out of them, so that one status stands for    *)
(* the three.  The scores are abstracted to the order they put the         *)
(* countries in; civilised countries come first in it.  Only countries     *)
(* that own a province are ranked, and provinces change hands between two  *)
(* updates: which countries are left is found anew by each.                *)
(*                                                                         *)
(* A date only matters relative to today: grace is lose_great_power_date   *)
(* minus today, and every date in the past is the same.                    *)
(***************************************************************************)
EXTENDS Integers, SequencesExt

CONSTANTS
  Contender,       \* the countries
  GreatRank,       \* country_defines.get_great_power_rank()
  SecondaryRank,   \* country_defines.get_secondary_power_rank()
  GraceDays,       \* get_lose_great_power_grace_days()
  Elapses          \* the days that pass between two updates

ASSUME PowersAssumption ==
  /\ GreatRank \in Nat /\ SecondaryRank \in Nat /\ GraceDays \in Nat
  /\ GreatRank <= Cardinality(Contender)
  /\ Elapses \subseteq Nat

VARIABLES
  existing,           \* the countries that exist(), at the last update
  country_status,     \* of every country
  total_rank,         \* of every country, since it was last ranked; 0 before
  grace,              \* days of grace left; -1 when the date has passed
  great_powers,       \* the two lists
  secondary_powers

powersVars == <<existing, country_status, total_rank, grace, great_powers, secondary_powers>>

(* std::clamp needs its bounds in order: fewer countries than great power  *)
(* ranks is undefined behaviour, and left out.                             *)
MayExist == {countries \in SUBSET Contender : Cardinality(countries) >= GreatRank}

is_civilised(c) == country_status[c] # "uncivilised"

(* The orders scores can give: civilised countries before all others. *)
TotalOrders == UNION {SetToSeqs(countries) : countries \in MayExist}
Rankings ==
  {order \in TotalOrders : \A i, j \in DOMAIN order :
     i < j /\ is_civilised(order[j]) => is_civilised(order[i])}

RankIn(seq, c) == CHOOSE i \in DOMAIN seq : seq[i] = c

(* Whether a member of the list of great powers is erased. *)
Demoted(status, rank, left, c) == status[c] # "great" \/ (rank[c] > GreatRank /\ left[c] < 0)

(* std::clamp(SecondaryRank, GreatRank, the number of countries) *)
MaxPowerIndex(ranking) ==
  IF SecondaryRank < GreatRank THEN GreatRank
  ELSE IF SecondaryRank > Len(ranking) THEN Len(ranking) ELSE SecondaryRank

Powers(status, great, secondary) == [status |-> status, great |-> great, secondary |-> secondary]

(* Mutant of Promote: the free slots are not counted. *)
PromoteAnyway(p, c, rank) ==
  IF p.status[c] = "uncivilised" \/ p.status[c] = "great" THEN p
  ELSE IF rank[c] <= GreatRank
  THEN Powers([p.status EXCEPT ![c] = "great"], Append(p.great, c), p.secondary)
  ELSE IF rank[c] <= SecondaryRank
  THEN Powers([p.status EXCEPT ![c] = "secondary"], p.great, Append(p.secondary, c))
  ELSE p

(* One turn of the promotion loop. *)
Promote(p, c, rank) ==
  IF p.status[c] = "uncivilised" \/ p.status[c] = "great" THEN p
  ELSE IF Len(p.great) < GreatRank /\ rank[c] <= GreatRank
  THEN Powers([p.status EXCEPT ![c] = "great"], Append(p.great, c), p.secondary)
  ELSE IF rank[c] <= SecondaryRank
  THEN Powers([p.status EXCEPT ![c] = "secondary"], p.great, Append(p.secondary, c))
  ELSE p

(* A country that is gone is not in the ranking: its rank stays what it    *)
(* was, and with it its place among the great powers.                      *)
update_rankings(ranking, left) ==
  LET ranked == Range(ranking)
      rank == [c \in Contender |-> IF c \in ranked THEN RankIn(ranking, c) ELSE total_rank[c]]
      kept == SelectSeq(great_powers, LAMBDA c : ~Demoted(country_status, rank, left, c))
      lowered == [c \in Contender |->
        IF \/ country_status[c] = "secondary" /\ c \in Range(secondary_powers)
           \/ country_status[c] = "great" /\ c \in Range(great_powers) \ Range(kept)
        THEN "civilised" ELSE country_status[c]]
      promoted == FoldLeft(LAMBDA p, c : Promote(p, c, rank), Powers(lowered, kept, <<>>),
                           SubSeq(ranking, 1, MaxPowerIndex(ranking)))
      before(c, d) ==
        \/ rank[c] < rank[d]
        \/ rank[c] = rank[d] /\ RankIn(promoted.great, c) < RankIn(promoted.great, d)
  IN  /\ existing' = ranked
      /\ country_status' = promoted.status
      /\ total_rank' = rank
      /\ great_powers' = SortSeq(promoted.great, before)
      /\ secondary_powers' = promoted.secondary
      /\ grace' = [c \in Contender |->
           IF c \in Range(promoted.great) /\ rank[c] <= GreatRank THEN GraceDays ELSE left[c]]

(* update_gamestate some days after the last one. *)
UpdateCountries(days, ranking) ==
  update_rankings(ranking, [c \in Contender |-> Max({-1, grace[c] - days})])

PowersInit ==
  /\ existing = {}
  /\ country_status \in [Contender -> {"civilised", "uncivilised"}]
  /\ total_rank = [c \in Contender |-> 0]
  /\ grace = [c \in Contender |-> -1]
  /\ great_powers = <<>>
  /\ secondary_powers = <<>>

PowersNext ==
  \E days \in Elapses, ranking \in Rankings : UpdateCountries(days, ranking)

-----------------------------------------------------------------------------
(* The two lists are those of the statuses, and the statuses are those of  *)
(* the ranks, through any changes of rank and of who exists.  A rank       *)
(* inside the great ones is great unless every slot is taken, by a country *)
(* in its days of grace or by one that is gone and keeps the rank it had;  *)
(* a great power whose rank, kept or new, is outside them is in its days   *)
(* of grace; the list is in the order of the ranks, where a kept one may   *)
(* tie with a new one; the secondary powers exist and are ranked among     *)
(* them, nobody who exists and is ranked there is left without a status,   *)
(* and uncivilised countries have none (update_rankings).                  *)
RanksSound ==
  LET great == {c \in Contender : country_status[c] = "great"}
      secondary == {c \in Contender : country_status[c] = "secondary"}
      tied(c, d) == total_rank[c] = total_rank[d] /\ ~({c, d} \subseteq existing)
  IN  /\ Range(great_powers) = great /\ IsInjective(great_powers)
      /\ Range(secondary_powers) = secondary /\ IsInjective(secondary_powers)
      /\ \A i, j \in DOMAIN great_powers : i < j =>
           \/ total_rank[great_powers[i]] < total_rank[great_powers[j]]
           \/ tied(great_powers[i], great_powers[j])
      /\ Cardinality(great) <= GreatRank
      /\ \A c \in great : total_rank[c] > GreatRank => grace[c] >= 0
      /\ \A c \in secondary : c \in existing /\ total_rank[c] <= SecondaryRank
      /\ \A c \in existing : is_civilised(c) =>
           /\ total_rank[c] <= GreatRank => c \in great \/ Cardinality(great) = GreatRank
           /\ total_rank[c] <= SecondaryRank => c \in great \cup secondary
=============================================================================

----------------------------- MODULE MCFeatures -----------------------------
(***************************************************************************)
(* Small lists of features.                                                *)
(***************************************************************************)
EXTENDS Integers, Sequences

\* Three features at 0, 64 and 128. The second and the third are behind an earlier one in its
\* list, or first in a list that a branch of an earlier one leads to; a feature may have two
\* branches, and lists are nested up to three deep.
MCLinks ==
  {link \in [2 .. 3 -> [from : 1 .. 2, by : {"next", "branch"}]] :
     link[2].from = 1 /\ (link[2] = link[3] => link[2].by = "branch")}

\* Addresses are relative or not; a parameter list ends with a parameter or with a terminator.
MCLayout(link, absolute, terminated) ==
  LET at(i) == 64 * (i - 1)
      by(i, kind) == SelectSeq(<<2, 3>>, LAMBDA j : link[j] = [from |-> i, by |-> kind])
      block(id, i, to) == [eop |-> FALSE, offset |-> 24, param_id |-> id,
                           absolute |-> absolute, data |-> <<i, id>>,
                           branch |-> IF absolute THEN to ELSE to - at(i)]
      branches(i) == [n \in 1 .. Len(by(i, "branch")) |-> block(12, i, at(by(i, "branch")[n]))]
      closed(params) == IF terminated
                        THEN Append(params, [params[1] EXCEPT !.eop = TRUE, !.offset = 0])
                        ELSE [params EXCEPT ![Len(params)].eop = TRUE, ![Len(params)].offset = 16]
  IN  [first |-> 0,
       headers |-> [a \in {at(i) : i \in 1 .. 3} |->
         LET i == a \div 64 + 1
         IN  [guid |-> i, eol |-> by(i, "next") = <<>>,
              next |-> IF by(i, "next") = <<>> THEN 0 ELSE at(by(i, "next")[1]) - a,
              csr_absolute |-> absolute, csr |-> IF absolute THEN 1000 + a ELSE 32,
              has_params |-> i # 3, blocks |-> closed(branches(i) \o <<block(1, i, 0)>>)]]]
MCHardware == {MCLayout(link, a, t) : link \in MCLinks, a \in BOOLEAN, t \in BOOLEAN}
=============================================================================

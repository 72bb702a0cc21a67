---------------------------- MODULE MCSwapBuild ----------------------------
(***************************************************************************)
(* Two pools P1, P2 between A and B; routes A-B-C (over R) and A-D-C (over  *)
(* T, U), one of whose pools has its mints the other way round.  The tokens *)
(* B and D are of another token program.  Of the pools of B, P1 records it  *)
(* and P2, first seen before the mint was cached, has the default; of those *)
(* of D only one records anything.                                         *)
(* The amounts are 20 (no split on edges), 40, and 70, which is beyond the *)
(* "64 bits" of 64.                                                        *)
(***************************************************************************)
EXTENDS SwapBuild

MCToken == {"A", "B", "C", "D"}
MCPool == {"P1", "P2", "R", "T", "U"}
MCMintA == [p \in MCPool |-> CASE p \in {"P1", "P2"} -> "A" [] p = "R" -> "C"
                               [] p = "T" -> "A" [] p = "U" -> "C"]
MCMintB == [p \in MCPool |-> CASE p \in {"P1", "P2"} -> "B" [] p = "R" -> "B"
                               [] p = "T" -> "D" [] p = "U" -> "D"]
MCProgramOf == [t \in MCToken |-> IF t \in {"B", "D"} THEN "2022" ELSE "spl"]
MCProgramA == [p \in MCPool |-> IF p = "R" THEN "spl" ELSE "none"]
MCProgramB == [p \in MCPool |-> CASE p \in {"P1", "U"} -> "2022" [] p = "P2" -> "spl"
                                  [] p \in {"R", "T"} -> "none"]

\* Depths; a swap gives depth * x / (depth + x), and fails beyond half of the depth.
MCState == {60, 200}
MCTickOf == [s \in MCState |-> IF s = 60 THEN 1 ELSE 2]
MCStart == {[p \in MCPool |-> IF p \in {"P1", "T"} THEN 60 ELSE 200]}
MCGive(s, x) == (s * x) \div (s + x)
MCTake(s, y) == (s * y + s - y - 1) \div (s - y)
MCFails(s, x, exactIn) == x = 0 \/ 2 * x > s

MCPoolsOf == [e \in MCToken \X MCToken |->
  CASE {e[1], e[2]} = {"A", "B"} -> <<"P1", "P2">>
    [] {e[1], e[2]} = {"B", "C"} -> <<"R">>
    [] {e[1], e[2]} = {"A", "D"} -> <<"T">>
    [] {e[1], e[2]} = {"D", "C"} -> <<"U">>
    [] OTHER -> <<>>]
MCPaths == {<<"A", "B">>, <<"A", "B", "C">>, <<"A", "D", "C">>}

Ask(entry, to, exactIn, amount, slippage) ==
  [entry |-> entry, from |-> "A", to |-> to, exactIn |-> exactIn,
   amount |-> amount, slippage |-> slippage]

MCAsked ==
  {Ask("swap", to, exactIn, 20, 1000) : to \in {"B", "C"}, exactIn \in BOOLEAN}
  \cup {Ask("swap", to, TRUE, 40, 0) : to \in {"B", "C"}}
  \cup {Ask("swap", "B", exactIn, 70, 0) : exactIn \in BOOLEAN}
  \cup {Ask("session", "C", exactIn, 20, 0) : exactIn \in BOOLEAN}
  \cup {Ask("session", "C", TRUE, 20, 60000)}
  \cup {Ask("sessionDirect", "B", exactIn, 20, 1000) : exactIn \in BOOLEAN}
=============================================================================

---------------------------- MODULE MCScoreFeed -----------------------------
(* Two matches of two stages; one new subscription beside the old one, and two *)
(* guest tokens.                                                               *)
EXTENDS ScoreFeed, TLC

Stage(schema, home, away, homeRed, awayRed, second, odds) ==
  [schema |-> schema, home |-> home, away |-> away, homeRed |-> homeRed,
   awayRed |-> awayRed, second |-> second, odds |-> odds]

MCMatches ==
  <<<<Stage("early", 0, 0, 0, 0, 0, <<>>),
      Stage("live", 1, 0, 0, 1, 15 * 60 + 59, <<FALSE, TRUE>>)>>,
    <<Stage("live", 0, 2, 0, 0, 90 * 60, <<TRUE>>),
      Stage("list", 0, 2, 1, 0, 91 * 60, <<FALSE>>)>>>>
MCFixtureFile ==
  <<Stage("flat", 2, 1, 0, 1, 73 * 60, <<TRUE>>), Stage("flat", 0, 0, 0, 0, 0, <<FALSE>>)>>
MCLists == {<<>>, <<20, 700, 950, 800>>, <<1200, 700, 300>>}
=============================================================================

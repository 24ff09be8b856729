--------------------------- MODULE FootballCommands ---------------------------
(***************************************************************************)
(* The football commands and the services they stand on.                   *)
(***************************************************************************)
EXTENDS CommandOutcomes

\* The transfer-market tables, downloaded again when their time is up.
MarketDataset == Skip | Fetch & Fetch & Compute

FifaRatings == Skip | Fetch & Optional(Raise("service"))

\* Whatever cannot be downloaded is left out of the picture.
PlayerAssets == Skip

BuildFootballField == Compute

BuildCardField == Compute

FullLineup ==
    MarketDataset & PlayerAssets & BuildFootballField & MarketDataset

\* Ratings of nobody have no mean.
FifaLineup ==
    FifaRatings & Optional(Raise("other")) & PlayerAssets & BuildCardField

FifaCard == MayAnswer("text") & FifaRatings & Fetch & Answer("image_buffer")

FootballPlayerCommand == Cmd({"all", "show", "dm"},
      FifaCard
    | MarketDataset & MayAnswer("text") & MarketDataset
        & Fetch & Answer("image_buffer"))

\* A badge and a caption survive without TheSportsDB, unless it answers nonsense.
TheSportsDB == Catch(Fetch, {"http"}, Skip)

EspnStandings == Fetch

\* A league's clubs and its table, fetched at once.
LeagueData == MarketDataset & EspnStandings

TeamReply == TheSportsDB & MarketDataset & Fetch & Answer("image_buffer")

FootballTeamCommand == Cmd({"all", "show", "dm"},
      MayAnswer("text") & FifaLineup & Answer("image_buffer")
    | FullLineup & Answer("image_buffer")
    | LeagueData & MayAnswer("text") & TeamReply
    | MarketDataset & Optional(LeagueData) & TeamReply)

\* The table, or the first stage's when the one in progress has none.
FootballStandingsCommand == Cmd({"all"},
    EspnStandings & (Answer("text") | EspnStandings & Answer("text")))

\* Leagues that cannot be read are skipped.
EspnScoreboard == Skip

ScoreCommand == Cmd({"all"}, EspnScoreboard & Answer("text"))

FootballCommandTable ==
    [ football_player |-> FootballPlayerCommand,
      football_team |-> FootballTeamCommand,
      football_standings |-> FootballStandingsCommand,
      score |-> ScoreCommand ]
==============================================================================

--------------------------- MODULE CommandRunProofs ---------------------------
(***************************************************************************)
(* Proofs about CommandRun, for any bounds on retries, batches and         *)
(* crashes.  First the catalogue: its combinators keep a discipline that   *)
(* every command turns out to follow, each by the way it is put together.  *)
(* Then the life of a message that runs whatever command.                  *)
(***************************************************************************)
EXTENDS CommandRun, FiniteSetTheorems, SequenceTheorems, TLAPS

-----------------------------------------------------------------------------
(***************************************************************************)
(* The discipline of a run over a vocabulary V of events: it only ends     *)
(* with "done", when T holds that, once it told or changed something; and  *)
(* it may only ask to be retried when nothing in V is an effect.           *)
(***************************************************************************)

Tells(r) == \E i \in DOMAIN r.events : r.events[i] \in Kinds \cup Effects

Disciplined(V, T) ==
    {r \in [events: Seq(V), end: Errors \cup {"on", "none", "done"}] :
        /\ r.end \in T \cap {"done"} => Tells(r)
        /\ r.end = "service" => V \cap Effects = {}}

\* What a set of disciplined runs may end with: anything; not "none"; not "on";
\* neither; and, fifth, not "on" before it told something.
Seeks(V, T, P) == P \subseteq Disciplined(V, T)
Goes(V, T, P) == P \subseteq {r \in Disciplined(V, T) : r.end # "none"}
Finds(V, T, P) == P \subseteq {r \in Disciplined(V, T) : r.end # "on"}
Concludes(V, T, P) == P \subseteq {r \in Disciplined(V, T) : r.end \notin {"on", "none"}}
Speaks(V, T, P) ==
    P \subseteq {r \in Disciplined(V, T) : r.end # "none" /\ (r.end = "on" => Tells(r))}

LEMMA ConcatElements ==
    ASSUME NEW V, NEW s \in Seq(V), NEW t \in Seq(V)
    PROVE  /\ s \o t \in Seq(V)
           /\ \A i \in DOMAIN s : i \in DOMAIN (s \o t) /\ (s \o t)[i] = s[i]
           /\ \A i \in DOMAIN t : Len(s) + i \in DOMAIN (s \o t) /\ (s \o t)[Len(s) + i] = t[i]
           /\ \A k \in DOMAIN (s \o t) :
                k \in DOMAIN s \/ (k > Len(s) /\ k - Len(s) \in DOMAIN t)
<1>1. s \o t \in Seq(V) /\ Len(s \o t) = Len(s) + Len(t)
  BY ConcatProperties
<1>2. DOMAIN (s \o t) = 1..Len(s) + Len(t) /\ DOMAIN s = 1..Len(s) /\ DOMAIN t = 1..Len(t)
  BY <1>1
<1>3. ASSUME NEW i \in DOMAIN s PROVE i \in DOMAIN (s \o t) /\ (s \o t)[i] = s[i]
  <2>1. i \in 1..Len(s) + Len(t) /\ i <= Len(s)
    BY <1>2, <1>3
  <2> QED
    BY <1>2, <2>1, ConcatProperties
<1>4. ASSUME NEW i \in DOMAIN t
      PROVE  Len(s) + i \in DOMAIN (s \o t) /\ (s \o t)[Len(s) + i] = t[i]
  <2>1. /\ Len(s) + i \in 1..Len(s) + Len(t) /\ ~(Len(s) + i <= Len(s))
        /\ (Len(s) + i) - Len(s) = i
    BY <1>2, <1>4
  <2> QED
    BY <1>2, <2>1, ConcatProperties
<1>5. \A k \in DOMAIN (s \o t) : k \in DOMAIN s \/ (k > Len(s) /\ k - Len(s) \in DOMAIN t)
  BY <1>2
<1> QED
  BY <1>1, <1>3, <1>4, <1>5

\* One disciplined run after another is disciplined, and tells what either tells.
LEMMA Joined ==
    ASSUME NEW V, NEW T, NEW p \in Disciplined(V, T), NEW q \in Disciplined(V, T)
    PROVE  /\ Before(p, q) \in Disciplined(V, T) /\ Before(p, q).end = q.end
           /\ Tells(p) \/ Tells(q) => Tells(Before(p, q))
<1> DEFINE s == p.events  t == q.events
<1>1. s \in Seq(V) /\ t \in Seq(V)
  BY DEF Disciplined
<1> HIDE DEF s, t
<1>2. /\ s \o t \in Seq(V)
      /\ \A i \in DOMAIN s : i \in DOMAIN (s \o t) /\ (s \o t)[i] = s[i]
      /\ \A i \in DOMAIN t : Len(s) + i \in DOMAIN (s \o t) /\ (s \o t)[Len(s) + i] = t[i]
  BY <1>1, ConcatElements
<1>3. Before(p, q) = [events |-> s \o t, end |-> q.end]
  BY DEF Before, s, t
<1>e. p.events = s /\ q.events = t
  BY DEF s, t
<1>f. Before(p, q).events = s \o t
  BY <1>3
<1>4. Tells(p) \/ Tells(q) => Tells(Before(p, q))
  <2>1. Tells(p) => Tells(Before(p, q))
    BY <1>2, <1>e, <1>f DEF Tells
  <2>2. ASSUME NEW i \in DOMAIN t, t[i] \in Kinds \cup Effects PROVE Tells(Before(p, q))
    <3>1. Len(s) + i \in DOMAIN (s \o t) /\ (s \o t)[Len(s) + i] \in Kinds \cup Effects
      BY <1>2, <2>2
    <3> QED
      BY <1>f, <3>1 DEF Tells
  <2> QED
    BY <1>e, <2>1, <2>2 DEF Tells
<1>5. Before(p, q) \in [events: Seq(V), end: Errors \cup {"on", "none", "done"}]
  BY <1>2, <1>3 DEF Disciplined
<1> QED
  BY <1>3, <1>4, <1>5 DEF Disciplined

LEMMA AndThen ==
    ASSUME NEW V, NEW T, NEW P, NEW Q
    PROVE  /\ Goes(V, T, P) /\ Concludes(V, T, Q) => Concludes(V, T, P & Q)
           /\ Goes(V, T, P) /\ Goes(V, T, Q) => Goes(V, T, P & Q)
           /\ Seeks(V, T, P) /\ Finds(V, T, Q) => Finds(V, T, P & Q)
           /\ Seeks(V, T, P) /\ Seeks(V, T, Q) => Seeks(V, T, P & Q)
           /\ Goes(V, T, P) /\ Speaks(V, T, Q) => Speaks(V, T, P & Q)
           /\ Speaks(V, T, P) /\ Goes(V, T, Q) => Speaks(V, T, P & Q)
<1> USE Joined DEF &, Continued
<1>1. /\ Goes(V, T, P) /\ Concludes(V, T, Q) => Concludes(V, T, P & Q)
      /\ Goes(V, T, P) /\ Goes(V, T, Q) => Goes(V, T, P & Q)
      /\ Seeks(V, T, P) /\ Finds(V, T, Q) => Finds(V, T, P & Q)
      /\ Seeks(V, T, P) /\ Seeks(V, T, Q) => Seeks(V, T, P & Q)
  BY DEF Concludes, Goes, Finds, Seeks
<1>2. /\ Goes(V, T, P) /\ Speaks(V, T, Q) => Speaks(V, T, P & Q)
      /\ Speaks(V, T, P) /\ Goes(V, T, Q) => Speaks(V, T, P & Q)
  BY DEF Goes, Speaks
<1> QED
  BY <1>1, <1>2

LEMMA Else ==
    ASSUME NEW V, NEW T, NEW P, NEW Q
    PROVE  /\ Finds(V, T, P) /\ Concludes(V, T, Q) => Concludes(V, T, OrElse(P, Q))
           /\ Seeks(V, T, P) /\ Goes(V, T, Q) => Goes(V, T, OrElse(P, Q))
           /\ Finds(V, T, P) /\ Finds(V, T, Q) => Finds(V, T, OrElse(P, Q))
           /\ Seeks(V, T, P) /\ Seeks(V, T, Q) => Seeks(V, T, OrElse(P, Q))
  BY Joined DEF Concludes, Goes, Finds, Seeks, OrElse, Continued

LEMMA Caught ==
    ASSUME NEW V, NEW T, NEW P, NEW E, NEW Q
    PROVE  /\ Concludes(V, T, P) /\ Concludes(V, T, Q) => Concludes(V, T, Catch(P, E, Q))
           /\ Goes(V, T, P) /\ Goes(V, T, Q) => Goes(V, T, Catch(P, E, Q))
           /\ Finds(V, T, P) /\ Finds(V, T, Q) => Finds(V, T, Catch(P, E, Q))
           /\ Seeks(V, T, P) /\ Seeks(V, T, Q) => Seeks(V, T, Catch(P, E, Q))
           /\ Speaks(V, T, P) /\ Speaks(V, T, Q) => Speaks(V, T, Catch(P, E, Q))
  BY Joined DEF Concludes, Goes, Finds, Seeks, Speaks, Catch, Continued

LEMMA Either ==
    ASSUME NEW V, NEW T, NEW P, NEW Q
    PROVE  /\ Concludes(V, T, P) /\ Concludes(V, T, Q) => Concludes(V, T, P | Q)
           /\ Goes(V, T, P) /\ Goes(V, T, Q) => Goes(V, T, P | Q)
           /\ Finds(V, T, P) /\ Finds(V, T, Q) => Finds(V, T, P | Q)
           /\ Seeks(V, T, P) /\ Seeks(V, T, Q) => Seeks(V, T, P | Q)
           /\ Speaks(V, T, P) /\ Speaks(V, T, Q) => Speaks(V, T, P | Q)
  BY DEF Concludes, Goes, Finds, Seeks, Speaks, |

LEMMA Weaker ==
    ASSUME NEW V, NEW T, NEW P
    PROVE  /\ Concludes(V, T, P) => Finds(V, T, P) /\ Speaks(V, T, P)
           /\ Speaks(V, T, P) => Goes(V, T, P)
           /\ Goes(V, T, P) \/ Finds(V, T, P) => Seeks(V, T, P)
  BY DEF Concludes, Goes, Finds, Seeks, Speaks

\* What the runs are made of.
LEMMA Basics ==
    ASSUME NEW V, NEW T
    PROVE  /\ Goes(V, T, Skip) /\ Finds(V, T, Nothing)
           /\ \A e \in Errors \ {"service"} : Concludes(V, T, Raise(e))
           /\ V \cap Effects = {} => Concludes(V, T, Raise("service"))
           /\ \A v \in V : Goes(V, T, Event(v))
           /\ \A v \in V : v \in Kinds \cup Effects => Speaks(V, T, Event(v))
<1>1. <<>> \in Seq(V)
  OBVIOUS
<1>2. ASSUME NEW v \in V PROVE <<v>> \in Seq(V) /\ 1 \in DOMAIN <<v>> /\ <<v>>[1] = v
  OBVIOUS
<1>3. /\ Goes(V, T, Skip) /\ Finds(V, T, Nothing)
      /\ \A e \in Errors \ {"service"} : Concludes(V, T, Raise(e))
      /\ V \cap Effects = {} => Concludes(V, T, Raise("service"))
  BY <1>1 DEF Goes, Concludes, Finds, Disciplined, Skip, Nothing, Raise, Ends, Errors
<1>4. \A v \in V : Goes(V, T, Event(v))
  BY <1>2 DEF Goes, Disciplined, Event
<1>5. \A v \in V : v \in Kinds \cup Effects => Speaks(V, T, Event(v))
  BY <1>2 DEF Speaks, Disciplined, Event, Tells
<1> QED
  BY <1>3, <1>4, <1>5

LEMMA Answers ==
    ASSUME NEW k
    PROVE  Answer(k) = {[events |-> <<k>>, end |-> "done"]}
<1>1. <<k>> \o <<>> = <<k>>
  <2>1. <<k>> \in Seq({k})
    OBVIOUS
  <2> QED
    BY <2>1, ConcatEmptySeq
<1>2. Before([events |-> <<k>>, end |-> "on"], [events |-> <<>>, end |-> "done"])
        = [events |-> <<k>>, end |-> "done"]
  BY <1>1 DEF Before
<1> QED
  BY <1>2 DEF Answer, Say, Event, Return, Ends, &, Continued

LEMMA Returning ==
    ASSUME NEW V, NEW T, NEW P
    PROVE  /\ Speaks(V, T, P) => Concludes(V, T, P & Return)
           /\ Concludes(V, {}, Return)
<1> DEFINE ended == [events |-> <<>>, end |-> "done"]
<1>1. Return = {ended}
  BY DEF Return, Ends
<1>2. ended \in Disciplined(V, {}) /\ ended.end = "done"
  <2>1. <<>> \in Seq(V)
    OBVIOUS
  <2> QED
    BY <2>1 DEF Disciplined, Errors
<1> HIDE DEF ended
<1>3. Concludes(V, {}, Return)
  BY <1>1, <1>2 DEF Concludes
<1>4. ASSUME Speaks(V, T, P), NEW p \in P, p.end = "on"
      PROVE  Before(p, ended) \in {r \in Disciplined(V, T) : r.end \notin {"on", "none"}}
  <2>1. p \in Disciplined(V, {}) /\ Tells(p)
    BY <1>4 DEF Speaks, Disciplined
  <2>2. /\ Before(p, ended) \in Disciplined(V, {}) /\ Before(p, ended).end = "done"
        /\ Tells(Before(p, ended))
    BY <1>2, <2>1, Joined
  <2> QED
    BY <2>2 DEF Disciplined
<1>5. Speaks(V, T, P) => Concludes(V, T, P & Return)
  BY <1>1, <1>4 DEF Speaks, Concludes, &, Continued
<1> QED
  BY <1>3, <1>5

LEMMA Answering ==
    ASSUME NEW V, NEW T, NEW k \in V \cap Kinds
    PROVE  /\ Speaks(V, T, Say(k))
           /\ Concludes(V, T, Answer(k))
           /\ Goes(V, T, MayAnswer(k))
<1>1. Speaks(V, T, Say(k))
  BY Basics DEF Say
<1>2. Concludes(V, T, Answer(k))
  BY <1>1, Returning DEF Answer
<1> QED
  BY <1>1, <1>2, Basics, Weaker, Either DEF MayAnswer, Optional

LEMMA Repeating ==
    ASSUME NEW V, NEW T, NEW P
    PROVE  /\ Goes(V, T, P) => Goes(V, T, Optional(P)) /\ Goes(V, T, Twice(P))
           /\ Concludes(V, T, P) => Goes(V, T, Optional(P))
           /\ Speaks(V, T, P) => Goes(V, T, Optional(P)) /\ Speaks(V, T, Twice(P))
  BY Basics, Weaker, Either, AndThen DEF Optional, Twice

LEMMA Fetching ==
    ASSUME NEW V, NEW T
    PROVE  Goes(V, T, Fetch) /\ Goes(V, T, Compute) /\ Goes(V, T, Read)
  BY Basics, Weaker, Either DEF Fetch, Compute, Read, Errors

-----------------------------------------------------------------------------
(***************************************************************************)
(* Most commands only ever use words: they tell somebody something, and    *)
(* nothing in them changes a store or touches WhatsApp.                    *)
(***************************************************************************)

Words == Kinds \ {"sticker", "raw"}
Told(P) == Concludes(Words, {"done"}, P)

LEMMA WordsAre ==
    /\ {"text", "image", "image_buffer", "video", "video_buffer", "audio"}
         \subseteq Words \cap Kinds
    /\ Words \cap Effects = {}
  BY DEF Words, Kinds, Media, Effects, Keyed, Unkeyed

LEMMA ErrorsAre == {"http", "service", "download", "told", "other"} = Errors
  BY DEF Errors

LEMMA Translating == Goes(Words, {"done"}, Translate)
  BY Basics, Fetching, Weaker, Caught DEF Translate

\* The commands that answer with a picture, and what they stand on.
LEMMA ImagesTold ==
    \A command \in {BeerCommand, PuppyCommand, CarCommand, CountryFlagCommand,
                        LeagueOfLegendsCommand, MealRecipesCommand, MovieSeriesCommand,
                        MusicCommand, MyAnimeListCommand, GameCommand, ClashRoyaleCommand,
                        HearthstoneCommand, MagicTheGatheringCommand, PlayingCardCommand,
                        PokemonCommand, PokemonTCGCommand, YugiohCommand, HentaiCommand,
                        PornoCommand, Rule34Command} :
        Told(command.runs)
<1> USE AndThen, Else, Caught, Either, Weaker, Repeating, Returning, Basics, Answering, Fetching,
        WordsAre, ErrorsAre, Translating
    DEF Told, Cmd
<1>1. Told(BeerCommand.runs)
  BY DEF BeerCommand, Apologising, BeerPage
<1>2. Told(PuppyCommand.runs)
  BY DEF PuppyCommand, Apologising
<1>3. Told(CarCommand.runs)
  BY DEF CarCommand, Apologising, CarImageFinder, FipeClient, WikimediaClient, Lookup
<1>4. Told(CountryFlagCommand.runs)
  BY DEF CountryFlagCommand, Apologising, RestCountries
<1>5. Told(LeagueOfLegendsCommand.runs)
  BY DEF LeagueOfLegendsCommand, Apologising, OpggBuild, OpggClient
<1>6. Told(MealRecipesCommand.runs)
  BY DEF MealRecipesCommand, Apologising
<1>7. Told(MovieSeriesCommand.runs)
  BY DEF MovieSeriesCommand, OmdbRatings
<1>8. Told(MusicCommand.runs)
  BY DEF MusicCommand, Apologising
<1>9. Told(MyAnimeListCommand.runs)
  BY DEF MyAnimeListCommand
<1>10. Told(GameCommand.runs)
  BY DEF GameCommand, IgdbSource, RawgSource
<1>11. Told(ClashRoyaleCommand.runs)
  BY DEF ClashRoyaleCommand, Apologising, Booster, CardGrid
<1>12. Told(HearthstoneCommand.runs)
  BY DEF HearthstoneCommand, BattleNetToken, Booster, Apologising, CardGrid
<1>13. Told(MagicTheGatheringCommand.runs)
  BY DEF MagicTheGatheringCommand, Apologising, Booster, MagicCard, CardGrid
<1>14. Told(PlayingCardCommand.runs)
  BY DEF PlayingCardCommand
<1>15. Told(PokemonCommand.runs)
  BY DEF PokemonCommand, Booster, Apologising, CardGrid
<1>16. Told(PokemonTCGCommand.runs)
  BY DEF PokemonTCGCommand, Apologising, Booster, CardGrid
<1>17. Told(YugiohCommand.runs)
  BY DEF YugiohCommand, Booster, Apologising, CardGrid
<1>18. Told(HentaiCommand.runs)
  BY DEF HentaiCommand, HentaiGallery, EHentaiScraper, HitomiScraper, NhentaiScraper
<1>19. Told(PornoCommand.runs)
  BY DEF PornoCommand, Apologising, RedGifs, ScrapedVideo
<1>20. Told(Rule34Command.runs)
  BY DEF Rule34Command, Rule34Images, Rule34Page
<1> HIDE DEF Told
<1> QED
  BY <1>1, <1>2, <1>3, <1>4, <1>5, <1>6, <1>7, <1>8, <1>9, <1>10, <1>11, <1>12, <1>13, <1>14,
     <1>15, <1>16, <1>17, <1>18, <1>19, <1>20

\* The commands that answer in words or handle media.
LEMMA WordsTold ==
    \A command \in {BibleCommand, QuranCommand, TorahCommand, HoroscopeCommand, FactCommand,
                        CurrencyCommand, FipeCommand, LotteryCommand, MenuCommand, MoonCommand,
                        D20Command, JackpotCommand, MateusCommand, OiCommand, AudioCommand,
                        DownloadCommand} :
        Told(command.runs)
<1> USE AndThen, Else, Caught, Either, Weaker, Repeating, Returning, Basics, Answering, Fetching,
        WordsAre, ErrorsAre, Translating
    DEF Told, Cmd
<1>1. Told(BibleCommand.runs)
  BY DEF BibleCommand
<1>2. Told(QuranCommand.runs)
  BY DEF QuranCommand
<1>3. Told(TorahCommand.runs)
  BY DEF TorahCommand
<1>4. Told(HoroscopeCommand.runs)
  BY DEF HoroscopeCommand
<1>5. Told(FactCommand.runs)
  BY DEF FactCommand
<1>6. Told(CurrencyCommand.runs)
  BY DEF CurrencyCommand
<1>7. Told(FipeCommand.runs)
  BY DEF FipeCommand, Apologising
<1>8. Told(LotteryCommand.runs)
  BY DEF LotteryCommand, Apologising, Draws
<1>9. Told(MenuCommand.runs)
  BY DEF MenuCommand
<1>10. Told(MoonCommand.runs)
  BY DEF MoonCommand
<1>11. Told(D20Command.runs)
  BY DEF D20Command
<1>12. Told(JackpotCommand.runs)
  BY DEF JackpotCommand
<1>13. Told(MateusCommand.runs)
  BY DEF MateusCommand
<1>14. Told(OiCommand.runs)
  BY DEF OiCommand
<1>15. Told(AudioCommand.runs)
  BY DEF AudioCommand
<1>16. Told(DownloadCommand.runs)
  BY DEF DownloadCommand, DownloadPhotos, YtDlpDownload, XPhotos, YtDlpImage
<1> HIDE DEF Told
<1> QED
  BY <1>1, <1>2, <1>3, <1>4, <1>5, <1>6, <1>7, <1>8, <1>9, <1>10, <1>11, <1>12, <1>13, <1>14,
     <1>15, <1>16

\* The football commands, and the services they stand on.
LEMMA FootballTold ==
    \A command \in {FootballPlayerCommand, FootballTeamCommand, FootballStandingsCommand,
                        ScoreCommand} :
        Told(command.runs)
<1> USE AndThen, Else, Caught, Either, Weaker, Repeating, Returning, Basics, Answering, Fetching,
        WordsAre, ErrorsAre
    DEF Told, Cmd
<1>1. Told(FootballPlayerCommand.runs)
  BY DEF FootballPlayerCommand, FifaCard, MarketDataset, FifaRatings
<1>2. Told(FootballTeamCommand.runs)
  BY DEF FootballTeamCommand, FifaLineup, FullLineup, LeagueData, MarketDataset, TeamReply,
         BuildCardField, FifaRatings, PlayerAssets, BuildFootballField, EspnStandings, TheSportsDB
<1>3. Told(FootballStandingsCommand.runs)
  BY DEF FootballStandingsCommand, EspnStandings
<1>4. Told(ScoreCommand.runs)
  BY DEF ScoreCommand, EspnScoreboard
<1> HIDE DEF Told
<1> QED
  BY <1>1, <1>2, <1>3, <1>4

-----------------------------------------------------------------------------
(***************************************************************************)
(* The other commands, each over its own vocabulary.                       *)
(***************************************************************************)

LEMMA Reaching ==
    ASSUME NEW V, NEW T, "port" \in V
    PROVE  /\ Goes(V, T, Rpc)
           /\ "media" \in V => Goes(V, T, GetMedia)
<1>1. Goes(V, T, Rpc)
  BY AndThen, Basics, Fetching DEF Rpc
<1>2. "media" \in V => Goes(V, T, GetMedia)
  BY AndThen, Either, Weaker, Basics, ErrorsAre DEF GetMedia
<1> QED
  BY <1>1, <1>2

LEMMA Writing ==
    ASSUME NEW V, NEW T, NEW v \in V \cap Effects
    PROVE  /\ \A e \in Errors \ {"service"} : Speaks(V, T, Effect(v, e))
           /\ Speaks(V, T, Write(v))
           /\ "port" \in V => Speaks(V, T, Act(v))
<1>1. ASSUME NEW e \in Errors \ {"service"} PROVE Speaks(V, T, Effect(v, e))
  BY AndThen, Either, Weaker, Basics DEF Effect
<1>2. Speaks(V, T, Write(v))
  BY <1>1, ErrorsAre DEF Write
<1>3. "port" \in V => Speaks(V, T, Act(v))
  BY <1>2, AndThen, Weaker, Basics DEF Act
<1> QED
  BY <1>1, <1>2, <1>3

Changing == Events \ {"sticker", "raw"}

LEMMA ChangingAre ==
    /\ {"text", "video_buffer", "image_buffer", "port", "media"} \subseteq Changing
    /\ Effects \subseteq Changing
    /\ {"text", "video_buffer", "image_buffer"} \subseteq Kinds
    /\ {"add_phone", "ban_named", "birthday", "dev", "count", "config", "mention_list",
        "drive_channel", "add_random", "ban_random", "drive_upload", "exit_by_index"}
         \subseteq Effects
  BY DEF Changing, Events, Kinds, Media, Effects, Keyed, Unkeyed

LEMMA GroupsTold ==
    /\ Concludes(Words, {}, AnimalCommand.runs)
    /\ Concludes({"raw"}, {"done"}, FuckCommand.runs)
    /\ Concludes(Words \cup {"port", "media"}, {"done"}, ExtractCommand.runs)
    /\ Concludes({"text", "sticker", "port", "media"}, {"done"}, StickerCommand.runs)
    /\ Concludes({"text", "port"}, {"done"}, AdmCommand.runs)
    /\ Concludes({"text", "birthday"}, {"done"}, BirthdayCommand.runs)
    /\ Concludes({"text", "count"}, {"done"}, BorgesCommand.runs)
    /\ Concludes({"text", "dev"}, {"done"}, DevCommand.runs)
    /\ Concludes({"text", "config", "port"}, {"done"}, ConfigCommand.runs)
    /\ Concludes(Changing, {"done"}, AddCommand.runs)
    /\ Concludes(Changing, {}, BanCommand.runs)
    /\ Concludes(Changing, {"done"}, DriveCommand.runs)
    /\ Concludes(Changing, {"done"}, GroupMentionsCommand.runs)
<1> USE AndThen, Else, Caught, Either, Weaker, Repeating, Returning, Basics, Answering, Fetching,
        ErrorsAre DEF Cmd
<1>1. Concludes(Words, {}, AnimalCommand.runs)
  <2>1. Goes(Words, {}, Translate)
    BY DEF Translate
  <2> QED
    BY <2>1, WordsAre DEF AnimalCommand, Apologising, RateLimited
<1>k. {"raw", "sticker", "text"} \subseteq Kinds
  BY DEF Kinds, Media
<1>e. {"raw"} \cap Effects = {} /\ {"birthday", "count", "dev", "config"} \subseteq Effects
  BY DEF Effects, Keyed, Unkeyed
<1>2. Concludes({"raw"}, {"done"}, FuckCommand.runs)
  BY <1>k, <1>e DEF FuckCommand, RedGifs
<1>3. Concludes(Words \cup {"port", "media"}, {"done"}, ExtractCommand.runs)
  <2>1. {"text", "video_buffer", "image_buffer"} \subseteq (Words \cup {"port", "media"}) \cap Kinds
    BY WordsAre
  <2> QED
    BY <2>1, Reaching DEF ExtractCommand, Apologising
<1>4. Concludes({"text", "sticker", "port", "media"}, {"done"}, StickerCommand.runs)
  <2> DEFINE V == {"text", "sticker", "port", "media"}
  <2>1. "text" \in V \cap Kinds /\ "sticker" \in V \cap Kinds /\ "port" \in V /\ "media" \in V
    BY <1>k
  <2> HIDE DEF V
  <2>2. Goes(V, {"done"}, StickerCreator) /\ Goes(V, {"done"}, GetMedia)
    BY <2>1, Reaching DEF StickerCreator
  <2> QED
    BY <2>1, <2>2 DEF StickerCommand, V
<1>5. Concludes({"text", "port"}, {"done"}, AdmCommand.runs)
  BY <1>k, Reaching DEF AdmCommand, GroupMetadata
<1>6. Concludes({"text", "birthday"}, {"done"}, BirthdayCommand.runs)
  BY <1>k, <1>e, Writing DEF BirthdayCommand
<1>7. Concludes({"text", "count"}, {"done"}, BorgesCommand.runs)
  BY <1>k, <1>e, Writing DEF BorgesCommand
<1>8. Concludes({"text", "dev"}, {"done"}, DevCommand.runs)
  BY <1>k, <1>e, Writing DEF DevCommand
<1>9. Concludes({"text", "config", "port"}, {"done"}, ConfigCommand.runs)
  BY <1>k, <1>e, Writing, Reaching DEF ConfigCommand, Authorized, ConfigEditor
<1>10. Goes(Changing, {"done"}, AdminsOnly) /\ Goes(Changing, {}, AdminsOnly)
  BY ChangingAre, Reaching DEF AdminsOnly, GroupMetadata
<1>11. Concludes(Changing, {"done"}, AddCommand.runs)
  BY <1>10, ChangingAre, Writing, Reaching DEF AddCommand, AddRandomPhone, AddPhone, OnWhatsApp
<1>12. Concludes(Changing, {}, BanCommand.runs)
  BY <1>10, ChangingAre, Writing DEF BanCommand, BanRandom, BanMentioned
<1>13. Concludes(Changing, {"done"}, DriveCommand.runs)
  BY ChangingAre, Writing, Reaching DEF DriveCommand, DiscordUpload
<1>14. Concludes(Changing, {"done"}, GroupMentionsCommand.runs)
  BY ChangingAre, Writing DEF GroupMentionsCommand, MentionService
<1> QED
  BY <1>1, <1>2, <1>3, <1>4, <1>5, <1>6, <1>7, <1>8, <1>9, <1>11, <1>12, <1>13, <1>14

-----------------------------------------------------------------------------
(***************************************************************************)
(* What must not be repeated is done once in a run: a run is made of a     *)
(* rare part, with one such effect at most, and parts free of them.        *)
(***************************************************************************)

Free(P) == Seeks(Events \ Unkeyed, {}, P)
Rare(P) == P \subseteq {r \in Disciplined(Events, {}) :
    \A i, j \in DOMAIN r.events : {r.events[i], r.events[j]} \subseteq Unkeyed => i = j}

LEMMA EventsAre ==
    /\ Events \cap Effects # {} /\ (Events \ Unkeyed) \cap Effects # {}
    /\ Unkeyed \subseteq Events \cap Effects
    /\ {"text", "port", "media"} \subseteq Events \ Unkeyed /\ "text" \in Kinds
    /\ {"add_phone", "ban_named", "mention_list", "drive_channel"}
         \subseteq (Events \ Unkeyed) \cap Effects
    /\ {"add_random", "ban_random", "drive_upload", "exit_by_index"} = Unkeyed
  BY DEF Events, Kinds, Media, Effects, Keyed, Unkeyed

LEMMA FreeRare == ASSUME NEW P, Free(P) PROVE Rare(P)
<1> SUFFICES ASSUME NEW r \in P
             PROVE  /\ r \in Disciplined(Events, {})
                    /\ \A i \in DOMAIN r.events : r.events[i] \notin Unkeyed
  BY DEF Rare
<1>1. r \in Disciplined(Events \ Unkeyed, {})
  BY DEF Free, Seeks
<1>2. r.events \in Seq(Events \ Unkeyed) /\ r.events \in Seq(Events)
  BY <1>1 DEF Disciplined
<1> QED
  BY <1>1, <1>2, EventsAre DEF Disciplined

LEMMA RareJoined ==
    ASSUME NEW P, NEW Q, Rare(P), Rare(Q), Free(P) \/ Free(Q), NEW p \in P, NEW q \in Q
    PROVE  Before(p, q) \in {r \in Disciplined(Events, {}) :
              \A i, j \in DOMAIN r.events : {r.events[i], r.events[j]} \subseteq Unkeyed => i = j}
<1> DEFINE s == p.events  t == q.events
<1>1. p \in Disciplined(Events, {}) /\ q \in Disciplined(Events, {})
  BY DEF Rare
<1>2. s \in Seq(Events) /\ t \in Seq(Events)
  BY <1>1 DEF Disciplined
<1>3. /\ \A i, j \in DOMAIN s : {s[i], s[j]} \subseteq Unkeyed => i = j
      /\ \A i, j \in DOMAIN t : {t[i], t[j]} \subseteq Unkeyed => i = j
  BY DEF Rare
<1>4. (\A i \in DOMAIN s : s[i] \notin Unkeyed) \/ (\A i \in DOMAIN t : t[i] \notin Unkeyed)
  <2>1. \/ p \in Disciplined(Events \ Unkeyed, {})
        \/ q \in Disciplined(Events \ Unkeyed, {})
    BY DEF Free, Seeks
  <2>2. s \in Seq(Events \ Unkeyed) \/ t \in Seq(Events \ Unkeyed)
    BY <2>1 DEF Disciplined
  <2> QED
    BY <2>2
<1>5. Before(p, q).events = s \o t
  BY DEF Before
<1>6. Before(p, q) \in Disciplined(Events, {})
  BY <1>1, Joined
<1> HIDE DEF s, t
<1>7. ASSUME NEW i \in DOMAIN (s \o t), NEW j \in DOMAIN (s \o t),
             (s \o t)[i] \in Unkeyed, (s \o t)[j] \in Unkeyed
      PROVE  i = j
  <2>1. /\ i \in DOMAIN s => (s \o t)[i] = s[i]
        /\ j \in DOMAIN s => (s \o t)[j] = s[j]
    BY <1>2, ConcatElements
  <2>2. /\ i \in DOMAIN s \/ i - Len(s) \in DOMAIN t
        /\ j \in DOMAIN s \/ j - Len(s) \in DOMAIN t
    BY <1>2, ConcatElements
  <2>3. i \in Int /\ j \in Int /\ Len(s) \in Int
    BY <1>2
  <2>4. \A k \in DOMAIN t : (s \o t)[Len(s) + k] = t[k]
    BY <1>2, ConcatElements
  <2>5. /\ i \notin DOMAIN s => (s \o t)[i] = t[i - Len(s)]
        /\ j \notin DOMAIN s => (s \o t)[j] = t[j - Len(s)]
    <3>1. Len(s) + (i - Len(s)) = i /\ Len(s) + (j - Len(s)) = j
      BY <2>3
    <3> QED
      BY <2>2, <2>4, <3>1
  <2>6. i \notin DOMAIN s /\ j \notin DOMAIN s => i - Len(s) = j - Len(s)
    BY <1>3, <1>7, <2>2, <2>5
  <2> QED
    BY <1>3, <1>4, <1>7, <2>1, <2>2, <2>3, <2>5, <2>6
<1> QED
  BY <1>5, <1>6, <1>7

LEMMA RareRules ==
    ASSUME NEW P, NEW Q, NEW E
    PROVE  /\ Rare(P) /\ Free(Q) => Rare(P & Q) /\ Rare(Catch(P, E, Q)) /\ Rare(P | Q)
           /\ Free(P) /\ Rare(Q) => Rare(P & Q) /\ Rare(P | Q)
<1>1. ASSUME Rare(P), Rare(Q), Free(P) \/ Free(Q)
      PROVE  Rare(P & Q) /\ Rare(Catch(P, E, Q)) /\ Rare(P | Q)
  <2>1. \A p \in P, q \in Q : Before(p, q) \in {r \in Disciplined(Events, {}) :
           \A i, j \in DOMAIN r.events : {r.events[i], r.events[j]} \subseteq Unkeyed => i = j}
    BY <1>1, RareJoined
  <2> QED
    BY <1>1, <2>1 DEF Rare, &, |, Catch, Continued
<1> QED
  BY <1>1, FreeRare

LEMMA RareEffect ==
    ASSUME NEW e \in Unkeyed
    PROVE  /\ \A x \in Errors \ {"service"} : Rare(Effect(e, x))
           /\ Rare(Write(e)) /\ Rare(Act(e))
<1> DEFINE V == Events \ Unkeyed
<1>1. Rare(Event(e))
  <2> DEFINE once == [events |-> <<e>>, end |-> "on"]
  <2>1. <<e>> \in Seq(Events) /\ DOMAIN <<e>> = {1}
    BY EventsAre
  <2>2. once \in Disciplined(Events, {}) /\ once.events = <<e>>
    BY <2>1 DEF Disciplined
  <2> QED
    BY <2>1, <2>2 DEF Rare, Event
<1>2. \A x \in Errors \ {"service"} : Free(Raise(x))
  BY Basics, Weaker DEF Free
<1>3. ASSUME NEW x \in Errors \ {"service"} PROVE Rare(Effect(e, x))
  <2>1. Rare(Event(e) | Raise(x))
    BY <1>1, <1>2, <1>3, RareRules
  <2>2. Rare(Event(e) & Raise(x))
    BY <1>1, <1>2, <1>3, RareRules
  <2> QED
    BY <2>1, <2>2 DEF Effect, |, Rare
<1>4. Rare(Write(e))
  BY <1>3, ErrorsAre DEF Write
<1>5. Free(Event("port"))
  BY Basics, Weaker, EventsAre DEF Free
<1> QED
  BY <1>3, <1>4, <1>5, RareRules DEF Act

LEMMA FreeParts ==
    /\ Free(AdminsOnly) /\ Free(Answer("text")) /\ Free(MayAnswer("text")) /\ Free(Return)
    /\ Free(Twice(OnWhatsApp)) /\ Free(AddPhone) /\ Free(BanMentioned) /\ Free(Skip) /\ Free(Read)
    /\ Free(MayAnswer("text") & Optional(Say("text")) & AddPhone)
    /\ Free(MentionService(Write("mention_list"))) /\ Free(MentionService(Read))
    /\ Free(Fetch & Optional(Answer("text") | DiscordUpload("drive_channel"))
              & Optional(Answer("text") | DiscordUpload("drive_channel")) & GetMedia)
<1> USE AndThen, Caught, Either, Weaker, Repeating, Returning, Basics, Answering, Fetching,
        ErrorsAre, EventsAre, Reaching, Writing
<1>1. /\ Goes(Events \ Unkeyed, {}, AdminsOnly) /\ Goes(Events \ Unkeyed, {}, Answer("text"))
      /\ Goes(Events \ Unkeyed, {}, MayAnswer("text")) /\ Goes(Events \ Unkeyed, {}, Return)
      /\ Goes(Events \ Unkeyed, {}, Skip) /\ Goes(Events \ Unkeyed, {}, Read)
  BY DEF AdminsOnly, GroupMetadata
<1>2. /\ Goes(Events \ Unkeyed, {}, Twice(OnWhatsApp)) /\ Goes(Events \ Unkeyed, {}, AddPhone)
  BY DEF OnWhatsApp, AddPhone
<1>3. Goes(Events \ Unkeyed, {}, BanMentioned)
  BY DEF BanMentioned
<1>4. Goes(Events \ Unkeyed, {}, MayAnswer("text") & Optional(Say("text")) & AddPhone)
  BY <1>2
<1>5. /\ Goes(Events \ Unkeyed, {}, MentionService(Write("mention_list")))
      /\ Goes(Events \ Unkeyed, {}, MentionService(Read))
  BY DEF MentionService
<1>6. Goes(Events \ Unkeyed, {},
           Fetch & Optional(Answer("text") | DiscordUpload("drive_channel"))
             & Optional(Answer("text") | DiscordUpload("drive_channel")) & GetMedia)
  BY DEF DiscordUpload
<1> QED
  BY <1>1, <1>2, <1>3, <1>4, <1>5, <1>6 DEF Free

LEMMA GroupsRare ==
    Rare(AddCommand.runs) /\ Rare(BanCommand.runs) /\ Rare(DriveCommand.runs)
      /\ Rare(GroupMentionsCommand.runs)
<1> USE RareRules, FreeParts, RareEffect, EventsAre, ErrorsAre
<1>1. Rare(AddCommand.runs)
  <2>1. Rare(AddRandomPhone)
    BY DEF AddRandomPhone
  <2> QED
    BY <2>1 DEF AddCommand, Cmd
<1>2. Rare(BanCommand.runs)
  <2>1. Rare(BanRandom)
    BY DEF BanRandom
  <2> QED
    BY <2>1 DEF BanCommand, Cmd
<1>3. Rare(DriveCommand.runs)
  <2>1. Rare(DiscordUpload("drive_upload"))
    BY DEF DiscordUpload
  <2> QED
    BY <2>1 DEF DriveCommand, Cmd
<1>4. Rare(GroupMentionsCommand.runs)
  <2>1. Rare(Optional(Write("exit_by_index")))
    BY DEF Optional
  <2>2. Rare(MentionService(Read & Optional(Write("exit_by_index"))))
    BY <2>1 DEF MentionService
  <2> QED
    BY <2>2 DEF GroupMentionsCommand, Cmd
<1> QED
  BY <1>1, <1>2, <1>3, <1>4

-----------------------------------------------------------------------------
(***************************************************************************)
(* The catalogue as the rest of the proof knows it.                        *)
(***************************************************************************)

\* A command's runs end for good and tell something, unless it may be silent; they
\* change nothing when one of them may be retried, change nothing unkeyed twice,
\* and show and ask only what the command's marks allow.
Lawful(c, command) ==
    \A r \in command.runs :
      /\ r \in [events: Seq(Events), end: Errors \cup {"done"}]
      /\ \A i, j \in DOMAIN r.events : {r.events[i], r.events[j]} \subseteq Unkeyed => i = j
      /\ r.end = "done" => Tells(r) \/ c \in {"ban", "animal"}
      /\ \A q \in command.runs : q.end = "service" =>
           \A i \in DOMAIN r.events : r.events[i] \notin Effects
      /\ \A i \in DOMAIN r.events :
           /\ r.events[i] = "sticker" => "all" \notin command.marks
           /\ r.events[i] = "port" => "all" \notin command.marks \/ c = "config"
           /\ r.events[i] = "raw" => "show" \notin command.marks

LEMMA Lawfully ==
    ASSUME NEW c, NEW command, NEW V, NEW T,
           Concludes(V, T, command.runs), V \subseteq Events,
           T = {"done"} \/ c \in {"ban", "animal"},
           V \cap Unkeyed = {} \/ Rare(command.runs),
           "sticker" \in V => "all" \notin command.marks,
           "port" \in V => "all" \notin command.marks \/ c = "config",
           "raw" \in V => "show" \notin command.marks
    PROVE  Lawful(c, command)
<1>1. ASSUME NEW r \in command.runs
      PROVE  /\ r \in Disciplined(V, T) /\ r.events \in Seq(V) /\ r.end \in Errors \cup {"done"}
             /\ r = [events |-> r.events, end |-> r.end]
             /\ \A i \in DOMAIN r.events : r.events[i] \in V
             /\ r.end \in T \cap {"done"} => Tells(r)
             /\ r.end = "service" => V \cap Effects = {}
  <2>1. r \in Disciplined(V, T) /\ r.end \notin {"on", "none"}
    BY DEF Concludes
  <2>2. /\ r \in [events: Seq(V), end: Errors \cup {"on", "none", "done"}]
        /\ r.end \in T \cap {"done"} => Tells(r)
        /\ r.end = "service" => V \cap Effects = {}
    BY <2>1 DEF Disciplined
  <2>3. \A s \in Seq(V) : \A i \in DOMAIN s : s[i] \in V
    OBVIOUS
  <2> QED
    BY <2>1, <2>2, <2>3
<1>2. Seq(V) \subseteq Seq(Events)
  OBVIOUS
<1>3. ASSUME NEW r \in command.runs
      PROVE  r \in [events: Seq(Events), end: Errors \cup {"done"}]
  BY <1>1, <1>2
<1>4. ASSUME NEW r \in command.runs
      PROVE  \A i, j \in DOMAIN r.events : {r.events[i], r.events[j]} \subseteq Unkeyed => i = j
  BY <1>1 DEF Rare
<1> QED
  BY <1>1, <1>3, <1>4 DEF Lawful

\* Every command is in one table only.
LEMMA Registered ==
    \A table \in Tables : \A c \in DOMAIN table :
      c \in DOMAIN Catalogue /\ Catalogue[c] = table[c]
<1>1. \A t, u \in Tables : t = u \/ DOMAIN t \cap DOMAIN u = {}
  BY DEF Tables, GroupCommandTable, ImageCommandTable, TextCommandTable, FootballCommandTable
<1>2. ASSUME NEW t \in Tables, NEW c \in DOMAIN t
      PROVE  c \in DOMAIN Catalogue /\ Catalogue[c] = t[c]
  <2>1. \A u \in Tables : c \in DOMAIN u => u = t
    BY <1>1, <1>2
  <2>2. (CHOOSE u \in Tables : c \in DOMAIN u) = t
    BY <1>2, <2>1
  <2>3. c \in UNION {DOMAIN u : u \in Tables}
    OBVIOUS
  <2> QED
    BY <2>2, <2>3 DEF Catalogue
<1> QED
  BY <1>2

LEMMA CatalogueLawful ==
    \A c \in DOMAIN Catalogue : Lawful(c, Catalogue[c])
<1>1. ASSUME NEW c, NEW command, Told(command.runs) PROVE Lawful(c, command)
  <2>1. Words \subseteq Events /\ Words \cap Unkeyed = {}
    BY DEF Words, Events, Kinds, Media, Effects, Unkeyed
  <2>2. {"sticker", "raw", "port"} \cap Words = {}
    BY DEF Words, Kinds, Media
  <2> QED
    BY <1>1, <2>1, <2>2, Lawfully DEF Told
<1>2. \A c \in DOMAIN ImageCommandTable : Lawful(c, ImageCommandTable[c])
  <2>1. Lawful("animal", AnimalCommand)
    BY GroupsTold, Lawfully DEF Words, Events, Kinds, Media, Effects, Unkeyed
  <2>2. Lawful("fuck", FuckCommand)
    <3>1. "show" \notin FuckCommand.marks
      BY DEF FuckCommand, Cmd
    <3>2. {"raw"} \subseteq Events /\ {"raw"} \cap Unkeyed = {}
      BY DEF Events, Kinds, Media, Effects, Unkeyed
    <3> QED
      BY <3>1, <3>2, GroupsTold, Lawfully
  <2>3. \A c \in DOMAIN ImageCommandTable :
           \/ c = "animal" /\ ImageCommandTable[c] = AnimalCommand
           \/ c = "fuck" /\ ImageCommandTable[c] = FuckCommand
           \/ Told(ImageCommandTable[c].runs)
    BY ImagesTold DEF ImageCommandTable
  <2> QED
    BY <1>1, <2>1, <2>2, <2>3
<1>3. \A c \in DOMAIN FootballCommandTable : Lawful(c, FootballCommandTable[c])
  <2>1. \A c \in DOMAIN FootballCommandTable : Told(FootballCommandTable[c].runs)
    BY FootballTold DEF FootballCommandTable
  <2> QED
    BY <1>1, <2>1
<1>4. \A c \in DOMAIN TextCommandTable : Lawful(c, TextCommandTable[c])
  <2>1. Lawful("extract", ExtractCommand)
    <3> DEFINE V == Words \cup {"port", "media"}
    <3>1. "all" \notin ExtractCommand.marks
      BY DEF ExtractCommand, Cmd
    <3>2. V \subseteq Events /\ V \cap Unkeyed = {} /\ {"sticker", "raw"} \cap V = {}
      BY DEF Words, Events, Kinds, Media, Effects, Unkeyed
    <3> HIDE DEF V
    <3>3. Concludes(V, {"done"}, ExtractCommand.runs)
      BY GroupsTold DEF V
    <3> QED
      BY <3>1, <3>2, <3>3, Lawfully
  <2>2. Lawful("sticker", StickerCommand)
    <3> DEFINE V == {"text", "sticker", "port", "media"}
    <3>1. "all" \notin StickerCommand.marks
      BY DEF StickerCommand, Cmd
    <3>2. V \subseteq Events /\ V \cap Unkeyed = {} /\ "raw" \notin V
      BY DEF Events, Kinds, Media, Effects, Unkeyed
    <3> HIDE DEF V
    <3>3. Concludes(V, {"done"}, StickerCommand.runs)
      BY GroupsTold DEF V
    <3> QED
      BY <3>1, <3>2, <3>3, Lawfully
  <2>3. \A c \in DOMAIN TextCommandTable :
           \/ c = "extract" /\ TextCommandTable[c] = ExtractCommand
           \/ c = "sticker" /\ TextCommandTable[c] = StickerCommand
           \/ Told(TextCommandTable[c].runs)
    BY WordsTold DEF TextCommandTable
  <2> QED
    BY <1>1, <2>1, <2>2, <2>3
<1>5. \A c \in DOMAIN GroupCommandTable : Lawful(c, GroupCommandTable[c])
  <2>1. Lawful("adm", AdmCommand)
    <3>1. "all" \notin AdmCommand.marks
      BY DEF AdmCommand, Cmd
    <3>2. /\ {"text", "port"} \subseteq Events /\ {"text", "port"} \cap Unkeyed = {}
          /\ {"sticker", "raw"} \cap {"text", "port"} = {}
      BY DEF Events, Kinds, Media, Effects, Unkeyed
    <3> QED
      BY <3>1, <3>2, GroupsTold, Lawfully
  <2>2. /\ Lawful("niver", BirthdayCommand) /\ Lawful("borges", BorgesCommand)
        /\ Lawful("dev", DevCommand)
    <3>1. ASSUME NEW v \in {"birthday", "count", "dev"}
          PROVE  /\ {"text", v} \subseteq Events /\ {"text", v} \cap Unkeyed = {}
                 /\ {"sticker", "raw", "port"} \cap {"text", v} = {}
      BY DEF Events, Kinds, Media, Effects, Keyed, Unkeyed
    <3> QED
      BY <3>1, GroupsTold, Lawfully
  <2>3. Lawful("config", ConfigCommand)
    <3>1. /\ {"text", "config", "port"} \subseteq Events
          /\ {"text", "config", "port"} \cap Unkeyed = {}
          /\ {"sticker", "raw"} \cap {"text", "config", "port"} = {}
      BY DEF Events, Kinds, Media, Effects, Keyed, Unkeyed
    <3> QED
      BY <3>1, GroupsTold, Lawfully
  <2>4. /\ Lawful("add", AddCommand) /\ Lawful("ban", BanCommand)
        /\ Lawful("drive", DriveCommand) /\ Lawful("grupo", GroupMentionsCommand)
    <3>1. Changing \subseteq Events /\ {"sticker", "raw"} \cap Changing = {}
      BY DEF Changing
    <3>2. "all" \notin AddCommand.marks \cup BanCommand.marks \cup DriveCommand.marks
                         \cup GroupMentionsCommand.marks
      BY DEF AddCommand, BanCommand, DriveCommand, GroupMentionsCommand, Cmd
    <3> QED
      BY <3>1, <3>2, GroupsTold, GroupsRare, Lawfully
  <2>5. \A c \in DOMAIN GroupCommandTable :
           <<c, GroupCommandTable[c]>> \in
             {<<"add", AddCommand>>, <<"adm", AdmCommand>>, <<"ban", BanCommand>>,
              <<"niver", BirthdayCommand>>, <<"borges", BorgesCommand>>, <<"dev", DevCommand>>,
              <<"config", ConfigCommand>>, <<"drive", DriveCommand>>,
              <<"grupo", GroupMentionsCommand>>}
    BY DEF GroupCommandTable
  <2> QED
    BY <2>1, <2>2, <2>3, <2>4, <2>5
<1>6. \A table \in Tables : \A c \in DOMAIN table : Lawful(c, table[c])
  BY <1>2, <1>3, <1>4, <1>5 DEF Tables
<1>7. \A c \in DOMAIN Catalogue : \E table \in Tables : c \in DOMAIN table
  BY DEF Catalogue
<1> QED
  BY <1>6, <1>7, Registered

-----------------------------------------------------------------------------
(***************************************************************************)
(* The life of a message.  The invariant says where everything seen so far *)
(* came from, what is allowed for, what has been told, and what the        *)
(* messages of the reply look like.                                        *)
(***************************************************************************)

\* The runs a message can lead to, what happens in them and how they end.
Ways(m) == IF GroupOnlyRejects(m) THEN Answer("text") ELSE Runs(m)
Emitted(m) == {e \in Events : \E r \in Ways(m) : \E i \in DOMAIN r.events : r.events[i] = e}
Endings(m) == {r.end : r \in Ways(m)} \cup {"done"}

FromItsRuns ==
    /\ rest.events \in Seq(Emitted(msg)) /\ rest.end \in Endings(msg)
    /\ done \in Seq(Emitted(msg) \cap Effects)
    /\ ported => "port" \in Emitted(msg)

Batched == phase \in {"admitted", "running"} => left \in 1..Admitted(msg)

\* What is still to come counts against what one delivery of it may do.
Times(s, e) == Cardinality({i \in DOMAIN s : s[i] = e})
Life == Admitted(msg) * (1 + deaths)

Allowed == \A e \in Unkeyed :
    /\ Times(done, e) <= Life
    /\ phase = "arrived" => Times(done, e) + Admitted(msg) <= Life
    /\ phase = "admitted" => Times(done, e) + left <= Life
    /\ phase = "running" =>
         /\ Times(done, e) + (left - 1) <= Life
         /\ (\E i \in DOMAIN rest.events : rest.events[i] = e) => Times(done, e) + left <= Life
         /\ \A i, j \in DOMAIN rest.events : rest.events[i] = e /\ rest.events[j] = e => i = j

\* Something was done, or it is one of the commands that may be silent.
Excused == done # <<>> \/ msg.command \in {"ban", "animal"}

ToldOrDone ==
    /\ phase = "running" /\ rest.end = "done" => said # <<>> \/ Excused \/ Tells(rest)
    /\ phase = "answering" /\ said = <<>> => Excused /\ msg.platform = "whatsapp"
    /\ phase = "answered" /\ seen = <<>> => Excused
    /\ \A i \in DOMAIN said : said[i].kind = "nothing" => Excused
    /\ \A i \in DOMAIN seen : seen[i].kind = "nothing" => Excused

\* A message as the command made it, and as the flags leave it.
Plain(message) ==
    \E k \in Emitted(msg) \cap Kinds : message = Message(k)
Flagged(message) ==
    message.kind \in Media \cup {"raw"} =>
      /\ "dm" \in msg.flags /\ msg.place = "group" => message.to = "sender"
      /\ message.once = ("show" \notin msg.flags)

Shaped ==
    /\ phase = "arrived" => said = <<>>
    /\ phase \in {"admitted", "running"} => \A i \in DOMAIN said : Plain(said[i])
    /\ msg.platform = "whatsapp" =>
         /\ phase = "answering" => \A i \in DOMAIN said : Flagged(said[i])
         /\ phase = "answered" => \A i \in DOMAIN seen : Flagged(seen[i])
    /\ phase = "answering" =>
         \A i \in DOMAIN said : said[i].kind \in (Emitted(msg) \cap Kinds) \cup {"text", "nothing"}
    /\ msg.platform # "whatsapp" /\ msg.route = "handler" =>
         \A i \in DOMAIN seen : seen[i].kind # "unsupported"

Inv ==
    /\ TypeOK /\ Askable(msg)
    /\ FromItsRuns /\ Batched /\ Allowed /\ ToldOrDone /\ Shaped

LEMMA WaysLawful ==
    ASSUME NEW m \in Messages
    PROVE  \A r \in Ways(m) :
             /\ r \in [events: Seq(Events), end: Errors \cup {"done"}]
             /\ \A i, j \in DOMAIN r.events : {r.events[i], r.events[j]} \subseteq Unkeyed => i = j
             /\ r.end = "done" => Tells(r) \/ m.command \in {"ban", "animal"}
<1> DEFINE told == [events |-> <<"text">>, end |-> "done"]
<1>1. Lawful(m.command, Catalogue[m.command])
  BY CatalogueLawful DEF Messages
<1>2. ASSUME GroupOnlyRejects(m)
      PROVE  Ways(m) = {told}
  BY <1>2, Answers DEF Ways
<1>3. /\ told \in [events: Seq(Events), end: Errors \cup {"done"}]
      /\ told.events = <<"text">> /\ DOMAIN <<"text">> = {1} /\ Tells(told)
  <2>1. "text" \in Events /\ "text" \in Kinds
    BY DEF Events, Kinds
  <2>2. <<"text">> \in Seq(Events) /\ 1 \in DOMAIN <<"text">> /\ <<"text">>[1] = "text"
    BY <2>1
  <2> QED
    BY <2>1, <2>2 DEF Tells
<1>4. ~GroupOnlyRejects(m) => Ways(m) \subseteq Catalogue[m.command].runs
  BY DEF Ways, Runs
<1> HIDE DEF told
<1>5. CASE GroupOnlyRejects(m)
  BY <1>2, <1>3, <1>5
<1>6. CASE ~GroupOnlyRejects(m)
  BY <1>1, <1>4, <1>6 DEF Lawful
<1> QED
  BY <1>5, <1>6

LEMMA WaysEmit ==
    ASSUME NEW m \in Messages, NEW r \in Ways(m)
    PROVE  r.events \in Seq(Emitted(m)) /\ r.end \in Endings(m)
<1>1. r.events \in Seq(Events)
  BY WaysLawful
<1>2. \A i \in DOMAIN r.events : r.events[i] \in Emitted(m)
  BY <1>1 DEF Emitted
<1>3. r.events \in Seq(Emitted(m))
  <2> DEFINE s == r.events
  <2> HIDE DEF s
  <2>1. s \in Seq(Events) /\ \A i \in DOMAIN s : s[i] \in Emitted(m)
    BY <1>1, <1>2 DEF s
  <2>2. s \in Seq(Emitted(m))
    BY <2>1
  <2> QED
    BY <2>2 DEF s
<1> QED
  BY <1>3 DEF Endings

LEMMA EmittedLawful ==
    ASSUME NEW m \in Messages, Askable(m)
    PROVE  /\ Emitted(m) \subseteq Events /\ Endings(m) \subseteq Errors \cup {"done"}
           /\ "service" \in Endings(m) => Emitted(m) \cap Effects = {}
           /\ m.platform # "whatsapp" /\ m.route = "handler" =>
                {"sticker", "port"} \cap Emitted(m) = {}
           /\ "show" \in m.flags => "raw" \notin Emitted(m)
<1>1. Lawful(m.command, Catalogue[m.command])
  BY CatalogueLawful DEF Messages
<1>2. Emitted(m) \subseteq Events /\ Endings(m) \subseteq Errors \cup {"done"}
  BY WaysLawful DEF Emitted, Endings
<1>3. CASE GroupOnlyRejects(m)
  <2>1. Ways(m) = {[events |-> <<"text">>, end |-> "done"]}
    BY <1>3, Answers DEF Ways
  <2>2. Emitted(m) \subseteq {"text"} /\ Endings(m) = {"done"}
    <3>1. ASSUME NEW r \in Ways(m), NEW i \in DOMAIN r.events PROVE r.events[i] = "text"
      <4>1. r.events = <<"text">>
        BY <2>1
      <4> QED
        BY <4>1
    <3> QED
      BY <2>1, <3>1 DEF Emitted, Endings
  <2> QED
    BY <1>2, <2>2
<1>4. CASE ~GroupOnlyRejects(m)
  <2>1. Ways(m) = Runs(m) /\ Runs(m) \subseteq Catalogue[m.command].runs
    BY <1>4 DEF Ways, Runs
  <2>2. "service" \in Endings(m) => Emitted(m) \cap Effects = {}
    <3>1. "service" \in Endings(m) => \E q \in Catalogue[m.command].runs : q.end = "service"
      BY <2>1 DEF Endings
    <3> QED
      BY <1>1, <2>1, <3>1 DEF Emitted, Lawful
  <2>3. ASSUME m.platform # "whatsapp", m.route = "handler"
        PROVE  {"sticker", "port"} \cap Emitted(m) = {}
    <3>1. "all" \in Catalogue[m.command].marks
      BY <2>3 DEF Askable, Offered, Marks
    <3>2. m.command = "config" => \A r \in Runs(m) : \A i \in DOMAIN r.events : r.events[i] # "port"
      BY <2>3 DEF Runs
    <3> QED
      BY <1>1, <2>1, <3>1, <3>2 DEF Emitted, Lawful
  <2>4. "show" \in m.flags => "raw" \notin Emitted(m)
    <3>1. "show" \in m.flags => "show" \in Catalogue[m.command].marks
      BY DEF Askable, FlagsOffered, Marks
    <3> QED
      BY <1>1, <2>1, <3>1 DEF Emitted, Lawful
  <2> QED
    BY <1>2, <2>2, <2>3, <2>4
<1> QED
  BY <1>3, <1>4

LEMMA TailElements ==
    ASSUME NEW V, NEW s \in Seq(V), s # <<>>
    PROVE  /\ 1 \in DOMAIN s /\ Head(s) = s[1] /\ Head(s) \in V
           /\ Tail(s) \in Seq(V) /\ (Len(s) # 1 => Tail(s) # <<>>)
           /\ \A i \in DOMAIN Tail(s) : i + 1 \in DOMAIN s /\ i + 1 # 1 /\ Tail(s)[i] = s[i + 1]
           /\ \A i \in DOMAIN s : i = 1 \/ (i - 1 \in DOMAIN Tail(s) /\ Tail(s)[i - 1] = s[i])
<1>1. /\ Tail(s) \in Seq(V) /\ Len(Tail(s)) = Len(s) - 1 /\ Len(s) \in Nat \ {0}
      /\ \A i \in 1..Len(Tail(s)) : Tail(s)[i] = s[i + 1]
  BY HeadTailProperties, EmptySeq
<1>2. DOMAIN s = 1..Len(s) /\ DOMAIN Tail(s) = 1..Len(Tail(s))
  BY <1>1
<1>3. Head(s) = s[1] /\ s[1] \in V
  BY <1>1, <1>2
<1>4. Len(s) # 1 => Tail(s) # <<>>
  BY <1>1
<1>5. \A i \in DOMAIN Tail(s) : i + 1 \in DOMAIN s /\ i + 1 # 1 /\ Tail(s)[i] = s[i + 1]
  BY <1>1, <1>2
<1>6. ASSUME NEW i \in DOMAIN s, i # 1
      PROVE  i - 1 \in DOMAIN Tail(s) /\ Tail(s)[i - 1] = s[i]
  <2>1. i - 1 \in 1..Len(Tail(s)) /\ (i - 1) + 1 = i
    BY <1>1, <1>2, <1>6
  <2> QED
    BY <1>1, <1>2, <2>1
<1> QED
  BY <1>1, <1>2, <1>3, <1>4, <1>5, <1>6

LEMMA AppendElements ==
    ASSUME NEW V, NEW s \in Seq(V), NEW x \in V
    PROVE  /\ Append(s, x) \in Seq(V) /\ Append(s, x) # <<>>
           /\ DOMAIN Append(s, x) = DOMAIN s \cup {Len(s) + 1} /\ Len(s) + 1 \notin DOMAIN s
           /\ \A i \in DOMAIN s : Append(s, x)[i] = s[i]
           /\ Append(s, x)[Len(s) + 1] = x
<1>1. /\ Append(s, x) \in Seq(V) /\ Len(Append(s, x)) = Len(s) + 1
      /\ \A i \in 1..Len(s) : Append(s, x)[i] = s[i]
      /\ Append(s, x)[Len(s) + 1] = x
  BY AppendProperties
<1>2. DOMAIN Append(s, x) = 1..(Len(s) + 1) /\ DOMAIN s = 1..Len(s) /\ Len(s) \in Nat
  BY <1>1
<1>3. 1..(Len(s) + 1) = 1..Len(s) \cup {Len(s) + 1} /\ Len(s) + 1 \notin 1..Len(s)
  BY <1>2
<1>4. Append(s, x) # <<>>
  BY <1>1, <1>2
<1> QED
  BY <1>1, <1>2, <1>3, <1>4

LEMMA TimesNone == ASSUME NEW e PROVE Times(<<>>, e) = 0
<1>1. {i \in DOMAIN <<>> : <<>>[i] = e} = {}
  OBVIOUS
<1> QED
  BY <1>1, FS_EmptySet DEF Times

LEMMA TimesAppend ==
    ASSUME NEW V, NEW s \in Seq(V), NEW x \in V, NEW e
    PROVE  /\ Times(s, e) \in Nat
           /\ Times(Append(s, x), e) = Times(s, e) + (IF x = e THEN 1 ELSE 0)
<1> DEFINE at == {i \in DOMAIN s : s[i] = e}  n == Len(s) + 1
<1>1. IsFiniteSet(at) /\ n \notin at
  <2>1. DOMAIN s = 1..Len(s) /\ Len(s) \in Nat
    OBVIOUS
  <2>2. IsFiniteSet(1..Len(s))
    BY <2>1, FS_Interval
  <2> QED
    BY <2>1, <2>2, FS_Subset
<1>2. Cardinality(at) \in Nat /\ Cardinality(at \cup {n}) = Cardinality(at) + 1
  BY <1>1, FS_AddElement, FS_CardinalityType
<1>3. {i \in DOMAIN Append(s, x) : Append(s, x)[i] = e} = IF x = e THEN at \cup {n} ELSE at
  <2> DEFINE t == Append(s, x)
  <2>1. DOMAIN t = DOMAIN s \cup {n} /\ (\A i \in DOMAIN s : t[i] = s[i]) /\ t[n] = x
    BY AppendElements
  <2> HIDE DEF t, n
  <2> QED
    BY <2>1 DEF t
<1>4. /\ Times(s, e) = Cardinality(at)
      /\ Times(Append(s, x), e) = Cardinality(IF x = e THEN at \cup {n} ELSE at)
  BY <1>3 DEF Times
<1> HIDE DEF at, n
<1> QED
  BY <1>2, <1>4

LEMMA Flagging ==
    ASSUME NEW m \in Messages, NEW s \in Seq(BotMessages)
    PROVE  /\ ApplyFlags(m, s) \in Seq(BotMessages) /\ DOMAIN ApplyFlags(m, s) = DOMAIN s
           /\ s # <<>> => ApplyFlags(m, s) # <<>>
           /\ m.flags = {} => ApplyFlags(m, s) = s
           /\ \A i \in DOMAIN s :
                /\ ApplyFlags(m, s)[i].kind = s[i].kind
                /\ "dm" \in m.flags /\ m.platform = "whatsapp" /\ m.place = "group" =>
                     ApplyFlags(m, s)[i].to = "sender"
                /\ ApplyFlags(m, s)[i].once =
                     (s[i].once /\ ~("show" \in m.flags /\ s[i].kind \in Media))
<1> DEFINE t == ApplyFlags(m, s)
           asked == "dm" \in m.flags /\ m.platform = "whatsapp" /\ m.place = "group"
           Made(x) == [x EXCEPT !.to = IF asked THEN "sender" ELSE @,
                                !.once = @ /\ ~("show" \in m.flags /\ x.kind \in Media)]
<1>1. t = [i \in DOMAIN s |-> Made(s[i])]
  BY DEF ApplyFlags
<1>2. DOMAIN s = 1..Len(s) /\ Len(s) \in Nat /\ \A i \in DOMAIN s : s[i] \in BotMessages
  OBVIOUS
<1>3. ASSUME NEW x \in BotMessages
      PROVE  /\ Made(x) \in BotMessages /\ Made(x).kind = x.kind
             /\ asked => Made(x).to = "sender"
             /\ Made(x).once = (x.once /\ ~("show" \in m.flags /\ x.kind \in Media))
             /\ m.flags = {} => Made(x) = x
  <2>1. /\ x = [kind |-> x.kind, to |-> x.to, once |-> x.once]
        /\ x.to \in {"chat", "sender"} /\ x.once \in BOOLEAN
        /\ x.kind \in Kinds \cup {"nothing", "unsupported", "link", "raw_buffer"}
    BY DEF BotMessages
  <2>2. \A c \in {"chat", "sender"}, d \in BOOLEAN :
           LET y == [x EXCEPT !.to = c, !.once = d] IN
             y \in BotMessages /\ y.kind = x.kind /\ y.to = c /\ y.once = d
    BY <2>1 DEF BotMessages
  <2>3. Made(x) = [x EXCEPT !.to = IF asked THEN "sender" ELSE x.to,
                            !.once = x.once /\ ~("show" \in m.flags /\ x.kind \in Media)]
    OBVIOUS
  <2>4. /\ (IF asked THEN "sender" ELSE x.to) \in {"chat", "sender"}
        /\ (x.once /\ ~("show" \in m.flags /\ x.kind \in Media)) \in BOOLEAN
    BY <2>1
  <2>5. /\ Made(x) \in BotMessages /\ Made(x).kind = x.kind
        /\ Made(x).to = IF asked THEN "sender" ELSE x.to
        /\ Made(x).once = (x.once /\ ~("show" \in m.flags /\ x.kind \in Media))
    BY <2>2, <2>3, <2>4
  <2>6. ASSUME m.flags = {} PROVE Made(x) = x
    <3>1. Made(x).to = x.to /\ Made(x).once = x.once
      BY <2>1, <2>5, <2>6
    <3> QED
      BY <2>1, <2>5, <3>1 DEF BotMessages
  <2> QED
    BY <2>5, <2>6
<1> HIDE DEF Made
<1>4. t \in [1..Len(s) -> BotMessages]
  BY <1>1, <1>2, <1>3
<1>5. t \in Seq(BotMessages) /\ DOMAIN t = DOMAIN s
  <2>1. Seq(BotMessages) = UNION {[1..n -> BotMessages] : n \in Nat}
    BY SeqDef
  <2> QED
    BY <1>2, <1>4, <2>1
<1>6. m.flags = {} => t = s
  BY <1>1, <1>2, <1>3
<1>7. s # <<>> => t # <<>>
  <2>1. s # <<>> => 1 \in DOMAIN s
    BY <1>2
  <2> QED
    BY <1>5, <2>1
<1>8. \A i \in DOMAIN s : t[i] = Made(s[i])
  BY <1>1
<1> HIDE DEF t
<1>9. \A i \in DOMAIN s :
        /\ t[i].kind = s[i].kind
        /\ asked => t[i].to = "sender"
        /\ t[i].once = (s[i].once /\ ~("show" \in m.flags /\ s[i].kind \in Media))
  BY <1>2, <1>3, <1>8
<1> QED
  BY <1>5, <1>6, <1>7, <1>9 DEF t

LEMMA Replying ==
    ASSUME NEW m \in Messages, NEW s \in Seq(BotMessages)
    PROVE  /\ Reply(m, s) \in Seq(BotMessages)
           /\ s # <<>> \/ m.platform = "whatsapp" => Reply(m, s) = s
           /\ s = <<>> /\ m.platform # "whatsapp" => Reply(m, s) = <<Message("nothing")>>
<1>1. Message("nothing") \in BotMessages
  BY DEF Message, BotMessages
<1> QED
  BY <1>1 DEF Reply

LEMMA MessagesAre ==
    /\ Text \in BotMessages /\ Text.kind = "text"
    /\ \A k \in Kinds : Message(k) \in BotMessages /\ Message(k).kind = k
    /\ Message("nothing").kind = "nothing"
  BY DEF Text, Message, BotMessages, Kinds

LEMMA Rendering ==
    ASSUME NEW m \in Messages, NEW message \in BotMessages, NEW r \in Rendered(m, message)
    PROVE  /\ r \in Seq(BotMessages) /\ r # <<>>
           /\ \A i \in DOMAIN r :
                /\ r[i].kind = "nothing" => message.kind = "nothing"
                /\ r[i].kind = "unsupported" => message.kind \in {"sticker", "unsupported"}
<1> DEFINE As(k) == [message EXCEPT !.kind = k]
           Fit(x) == /\ x \in BotMessages
                     /\ x.kind = "nothing" => message.kind = "nothing"
                     /\ x.kind = "unsupported" => message.kind \in {"sticker", "unsupported"}
<1>1. \A k \in Kinds \cup {"nothing", "unsupported", "link", "raw_buffer"} :
        As(k) \in BotMessages /\ As(k).kind = k
  BY DEF BotMessages
<1>2. /\ Fit(message) /\ Fit(As("link")) /\ Fit(As("raw_buffer"))
      /\ Fit(As("image_buffer")) /\ Fit(As("video_buffer")) /\ Fit(As("audio_buffer"))
      /\ message.kind = "sticker" => Fit(As("unsupported"))
      /\ Fit(Text)
  BY <1>1, MessagesAre DEF Kinds, Media
<1>3. message.kind \in {"image", "video", "audio", "raw"} => Fit(As(Buffered[message.kind]))
  <2>1. /\ Buffered["image"] = "image_buffer" /\ Buffered["video"] = "video_buffer"
        /\ Buffered["audio"] = "audio_buffer" /\ Buffered["raw"] = "raw_buffer"
    BY DEF Buffered
  <2> QED
    BY <1>2, <2>1
<1>4. (\E x : Fit(x) /\ r = <<x>>) \/ (\E x, y : Fit(x) /\ Fit(y) /\ r = <<x, y>>)
  <2> HIDE DEF Fit, As
  <2>1. CASE m.platform = "discord"
    <3>1. \/ r \in {<<As("unsupported")>>} /\ message.kind = "sticker"
          \/ r \in {<<As("link")>>, <<As("audio_buffer")>>, <<As("image_buffer")>>, <<message>>}
      BY <2>1 DEF Rendered, As
    <3> QED
      BY <1>2, <3>1
  <2>2. CASE m.platform # "discord"
    <3> DEFINE Loaded == As(Buffered[message.kind])
    <3>1. \/ r \in {<<message>>, <<message, message>>, <<message, Text>>}
          \/ /\ message.kind \in {"image", "video", "audio", "raw"}
             /\ r \in {<<Loaded>>, <<Loaded, Text>>}
      BY <2>2 DEF Rendered, As
    <3> QED
      BY <1>2, <1>3, <3>1
  <2> QED
    BY <2>1, <2>2
<1>5. \A x : Fit(x) => x \in BotMessages
  OBVIOUS
<1>6. ASSUME NEW x, Fit(x), r = <<x>>
      PROVE  r \in Seq(BotMessages) /\ r # <<>> /\ \A i \in DOMAIN r : Fit(r[i])
  <2> HIDE DEF Fit
  <2>1. x \in BotMessages /\ r[1] = x
    BY <1>5, <1>6
  <2>2. <<x>> \in Seq(BotMessages) /\ <<x>> # <<>> /\ DOMAIN <<x>> = {1}
    BY <2>1
  <2> QED
    BY <1>6, <2>1, <2>2
<1>7. ASSUME NEW x, NEW y, Fit(x), Fit(y), r = <<x, y>>
      PROVE  r \in Seq(BotMessages) /\ r # <<>> /\ \A i \in DOMAIN r : Fit(r[i])
  <2> HIDE DEF Fit
  <2>1. x \in BotMessages /\ y \in BotMessages /\ r[1] = x /\ r[2] = y
    BY <1>5, <1>7
  <2>2. <<x, y>> \in Seq(BotMessages) /\ <<x, y>> # <<>> /\ DOMAIN <<x, y>> = {1, 2}
    BY <2>1
  <2> QED
    BY <1>7, <2>1, <2>2
<1>8. r \in Seq(BotMessages) /\ r # <<>> /\ \A i \in DOMAIN r : Fit(r[i])
  <2> HIDE DEF Fit
  <2> QED
    BY <1>4, <1>6, <1>7
<1> QED
  BY <1>8

LEMMA AdmittedIs ==
    ASSUME NEW m \in Messages, Askable(m)
    PROVE  /\ Admitted(m) \in Nat \ {0} /\ Admitted(m) \in 1..MaxBatch
           /\ Admitted(m) # 1 => m.platform = "whatsapp" /\ m.flags = {}
<1>1. m.batch \in 1..MaxBatch /\ m.dev \in BOOLEAN
  BY DEF Messages
<1> QED
  BY <1>1, BoundsAssumption DEF Admitted, Askable

LEMMA Initially == Init => Inv
<1> SUFFICES ASSUME Init PROVE Inv
  OBVIOUS
<1>1. msg \in Messages /\ Askable(msg)
  BY DEF Init
<1>2. TypeOK
  <2>1. /\ 0 \in 0..MaxBatch /\ 0 \in 0..MAX_ATTEMPTS - 1 /\ 0 \in 0..MaxDeaths
        /\ <<>> \in Seq(BotMessages) /\ <<>> \in Seq(Effects)
    BY BoundsAssumption
  <2>2. Answered \in [events: Seq(Events), end: Errors \cup {"done"}]
    BY DEF Answered
  <2> QED
    BY <1>1, <2>1, <2>2 DEF Init, TypeOK
<1>3. FromItsRuns
  <2>1. /\ rest.events = <<>> /\ rest.end = "done" /\ done = <<>> /\ ported = FALSE
    BY DEF Init, Answered
  <2> QED
    BY <2>1 DEF FromItsRuns, Endings
<1>4. Allowed
  <2>1. Admitted(msg) \in Nat /\ Admitted(msg) * (1 + 0) = Admitted(msg)
    BY <1>1, AdmittedIs
  <2> QED
    BY <2>1, TimesNone DEF Init, Allowed, Life
<1>5. Batched /\ ToldOrDone /\ Shaped
  <2>1. /\ phase = "arrived" /\ said = <<>> /\ seen = <<>>
        /\ \A i \in DOMAIN said : FALSE
        /\ \A i \in DOMAIN seen : FALSE
    BY DEF Init
  <2> QED
    BY <2>1 DEF Batched, ToldOrDone, Shaped
<1> QED
  BY <1>1, <1>2, <1>3, <1>4, <1>5 DEF Inv

\* What a step does to the message being handled, whatever it is.
LEMMA TypeStep ==
    ASSUME Inv, [Next]_vars
    PROVE  TypeOK' /\ msg' = msg
<1> USE DEF TypeOK
<1>0. TypeOK /\ msg \in Messages /\ Askable(msg)
  BY DEF Inv
<1>s. /\ said \in Seq(BotMessages) /\ seen \in Seq(BotMessages) /\ done \in Seq(Effects)
      /\ <<>> \in Seq(BotMessages) /\ <<Text>> \in Seq(BotMessages)
      /\ rest \in [events: Seq(Events), end: Errors \cup {"done"}]
      /\ Answered \in [events: Seq(Events), end: Errors \cup {"done"}]
      /\ 0 \in 0..MaxBatch
  BY <1>0, MessagesAre, BoundsAssumption DEF Answered
<1>1. CASE Reject
  BY <1>0, <1>1, <1>s DEF Reject
<1>2. CASE Admit
  <2>1. Admitted(msg) \in 0..MaxBatch
    BY <1>0, AdmittedIs
  <2> QED
    BY <1>0, <1>2, <2>1 DEF Admit
<1>3. CASE AskAdminFails \/ TypingFails
  BY <1>0, <1>3 DEF AskAdminFails, TypingFails
<1>4. CASE BeginRun
  <2>1. rest' \in Ways(msg)
    BY <1>4 DEF BeginRun, Ways
  <2>2. rest' \in [events: Seq(Events), end: Errors \cup {"done"}]
    BY <1>0, <2>1, WaysLawful
  <2> QED
    BY <1>0, <1>4, <2>2 DEF BeginRun
<1>5. CASE Step
  <2> DEFINE s == rest.events  e == Head(s)
  <2>1. s \in Seq(Events) /\ s # <<>>
    BY <1>5, <1>s DEF Step
  <2>2. e \in Events /\ Tail(s) \in Seq(Events)
    BY <2>1, TailElements
  <2>3. rest' = [rest EXCEPT !.events = Tail(s)]
    BY <1>5 DEF Step
  <2>4. rest' \in [events: Seq(Events), end: Errors \cup {"done"}]
    BY <1>s, <2>2, <2>3
  <2>5. said' = (IF e \in Kinds THEN Append(said, Message(e)) ELSE said)
        /\ done' = (IF e \in Effects THEN Append(done, e) ELSE done)
    BY <1>5 DEF Step
  <2>6. said' \in Seq(BotMessages) /\ done' \in Seq(Effects)
    <3> HIDE DEF e
    <3> QED
      BY <1>s, <2>5, MessagesAre, AppendElements
  <2>7. ported' \in BOOLEAN
    BY <1>0, <1>5 DEF Step
  <2> QED
    BY <1>0, <1>5, <1>s, <2>4, <2>6, <2>7 DEF Step
<1>6. CASE EndRun
  <2>1. left' \in 0..MaxBatch
    <3>1. left \in 1..Admitted(msg) /\ left' = left - 1
      BY <1>6 DEF EndRun, Inv, Batched
    <3>2. Admitted(msg) \in 1..MaxBatch
      BY <1>0, AdmittedIs
    <3> QED
      BY <3>1, <3>2, BoundsAssumption
  <2>2. said' \in Seq(BotMessages)
    BY <1>0, <1>6, <1>s, Flagging, Replying DEF EndRun
  <2>3. phase' \in {"admitted", "answering"}
    BY <1>6 DEF EndRun
  <2> QED
    BY <1>0, <1>6, <1>s, <2>1, <2>2, <2>3 DEF EndRun
<1>7. CASE Retry
  <2>1. attempts' \in 0..MAX_ATTEMPTS - 1
    BY <1>0, <1>7, BoundsAssumption DEF Retry, Retries
  <2> QED
    BY <1>0, <1>7, <1>s, <2>1 DEF Retry
<1>8. CASE Apologise
  BY <1>0, <1>8, <1>s DEF Apologise
<1>9. CASE Publish
  BY <1>0, <1>9, <1>s DEF Publish
<1>10. CASE SendNext
  <2>1. PICK r \in Rendered(msg, Head(said)) : seen' = seen \o r
    BY <1>10 DEF SendNext
  <2>2. said # <<>>
    BY <1>10 DEF SendNext, Inv, ToldOrDone
  <2>3. Head(said) \in BotMessages /\ Tail(said) \in Seq(BotMessages)
    BY <1>s, <2>2, TailElements
  <2>4. seen' \in Seq(BotMessages)
    BY <1>0, <1>s, <2>1, <2>3, Rendering, ConcatProperties
  <2>5. phase' \in {"answered", "answering"}
    BY <1>10 DEF SendNext
  <2> QED
    BY <1>0, <1>10, <1>s, <2>3, <2>4, <2>5 DEF SendNext
<1>11. CASE SendFails
  <2>1. Append(seen, Text) \in Seq(BotMessages)
    BY <1>s, MessagesAre, AppendElements
  <2> QED
    BY <1>0, <1>11, <1>s, <2>1 DEF SendFails
<1>12. CASE Die
  <2>1. deaths' \in 0..MaxDeaths /\ phase' \in {"arrived", "lost"}
    BY <1>0, <1>12, BoundsAssumption DEF Die
  <2> QED
    BY <1>0, <1>12, <1>s, <2>1 DEF Die
<1>13. CASE UNCHANGED vars
  BY <1>0, <1>13 DEF vars
<1> QED
  BY <1>1, <1>2, <1>3, <1>4, <1>5, <1>6, <1>7, <1>8, <1>9, <1>10, <1>11, <1>12, <1>13
  DEF Next, Settled

LEMMA FromItsRunsStep ==
    ASSUME Inv, [Next]_vars
    PROVE  FromItsRuns' /\ Batched'
<1>0. /\ TypeOK /\ msg \in Messages /\ Askable(msg) /\ FromItsRuns /\ Batched
      /\ Admitted(msg) \in Nat \ {0}
  BY AdmittedIs DEF Inv, TypeOK
<1>1. msg' = msg
  BY TypeStep
<1>2. SUFFICES ASSUME ~UNCHANGED <<phase, left, rest, done, ported>>
      PROVE  FromItsRuns' /\ Batched'
  BY <1>0, <1>1 DEF FromItsRuns, Batched
<1>3. Answered.events \in Seq(Emitted(msg)) /\ Answered.end \in Endings(msg)
  BY DEF Answered, Endings
<1>4. ASSUME UNCHANGED <<done, ported>>, rest' = rest \/ rest' = Answered
      PROVE  FromItsRuns'
  BY <1>0, <1>1, <1>3, <1>4 DEF FromItsRuns
<1>5. ASSUME phase' \notin {"admitted", "running"} PROVE Batched'
  BY <1>5 DEF Batched
<1>6. CASE Reject \/ AskAdminFails \/ TypingFails \/ Publish \/ SendFails
  BY <1>4, <1>5, <1>6 DEF Reject, AskAdminFails, TypingFails, Publish, SendFails
<1>7. CASE Retry \/ Apologise
  BY <1>4, <1>5, <1>7 DEF Retry, Apologise
<1>8. CASE Die \/ SendNext
  BY <1>4, <1>5, <1>8 DEF Die, SendNext
<1>9. CASE Admit
  BY <1>0, <1>1, <1>4, <1>9 DEF Admit, Batched
<1>10. CASE BeginRun
  <2>1. rest' \in Ways(msg)
    BY <1>10 DEF BeginRun, Ways
  <2>2. rest'.events \in Seq(Emitted(msg)) /\ rest'.end \in Endings(msg)
    BY <1>0, <2>1, WaysEmit
  <2> QED
    BY <1>0, <1>1, <1>10, <2>2 DEF BeginRun, FromItsRuns, Batched
<1>11. CASE Step
  <2> DEFINE s == rest.events  e == Head(s)
  <2>1. s \in Seq(Emitted(msg)) /\ s # <<>>
    BY <1>0, <1>11 DEF Step, FromItsRuns
  <2>2. e \in Emitted(msg) /\ Tail(s) \in Seq(Emitted(msg))
    BY <2>1, TailElements
  <2>3. rest' = [rest EXCEPT !.events = Tail(s)]
    BY <1>11 DEF Step
  <2>4. rest'.events = Tail(s) /\ rest'.end = rest.end
    BY <1>0, <2>3 DEF TypeOK
  <2>5. /\ done' = (IF e \in Effects THEN Append(done, e) ELSE done)
        /\ ported' = (ported \/ e = "port")
    BY <1>11 DEF Step
  <2>6. done' \in Seq(Emitted(msg) \cap Effects) /\ (ported' => "port" \in Emitted(msg))
    <3> HIDE DEF e
    <3> QED
      BY <1>0, <2>2, <2>5, AppendElements DEF FromItsRuns
  <2>7. Batched'
    BY <1>0, <1>1, <1>11 DEF Step, Batched
  <2> QED
    BY <1>0, <1>1, <2>2, <2>4, <2>6, <2>7 DEF FromItsRuns
<1>12. CASE EndRun
  <2>1. FromItsRuns'
    BY <1>4, <1>12 DEF EndRun
  <2>2. phase' = "admitted" => left \in 1..Admitted(msg) /\ left > 1
    BY <1>0, <1>12 DEF EndRun, Batched
  <2>3. left' = left - 1 /\ phase' \in {"admitted", "answering"}
    BY <1>12 DEF EndRun
  <2> QED
    BY <1>0, <1>1, <2>1, <2>2, <2>3 DEF Batched
<1> QED
  BY <1>2, <1>6, <1>7, <1>8, <1>9, <1>10, <1>11, <1>12 DEF Next, Settled, vars

\* Where a retry is asked for nothing was done.
LEMMA Retrying ==
    ASSUME Inv, Retry
    PROVE  done = <<>>
<1>1. rest.end = "service" /\ rest.end \in Endings(msg) /\ msg \in Messages /\ Askable(msg)
  BY DEF Inv, Retry, Retries, FromItsRuns, TypeOK
<1>2. Emitted(msg) \cap Effects = {}
  BY <1>1, EmittedLawful
<1>3. done \in Seq({})
  BY <1>2 DEF Inv, FromItsRuns
<1> QED
  BY <1>3

LEMMA AllowedStep ==
    ASSUME Inv, [Next]_vars
    PROVE  Allowed'
<1>0. /\ TypeOK /\ msg \in Messages /\ Askable(msg) /\ FromItsRuns /\ Batched /\ Allowed
      /\ Admitted(msg) \in Nat \ {0} /\ deaths \in Nat /\ done \in Seq(Effects)
  BY AdmittedIs, BoundsAssumption DEF Inv, TypeOK
<1>1. msg' = msg
  BY TypeStep
<1>l. /\ Life \in Nat /\ Admitted(msg) <= Life
      /\ deaths' = deaths => Life' = Life
      /\ deaths' = deaths + 1 => Life' = Life + Admitted(msg)
  <2>1. \A a, d \in Nat : /\ a * (1 + d) \in Nat /\ a <= a * (1 + d)
                          /\ a * (1 + (d + 1)) = a * (1 + d) + a
    OBVIOUS
  <2> QED
    BY <1>0, <1>1, <2>1 DEF Life
<1> SUFFICES ASSUME NEW e \in Unkeyed
             PROVE  /\ Times(done', e) <= Life'
                    /\ phase' = "arrived" => Times(done', e) + Admitted(msg) <= Life'
                    /\ phase' = "admitted" => Times(done', e) + left' <= Life'
                    /\ phase' = "running" =>
                         /\ Times(done', e) + (left' - 1) <= Life'
                         /\ (\E i \in DOMAIN rest'.events : rest'.events[i] = e) =>
                              Times(done', e) + left' <= Life'
                         /\ \A i, j \in DOMAIN rest'.events :
                              rest'.events[i] = e /\ rest'.events[j] = e => i = j
  BY <1>1 DEF Allowed, Times
<1> DEFINE n == Times(done, e)
<1>n. /\ n \in Nat /\ n <= Life
      /\ phase = "arrived" => n + Admitted(msg) <= Life
      /\ phase = "admitted" => n + left <= Life /\ left \in 1..Admitted(msg)
      /\ phase = "running" =>
           /\ n + (left - 1) <= Life /\ left \in 1..Admitted(msg)
           /\ (\E i \in DOMAIN rest.events : rest.events[i] = e) => n + left <= Life
           /\ \A i, j \in DOMAIN rest.events : rest.events[i] = e /\ rest.events[j] = e => i = j
  <2>1. e \in Effects
    BY DEF Effects
  <2> QED
    BY <1>0, <2>1, TimesAppend DEF Allowed, Batched
<1>d. done' = done => Times(done', e) = n
  OBVIOUS
<1> HIDE DEF n
<1>2. CASE Reject \/ AskAdminFails \/ TypingFails \/ Publish \/ SendNext \/ SendFails \/ Apologise
  <2>1. done' = done /\ deaths' = deaths
    BY <1>2 DEF Reject, AskAdminFails, TypingFails, Publish, SendNext, SendFails, Apologise
  <2>2. phase' \notin {"arrived", "admitted", "running"}
    BY <1>2 DEF Reject, AskAdminFails, TypingFails, Publish, SendNext, SendFails, Apologise
  <2> QED
    BY <1>d, <1>l, <1>n, <2>1, <2>2
<1>3. CASE Admit
  <2>1. /\ done' = done /\ deaths' = deaths /\ phase = "arrived" /\ phase' = "admitted"
        /\ left' = Admitted(msg)
    BY <1>3 DEF Admit
  <2> QED
    BY <1>d, <1>l, <1>n, <2>1
<1>4. CASE BeginRun
  <2>1. /\ done' = done /\ deaths' = deaths /\ phase = "admitted" /\ phase' = "running"
        /\ left' = left /\ rest' \in Ways(msg)
    BY <1>4 DEF BeginRun, Ways
  <2>2. n + (left - 1) <= Life
    BY <1>n, <2>1, <1>l, <1>0
  <2>3. \A i, j \in DOMAIN rest'.events : rest'.events[i] = e /\ rest'.events[j] = e => i = j
    BY <1>0, <2>1, WaysLawful
  <2> QED
    BY <1>d, <1>l, <1>n, <2>1, <2>2, <2>3
<1>5. CASE Step
  <2> DEFINE s == rest.events
  <2>1. /\ deaths' = deaths /\ phase = "running" /\ phase' = "running" /\ left' = left
        /\ rest' = [rest EXCEPT !.events = Tail(s)] /\ s # <<>>
        /\ done' = IF Head(s) \in Effects THEN Append(done, Head(s)) ELSE done
    BY <1>5 DEF Step
  <2>2. s \in Seq(Events) /\ rest'.events = Tail(s)
    BY <1>0, <2>1 DEF TypeOK
  <2> HIDE DEF s
  <2>3. /\ 1 \in DOMAIN s /\ Head(s) = s[1]
        /\ \A i \in DOMAIN Tail(s) : i + 1 \in DOMAIN s /\ i + 1 # 1 /\ Tail(s)[i] = s[i + 1]
        /\ DOMAIN Tail(s) \subseteq Int
    <3>1. Tail(s) \in Seq(Events)
      BY <2>1, <2>2, TailElements
    <3>2. DOMAIN Tail(s) = 1..Len(Tail(s))
      BY <3>1
    <3> QED
      BY <2>1, <2>2, <3>2, TailElements
  <2>4. /\ n + (left - 1) <= Life /\ left \in 1..Admitted(msg)
        /\ (\E i \in DOMAIN s : s[i] = e) => n + left <= Life
        /\ \A i, j \in DOMAIN s : s[i] = e /\ s[j] = e => i = j
    BY <1>n, <2>1 DEF s
  <2>5. \A i, j \in DOMAIN Tail(s) : Tail(s)[i] = e /\ Tail(s)[j] = e => i = j
    <3>1. ASSUME NEW i \in DOMAIN Tail(s), NEW j \in DOMAIN Tail(s),
                 Tail(s)[i] = e, Tail(s)[j] = e
          PROVE  i = j
      <4>1. i + 1 = j + 1
        BY <2>3, <2>4, <3>1
      <4> QED
        BY <2>3, <4>1
    <3> QED
      BY <3>1
  <2>6. CASE Head(s) = e
    <3>1. Times(done', e) = n + 1
      <4>1. e \in Effects
        BY DEF Effects
      <4> QED
        BY <1>0, <2>1, <2>6, <4>1, TimesAppend DEF n
    <3>2. ~\E i \in DOMAIN Tail(s) : Tail(s)[i] = e
      BY <2>3, <2>4, <2>6
    <3>3. n + left <= Life
      BY <2>3, <2>4, <2>6
    <3> QED
      BY <1>0, <1>l, <1>n, <2>1, <2>2, <2>4, <2>5, <3>1, <3>2, <3>3
  <2>7. CASE Head(s) # e
    <3>1. Times(done', e) = n
      BY <1>0, <2>1, <2>7, TimesAppend, <1>n DEF n
    <3>2. (\E i \in DOMAIN Tail(s) : Tail(s)[i] = e) => \E i \in DOMAIN s : s[i] = e
      BY <2>3
    <3> QED
      BY <1>0, <1>l, <1>n, <2>1, <2>2, <2>4, <2>5, <3>1, <3>2
  <2> QED
    BY <2>6, <2>7
<1>6. CASE EndRun
  <2>1. /\ done' = done /\ deaths' = deaths /\ phase = "running" /\ left' = left - 1
        /\ phase' \in {"admitted", "answering"}
    BY <1>6 DEF EndRun
  <2> QED
    BY <1>d, <1>l, <1>n, <2>1
<1>7. CASE Retry
  <2>1. done = <<>>
    BY <1>7, Retrying
  <2>2. n = 0
    BY <2>1, TimesNone DEF n
  <2>3. done' = done /\ deaths' = deaths /\ phase' = "arrived"
    BY <1>7 DEF Retry
  <2> QED
    BY <1>0, <1>d, <1>l, <2>2, <2>3
<1>8. CASE Die
  <2>1. /\ done' = done /\ deaths' = deaths + 1
        /\ phase' \in {"arrived", "lost"}
    BY <1>8 DEF Die
  <2> QED
    BY <1>0, <1>d, <1>l, <1>n, <2>1
<1>9. CASE UNCHANGED vars
  BY <1>9, <1>l, <1>n, <1>d DEF vars
<1> QED
  BY <1>2, <1>3, <1>4, <1>5, <1>6, <1>7, <1>8, <1>9 DEF Next, Settled

LEMMA ToldOrDoneStep ==
    ASSUME Inv, [Next]_vars
    PROVE  ToldOrDone'
<1>0. /\ TypeOK /\ msg \in Messages /\ Askable(msg) /\ FromItsRuns /\ ToldOrDone /\ Shaped
      /\ said \in Seq(BotMessages) /\ seen \in Seq(BotMessages) /\ done \in Seq(Effects)
      /\ msg' = msg
  BY TypeStep DEF Inv, TypeOK
<1>t. /\ <<Text>> # <<>> /\ \A i \in DOMAIN <<Text>> : <<Text>>[i].kind # "nothing"
      /\ \A i \in DOMAIN <<>> : <<>>[i].kind # "nothing"
  <2>1. DOMAIN <<Text>> = {1} /\ <<Text>>[1] = Text
    OBVIOUS
  <2> QED
    BY <2>1, MessagesAre
<1>e. ASSUME done' = done PROVE Excused' <=> Excused
  BY <1>0, <1>e DEF Excused
<1>1. CASE Reject \/ Apologise
  BY <1>0, <1>1, <1>e, <1>t DEF Reject, Apologise, ToldOrDone
<1>2. CASE Admit \/ AskAdminFails \/ TypingFails
  BY <1>0, <1>2, <1>e DEF Admit, AskAdminFails, TypingFails, ToldOrDone
<1>3. CASE Retry \/ Die
  BY <1>0, <1>3, <1>e, <1>t DEF Retry, Die, ToldOrDone
<1>4. CASE BeginRun
  <2>1. rest' \in Ways(msg)
    BY <1>4 DEF BeginRun, Ways
  <2>2. rest'.end = "done" => Tells(rest') \/ msg.command \in {"ban", "animal"}
    BY <1>0, <2>1, WaysLawful
  <2>3. Tells(rest)' <=> Tells(rest')
    BY DEF Tells
  <2> QED
    BY <1>0, <1>4, <1>e, <2>2, <2>3 DEF BeginRun, ToldOrDone, Excused
<1>5. CASE Step
  <2> DEFINE s == rest.events  e == Head(s)
  <2>1. /\ phase = "running" /\ phase' = "running" /\ seen' = seen
        /\ rest' = [rest EXCEPT !.events = Tail(s)] /\ s # <<>>
        /\ said' = IF e \in Kinds THEN Append(said, Message(e)) ELSE said
        /\ done' = IF e \in Effects THEN Append(done, e) ELSE done
    BY <1>5 DEF Step
  <2>2. s \in Seq(Events) /\ rest'.events = Tail(s) /\ rest'.end = rest.end
    BY <1>0, <2>1 DEF TypeOK
  <2>3. Tells(rest) <=> \E i \in DOMAIN s : s[i] \in Kinds \cup Effects
    BY DEF Tells
  <2>4. Tells(rest') <=> \E i \in DOMAIN Tail(s) : Tail(s)[i] \in Kinds \cup Effects
    BY <2>2 DEF Tells
  <2> HIDE DEF s
  <2>5. Tells(rest) => e \in Kinds \cup Effects \/ Tells(rest')
    <3>1. ASSUME NEW i \in DOMAIN s, s[i] \in Kinds \cup Effects
          PROVE  e \in Kinds \cup Effects \/ Tells(rest')
      <4>1. CASE i = 1
        BY <2>1, <2>2, <3>1, <4>1, TailElements
      <4>2. CASE i # 1
        <5>1. i - 1 \in DOMAIN Tail(s) /\ Tail(s)[i - 1] = s[i]
          BY <2>1, <2>2, <4>2, TailElements
        <5> QED
          BY <2>4, <3>1, <5>1
      <4> QED
        BY <4>1, <4>2
    <3> QED
      BY <2>3, <3>1
  <2> HIDE DEF e
  <2>6. /\ said # <<>> \/ e \in Kinds => said' # <<>>
        /\ done # <<>> \/ e \in Effects => done' # <<>>
    BY <1>0, <2>1, MessagesAre, AppendElements
  <2>7. Excused => Excused'
    BY <1>0, <2>6 DEF Excused
  <2>8. ASSUME rest.end = "done" PROVE said' # <<>> \/ Excused' \/ Tells(rest')
    <3>1. said # <<>> \/ Excused \/ Tells(rest)
      BY <1>0, <2>1, <2>8 DEF ToldOrDone
    <3> QED
      BY <2>5, <2>6, <2>7, <3>1 DEF Excused
  <2>9. \A i \in DOMAIN said' : said'[i].kind = "nothing" => Excused'
    <3>1. CASE e \in Kinds
      <4>1. Message(e) \in BotMessages /\ Message(e).kind # "nothing"
        <5>1. "nothing" \notin Kinds
          BY DEF Kinds, Media
        <5> QED
          BY <3>1, <5>1, MessagesAre
      <4> QED
        BY <1>0, <2>1, <2>7, <3>1, <4>1, AppendElements DEF ToldOrDone
    <3>2. CASE e \notin Kinds
      BY <1>0, <2>1, <2>7, <3>2 DEF ToldOrDone
    <3> QED
      BY <3>1, <3>2
  <2>10. \A i \in DOMAIN seen' : seen'[i].kind = "nothing" => Excused'
    BY <1>0, <2>1, <2>7 DEF ToldOrDone
  <2>11. Tells(rest)' <=> Tells(rest')
    BY DEF Tells
  <2> QED
    BY <2>1, <2>2, <2>8, <2>9, <2>10, <2>11 DEF ToldOrDone
<1>6. CASE EndRun
  <2> DEFINE flagged == ApplyFlags(msg, said)
  <2>1. /\ phase = "running" /\ rest = Answered /\ done' = done /\ seen' = seen /\ rest' = rest
        /\ \/ phase' = "admitted" /\ said' = flagged
           \/ phase' = "answering" /\ said' = Reply(msg, flagged)
    BY <1>6 DEF EndRun
  <2>2. said # <<>> \/ Excused
    <3>1. ~Tells(Answered) /\ Answered.end = "done"
      BY DEF Tells, Answered
    <3> QED
      BY <1>0, <2>1, <3>1 DEF ToldOrDone
  <2>3. flagged \in Seq(BotMessages) /\ (said # <<>> => flagged # <<>>)
    BY <1>0, Flagging
  <2>4. \A i \in DOMAIN flagged : flagged[i].kind = "nothing" => Excused
    BY <1>0, Flagging DEF ToldOrDone
  <2> HIDE DEF flagged
  <2>5. CASE flagged # <<>> \/ msg.platform = "whatsapp"
    <3>1. said' = flagged
      BY <1>0, <2>1, <2>3, <2>5, Replying
    <3> QED
      BY <1>0, <1>e, <2>1, <2>2, <2>3, <2>4, <2>5, <3>1 DEF ToldOrDone
  <2>6. CASE flagged = <<>> /\ msg.platform # "whatsapp"
    <3>1. phase' = "admitted" \/ (phase' = "answering" /\ said' = <<Message("nothing")>>)
      BY <1>0, <2>1, <2>3, <2>6, Replying
    <3>2. Excused /\ <<Message("nothing")>> # <<>>
      BY <2>2, <2>3, <2>6
    <3> QED
      BY <1>0, <1>e, <2>1, <3>1, <3>2 DEF ToldOrDone
  <2> QED
    BY <2>5, <2>6
<1>7. CASE Publish
  <2>1. /\ phase = "answering" /\ phase' = "answered" /\ seen' = said /\ said' = <<>>
        /\ done' = done
    BY <1>7 DEF Publish
  <2> QED
    BY <1>0, <1>e, <1>t, <2>1 DEF ToldOrDone
<1>8. CASE SendNext
  <2>1. PICK r \in Rendered(msg, Head(said)) : seen' = seen \o r
    BY <1>8 DEF SendNext
  <2>2. /\ phase = "answering" /\ msg.platform # "whatsapp" /\ said # <<>>
        /\ said' = Tail(said) /\ done' = done
        /\ phase' = IF Len(said) = 1 THEN "answered" ELSE phase
    BY <1>0, <1>8 DEF SendNext, ToldOrDone
  <2>3. /\ Head(said) \in BotMessages /\ Head(said) = said[1] /\ 1 \in DOMAIN said
        /\ \A i \in DOMAIN Tail(said) : i + 1 \in DOMAIN said /\ Tail(said)[i] = said[i + 1]
        /\ Len(said) # 1 => Tail(said) # <<>>
    BY <1>0, <2>2, TailElements
  <2>4. /\ r \in Seq(BotMessages) /\ r # <<>>
        /\ \A i \in DOMAIN r : r[i].kind = "nothing" => Excused
    BY <1>0, <2>3, Rendering DEF ToldOrDone
  <2>5. \A i \in DOMAIN said' : said'[i].kind = "nothing" => Excused
    BY <1>0, <2>2, <2>3 DEF ToldOrDone
  <2>6. seen' # <<>> /\ \A i \in DOMAIN seen' : seen'[i].kind = "nothing" => Excused
    <3>1. ASSUME NEW i \in DOMAIN seen', seen'[i].kind = "nothing" PROVE Excused
      <4>1. CASE i \in DOMAIN seen
        BY <1>0, <2>1, <2>4, <3>1, <4>1, ConcatElements DEF ToldOrDone
      <4>2. CASE i \notin DOMAIN seen
        <5>1. i - Len(seen) \in DOMAIN r /\ i > Len(seen)
          BY <1>0, <2>1, <2>4, <3>1, <4>2, ConcatElements
        <5>2. Len(seen) \in Nat /\ i \in Int /\ Len(seen) + (i - Len(seen)) = i
          <6>1. seen \o r \in Seq(BotMessages) /\ i \in DOMAIN (seen \o r)
            BY <1>0, <2>1, <2>4, <3>1, ConcatElements
          <6>2. i \in 1..Len(seen \o r) /\ Len(seen) \in Nat
            BY <1>0, <6>1
          <6> QED
            BY <6>2
        <5>3. seen'[i] = r[i - Len(seen)]
          BY <1>0, <2>1, <2>4, <5>1, <5>2, ConcatElements
        <5> QED
          BY <2>4, <3>1, <5>1, <5>3
      <4> QED
        BY <4>1, <4>2
    <3>2. seen' # <<>>
      <4>1. 1 \in DOMAIN r
        BY <2>4
      <4>2. Len(seen) + 1 \in DOMAIN (seen \o r)
        BY <1>0, <2>4, <4>1, ConcatElements
      <4> QED
        BY <2>1, <4>2
    <3> QED
      BY <3>1, <3>2
  <2> QED
    BY <1>0, <1>e, <2>2, <2>3, <2>5, <2>6 DEF ToldOrDone
<1>9. CASE SendFails
  <2>1. /\ phase' = "lost" /\ said' = <<>> /\ done' = done
        /\ seen' = seen \/ seen' = Append(seen, Text)
    BY <1>9 DEF SendFails
  <2>2. ASSUME NEW i \in DOMAIN seen', seen'[i].kind = "nothing" PROVE Excused
    <3>1. /\ DOMAIN Append(seen, Text) = DOMAIN seen \cup {Len(seen) + 1}
          /\ \A j \in DOMAIN seen : Append(seen, Text)[j] = seen[j]
          /\ Append(seen, Text)[Len(seen) + 1].kind = "text"
      BY <1>0, MessagesAre, AppendElements
    <3> QED
      BY <1>0, <2>1, <2>2, <3>1 DEF ToldOrDone
  <2> QED
    BY <1>e, <1>t, <2>1, <2>2 DEF ToldOrDone
<1>10. CASE UNCHANGED vars
  BY <1>0, <1>10, <1>e DEF vars, ToldOrDone, Tells
<1> QED
  BY <1>1, <1>2, <1>3, <1>4, <1>5, <1>6, <1>7, <1>8, <1>9, <1>10 DEF Next, Settled

LEMMA PlainFlagged ==
    ASSUME TypeOK, Askable(msg), NEW s \in Seq(BotMessages), \A i \in DOMAIN s : Plain(s[i])
    PROVE  /\ \A i \in DOMAIN s : s[i].kind \in Emitted(msg) \cap Kinds
           /\ \A i \in DOMAIN ApplyFlags(msg, s) :
                ApplyFlags(msg, s)[i].kind \in Emitted(msg) \cap Kinds
           /\ msg.platform = "whatsapp" =>
                \A i \in DOMAIN ApplyFlags(msg, s) : Flagged(ApplyFlags(msg, s)[i])
<1> DEFINE t == ApplyFlags(msg, s)
<1>0. msg \in Messages
  BY DEF TypeOK
<1>1. \A i \in DOMAIN s : /\ s[i].kind \in Emitted(msg) \cap Kinds
                          /\ s[i].once = (s[i].kind \in Media \cup {"raw"})
  BY MessagesAre DEF Plain, Message
<1>2. /\ DOMAIN t = DOMAIN s
      /\ \A i \in DOMAIN s :
           /\ t[i].kind = s[i].kind
           /\ "dm" \in msg.flags /\ msg.platform = "whatsapp" /\ msg.place = "group" =>
                t[i].to = "sender"
           /\ t[i].once = (s[i].once /\ ~("show" \in msg.flags /\ s[i].kind \in Media))
  BY <1>0, Flagging
<1> HIDE DEF t
<1>3. "show" \in msg.flags => "raw" \notin Emitted(msg)
  BY <1>0, EmittedLawful
<1>4. ASSUME msg.platform = "whatsapp", NEW i \in DOMAIN t PROVE Flagged(t[i])
  <2>1. i \in DOMAIN s
    BY <1>2
  <2>2. t[i].kind = s[i].kind /\ t[i].kind \in Emitted(msg)
    BY <1>1, <1>2, <2>1
  <2>3. t[i].once = (s[i].kind \in Media \cup {"raw"}
                       /\ ~("show" \in msg.flags /\ s[i].kind \in Media))
    BY <1>1, <1>2, <2>1
  <2>4. t[i].kind \in Media \cup {"raw"} => t[i].once = ("show" \notin msg.flags)
    BY <1>3, <2>2, <2>3
  <2>5. "dm" \in msg.flags /\ msg.place = "group" => t[i].to = "sender"
    BY <1>2, <1>4, <2>1
  <2> QED
    BY <2>4, <2>5 DEF Flagged
<1> QED
  BY <1>1, <1>2, <1>4 DEF t

LEMMA ShapedStep ==
    ASSUME Inv, [Next]_vars
    PROVE  Shaped'
<1>0. /\ TypeOK /\ msg \in Messages /\ Askable(msg) /\ FromItsRuns /\ Batched
      /\ ToldOrDone /\ Shaped
      /\ said \in Seq(BotMessages) /\ seen \in Seq(BotMessages)
      /\ msg' = msg /\ Emitted(msg) \subseteq Events
  BY TypeStep, EmittedLawful DEF Inv, TypeOK
<1> DEFINE Worded == (Emitted(msg) \cap Kinds) \cup {"text", "nothing"}
<1>p. /\ Shaped <=>
           /\ phase = "arrived" => said = <<>>
           /\ phase \in {"admitted", "running"} => \A i \in DOMAIN said : Plain(said[i])
           /\ msg.platform = "whatsapp" =>
                /\ phase = "answering" => \A i \in DOMAIN said : Flagged(said[i])
                /\ phase = "answered" => \A i \in DOMAIN seen : Flagged(seen[i])
           /\ phase = "answering" => \A i \in DOMAIN said : said[i].kind \in Worded
           /\ msg.platform # "whatsapp" /\ msg.route = "handler" =>
                \A i \in DOMAIN seen : seen[i].kind # "unsupported"
      /\ Shaped' <=>
           /\ phase' = "arrived" => said' = <<>>
           /\ phase' \in {"admitted", "running"} => \A i \in DOMAIN said' : Plain(said'[i])
           /\ msg.platform = "whatsapp" =>
                /\ phase' = "answering" => \A i \in DOMAIN said' : Flagged(said'[i])
                /\ phase' = "answered" => \A i \in DOMAIN seen' : Flagged(seen'[i])
           /\ phase' = "answering" => \A i \in DOMAIN said' : said'[i].kind \in Worded
           /\ msg.platform # "whatsapp" /\ msg.route = "handler" =>
                \A i \in DOMAIN seen' : seen'[i].kind # "unsupported"
  BY <1>0 DEF Shaped, Plain, Flagged
<1> HIDE DEF Worded
<1>t. /\ Text.kind \in Worded /\ Flagged(Text) /\ Text.kind # "unsupported"
      /\ Message("nothing").kind \in Worded
      /\ \A i \in DOMAIN <<Text>> : <<Text>>[i] = Text
      /\ \A i \in DOMAIN <<Message("nothing")>> : <<Message("nothing")>>[i] = Message("nothing")
      /\ \A i \in DOMAIN <<>> : FALSE
  BY MessagesAre DEF Worded, Flagged, Media
<1>1. CASE Reject \/ Apologise
  <2>1. phase' = "answering" /\ said' = <<Text>> /\ seen' = seen
    BY <1>1 DEF Reject, Apologise
  <2> QED
    BY <1>0, <1>p, <1>t, <2>1
<1>2. CASE Admit \/ AskAdminFails \/ TypingFails
  <2>1. /\ said' = said /\ seen' = seen
        /\ (phase = "arrived" /\ phase' = "admitted") \/ phase' = "lost"
    BY <1>2 DEF Admit, AskAdminFails, TypingFails
  <2> QED
    BY <1>0, <1>p, <1>t, <2>1
<1>3. CASE Retry \/ Die
  <2>1. seen' = seen /\ said' = <<>> /\ phase' \in {"arrived", "lost"}
    BY <1>3 DEF Retry, Die
  <2> QED
    BY <1>0, <1>p, <2>1
<1>4. CASE BeginRun
  <2>1. said' = said /\ seen' = seen /\ phase = "admitted" /\ phase' = "running"
    BY <1>4 DEF BeginRun
  <2> QED
    BY <1>0, <1>p, <2>1
<1>5. CASE Step
  <2> DEFINE e == Head(rest.events)
  <2>1. /\ phase = "running" /\ phase' = "running" /\ seen' = seen
        /\ said' = IF e \in Kinds THEN Append(said, Message(e)) ELSE said
    BY <1>5 DEF Step
  <2>2. e \in Emitted(msg)
    <3>1. rest.events \in Seq(Emitted(msg)) /\ rest.events # <<>>
      BY <1>0, <1>5 DEF Step, FromItsRuns
    <3> QED
      BY <3>1, TailElements
  <2> HIDE DEF e
  <2>3. e \in Kinds => Plain(Message(e)) /\ Message(e) \in BotMessages
    BY <2>2, MessagesAre DEF Plain
  <2>4. \A i \in DOMAIN said' : Plain(said'[i])
    <3>1. \A i \in DOMAIN said : Plain(said[i])
      BY <1>0, <1>p, <2>1
    <3>2. CASE e \in Kinds
      <4> DEFINE x == Message(e)
      <4>1. x \in BotMessages /\ Plain(x) /\ said' = Append(said, x)
        BY <2>1, <2>3, <3>2
      <4> HIDE DEF x
      <4>2. /\ DOMAIN Append(said, x) = DOMAIN said \cup {Len(said) + 1}
            /\ \A i \in DOMAIN said : Append(said, x)[i] = said[i]
            /\ Append(said, x)[Len(said) + 1] = x
        BY <1>0, <4>1, AppendElements
      <4>3. ASSUME NEW i \in DOMAIN said' PROVE Plain(said'[i])
        <5>1. CASE i \in DOMAIN said
          BY <3>1, <4>1, <4>2, <5>1
        <5>2. CASE i = Len(said) + 1
          BY <4>1, <4>2, <5>2
        <5> QED
          BY <4>1, <4>2, <4>3, <5>1, <5>2
      <4> QED
        BY <4>3
    <3> QED
      BY <2>1, <3>1, <3>2
  <2> QED
    BY <1>0, <1>p, <2>1, <2>4
<1>6. CASE EndRun
  <2> DEFINE flagged == ApplyFlags(msg, said)
  <2>1. /\ phase = "running" /\ seen' = seen /\ left \in 1..Admitted(msg)
        /\ \/ left > 1 /\ phase' = "admitted" /\ said' = flagged
           \/ phase' = "answering" /\ said' = Reply(msg, flagged)
    BY <1>0, <1>6 DEF EndRun, Batched
  <2>2. \A i \in DOMAIN said : Plain(said[i])
    BY <1>0, <1>p, <2>1
  <2>3. left > 1 => flagged = said
    <3>1. left > 1 => Admitted(msg) # 1
      BY <1>0, <2>1, AdmittedIs
    <3> QED
      BY <1>0, <3>1, AdmittedIs, Flagging
  <2>4. /\ flagged \in Seq(BotMessages)
        /\ \A i \in DOMAIN flagged : flagged[i].kind \in Worded
        /\ msg.platform = "whatsapp" => \A i \in DOMAIN flagged : Flagged(flagged[i])
    BY <1>0, <2>2, PlainFlagged, Flagging DEF Worded
  <2> HIDE DEF flagged
  <2>5. phase' = "answering" =>
          said' = flagged \/ (said' = <<Message("nothing")>> /\ msg.platform # "whatsapp")
    BY <1>0, <2>1, <2>4, Replying
  <2> QED
    BY <1>0, <1>p, <1>t, <2>1, <2>2, <2>3, <2>4, <2>5
<1>7. CASE Publish
  <2>1. /\ phase = "answering" /\ phase' = "answered" /\ msg.platform = "whatsapp"
        /\ seen' = said
    BY <1>7 DEF Publish
  <2> QED
    BY <1>0, <1>p, <2>1
<1>8. CASE SendNext
  <2>1. PICK r \in Rendered(msg, Head(said)) : seen' = seen \o r
    BY <1>8 DEF SendNext
  <2>2. /\ phase = "answering" /\ msg.platform # "whatsapp" /\ said # <<>>
        /\ said' = Tail(said)
        /\ phase' \in {"answered", "answering"}
    BY <1>0, <1>8 DEF SendNext, ToldOrDone
  <2>3. /\ Head(said) \in BotMessages /\ Head(said) = said[1] /\ 1 \in DOMAIN said
        /\ \A i \in DOMAIN Tail(said) : i + 1 \in DOMAIN said /\ Tail(said)[i] = said[i + 1]
    BY <1>0, <2>2, TailElements
  <2>4. \A i \in DOMAIN said' : said'[i].kind \in Worded
    BY <1>0, <1>p, <2>2, <2>3
  <2>5. ASSUME msg.route = "handler", NEW i \in DOMAIN seen' PROVE seen'[i].kind # "unsupported"
    <3>1. Head(said).kind \notin {"sticker", "unsupported"}
      <4>1. Head(said).kind \in Worded
        BY <1>0, <1>p, <2>2, <2>3
      <4>2. "sticker" \notin Emitted(msg)
        BY <1>0, <2>2, <2>5, EmittedLawful
      <4> QED
        BY <4>1, <4>2 DEF Worded, Kinds, Media
    <3>2. r \in Seq(BotMessages) /\ \A j \in DOMAIN r : r[j].kind # "unsupported"
      BY <1>0, <2>3, <3>1, Rendering
    <3>3. CASE i \in DOMAIN seen
      <4>1. seen'[i] = seen[i]
        BY <1>0, <2>1, <3>2, <3>3, ConcatElements
      <4> QED
        BY <1>0, <1>p, <2>2, <2>5, <3>3, <4>1
    <3>4. CASE i \notin DOMAIN seen
      <4>1. i - Len(seen) \in DOMAIN r
        BY <1>0, <2>1, <2>5, <3>2, <3>4, ConcatElements
      <4>2. Len(seen) + (i - Len(seen)) = i
        <5>1. seen \o r \in Seq(BotMessages) /\ i \in DOMAIN (seen \o r)
          BY <1>0, <2>1, <2>5, <3>2, ConcatElements
        <5>2. i \in 1..Len(seen \o r) /\ Len(seen) \in Nat
          BY <1>0, <5>1
        <5> QED
          BY <5>2
      <4>3. seen'[i] = r[i - Len(seen)]
        BY <1>0, <2>1, <3>2, <4>1, <4>2, ConcatElements
      <4> QED
        BY <3>2, <4>1, <4>3
    <3> QED
      BY <3>3, <3>4
  <2> QED
    BY <1>0, <1>p, <2>2, <2>4, <2>5
<1>9. CASE SendFails
  <2>1. /\ phase' = "lost" /\ msg.platform # "whatsapp"
        /\ seen' = seen \/ seen' = Append(seen, Text)
    BY <1>9 DEF SendFails
  <2>2. ASSUME msg.route = "handler", NEW i \in DOMAIN seen' PROVE seen'[i].kind # "unsupported"
    <3>1. /\ DOMAIN Append(seen, Text) = DOMAIN seen \cup {Len(seen) + 1}
          /\ \A j \in DOMAIN seen : Append(seen, Text)[j] = seen[j]
          /\ Append(seen, Text)[Len(seen) + 1].kind = "text"
      BY <1>0, MessagesAre, AppendElements
    <3>2. \A j \in DOMAIN seen : seen[j].kind # "unsupported"
      BY <1>0, <1>p, <2>1, <2>2
    <3> QED
      BY <2>1, <2>2, <3>1, <3>2
  <2> QED
    BY <1>p, <2>1, <2>2
<1>10. CASE UNCHANGED vars
  BY <1>0, <1>p, <1>10 DEF vars
<1> QED
  BY <1>1, <1>2, <1>3, <1>4, <1>5, <1>6, <1>7, <1>8, <1>9, <1>10 DEF Next, Settled

LEMMA Always == Spec => []Inv
<1>1. Inv /\ [Next]_vars => Inv'
  <2>1. Inv /\ [Next]_vars => Askable(msg)'
    BY TypeStep DEF Inv
  <2> QED
    BY <2>1, TypeStep, FromItsRunsStep, AllowedStep, ToldOrDoneStep, ShapedStep DEF Inv
<1> QED
  BY <1>1, Initially, PTL DEF Spec

-----------------------------------------------------------------------------
(***************************************************************************)
(* What follows.                                                           *)
(***************************************************************************)

\* Every variable keeps its type, whatever the command and wherever it is asked for:
\* nothing is read from a message that does not exist or rendered as no kind.
THEOREM TypeCorrect == Spec => []TypeOK
  BY Always, PTL DEF Inv

\* The WhatsApp consumer never retries a command that changed something: every
\* command that can raise an ExternalServiceError changes nothing at all.
THEOREM RetriesRepeatNothing == Spec => RetryRepeatsNothing
<1>1. Inv /\ [Next]_vars => [attempts' > attempts => done = <<>>]_vars
  <2> SUFFICES ASSUME Inv, Next, attempts' > attempts PROVE done = <<>>
    BY DEF vars
  <2>1. attempts \in Nat
    BY BoundsAssumption DEF Inv, TypeOK
  <2>2. attempts' # attempts
    BY <2>1
  <2>3. Retry
    BY <2>2 DEF Next, Reject, Admit, AskAdminFails, BeginRun, Step, EndRun, Apologise,
              TypingFails, Publish, SendNext, SendFails, Die, Settled, vars
  <2> QED
    BY <2>3, Retrying
<1> QED
  BY <1>1, Always, PTL DEF Spec, RetryRepeatsNothing

\* However often the message is delivered and however large its batch, an effect that
\* is not the same when repeated happens at most once per run and delivery.
THEOREM EffectsHappenOnce == Spec => []EffectsOncePerLife
<1>1. Inv => EffectsOncePerLife
  BY DEF Inv, Allowed, Life, Times, EffectsOncePerLife, Admitted
<1> QED
  BY <1>1, Always, PTL

\* Nobody is left in silence for whom nothing was done, on any platform.
THEOREM NobodyLeftInSilence == Spec => []SilenceMeansDone
<1>1. Inv => SilenceMeansDone
  BY DEF Inv, ToldOrDone, Excused, SilenceMeansDone
<1> QED
  BY <1>1, Always, PTL

\* The flags of a message hold for everything the chat is sent on WhatsApp.
THEOREM FlagsAreKept == Spec => []FlagsHold
<1>1. Inv => FlagsHold
  BY DEF Inv, Shaped, Flagged, FlagsHold
<1> QED
  BY <1>1, Always, PTL

\* Whatever Discord and Telegram offer can be run without WhatsApp and shown there.
THEOREM OffersAreUsable == Spec => []OfferedMeansUsable
<1>1. Inv => OfferedMeansUsable
  <2> SUFFICES ASSUME Inv, msg.platform # "whatsapp", msg.route = "handler"
               PROVE  ~ported /\ \A i \in DOMAIN seen : seen[i].kind # "unsupported"
    BY DEF OfferedMeansUsable
  <2>1. "port" \notin Emitted(msg)
    BY EmittedLawful DEF Inv, TypeOK
  <2> QED
    BY <2>1 DEF Inv, FromItsRuns, Shaped
<1> QED
  BY <1>1, Always, PTL
==============================================================================

---------------------------- MODULE ImageCommands ----------------------------
(***************************************************************************)
(* The commands that answer with a picture somebody else serves, and the   *)
(* clients they fetch it through.                                          *)
(***************************************************************************)
EXTENDS CommandOutcomes

\* Everything inside try: whatever is raised becomes an apology.
Apologising(P) == Catch(P, Errors, Answer("text"))

Shown == {"all", "show", "dm"}

\* The dictionary, then the web, then the text as it was: only a ValueError escapes.
Translate == Catch(Fetch, {"http"}, Catch(Fetch, {"http"}, Skip))

RateLimited == Fetch | Nothing      \* 429 four times over

\* Nothing at all is answered when the rate limit outlasts the retries.
AnimalCommand == Cmd(Shown, Apologising(
    OrElse(RateLimited, Return)
      & Translate & MayAnswer("text") & Fetch & Answer("image_buffer")))

BeerPage == Fetch & Optional(Raise("service"))

BeerCommand == Cmd(Shown, Apologising(
    Catch(BeerPage, {"http", "other"}, BeerPage) & Answer("image")))

PuppyCommand == Cmd(Shown, Apologising(Fetch & Fetch & Answer("image_buffer")))

FipeClient == Fetch

WikimediaClient == Fetch

Lookup == WikimediaClient | Nothing     \* a page without a thumbnail

\* The model's page, then commons unless only the wiki will do, then the logo.
CarImageFinder ==
    OrElse(Catch(OrElse(Lookup, Lookup | Nothing), {"http", "other"}, Nothing),
           Catch(Lookup, {"http", "other"}, Nothing))

CarCommand == Cmd(Shown, Apologising(
    FipeClient & Optional(FipeClient)
      & OrElse(CarImageFinder, Answer("text"))
      & WikimediaClient & Answer("image_buffer")))

\* A warm cache of a day's age at most, or pages until a short one.
RestCountries == Skip | Twice(Fetch)

CountryFlagCommand == Cmd(Shown,
    Apologising(RestCountries & Compute & Answer("image")))

\* A session is opened once; what goes wrong is an OpggMcpError.
OpggClient == Catch(Optional(Fetch) & Fetch & Optional(Raise("other")),
                    {"http", "other"}, Raise("other"))

\* What the answer lacks or gets wrong is read outside the try.
OpggBuild == Catch(OpggClient, Errors, Nothing) & (Compute | Nothing)

LeagueOfLegendsCommand == Cmd(Shown, Apologising(
    Fetch & Optional(OrElse(OpggBuild, Fetch)) & Answer("image")))

MealRecipesCommand == Cmd(Shown, Apologising(Fetch & Translate & Answer("image")))

OmdbRatings == Catch(Twice(Fetch), Errors, Skip)

MovieSeriesCommand == Cmd(Shown,
    Fetch & Fetch & Optional(OmdbRatings) & Answer("image"))

MusicCommand == Cmd(Shown, Apologising(
    MayAnswer("text") & Fetch & MayAnswer("text")
      & Say("image") & Say("audio") & Return))

MyAnimeListCommand == Cmd(Shown, Fetch & Answer("image"))

\* The token is asked for once and kept, whatever later answers say of it.
IgdbSource == Optional(Fetch) & Fetch & Optional(Raise("service"))

RawgSource == Fetch & Optional(Raise("service"))

\* The chosen sources in turn; each failure moves on to the next.
GameCommand == Cmd(Shown,
    OrElse(Catch(IgdbSource & Answer("image"), Errors, Nothing) | Nothing,
    OrElse(Catch(RawgSource & Answer("image"), Errors, Nothing) | Nothing,
           Answer("text"))))

(***************************************************************************)
(* Cards, one at a time or a booster of them in a grid.                    *)
(***************************************************************************)

CardGrid == Compute

Booster(Items) == Apologising(Items & Fetch & CardGrid & Answer("image_buffer"))

ClashRoyaleCommand == Cmd(Shown,
    Booster(Fetch) | Apologising(Fetch & Answer("image")))

BattleNetToken == Skip | Nothing    \* kept by the class, asked for when absent

HearthstoneCommand == Cmd(Shown,
      Booster(OrElse(BattleNetToken, Raise("service")) & Fetch)
    | OrElse(BattleNetToken, Answer("text"))
        & Fetch & MayAnswer("text") & Answer("image"))

\* Up to five pages until a card with a picture turns up.
MagicCard == Fetch & Optional(Raise("service"))

MagicTheGatheringCommand == Cmd(Shown, Apologising(
    Booster(Fetch & MagicCard) | Fetch & MagicCard & Answer("image")))

PlayingCardCommand == Cmd(Shown, Fetch & Answer("image"))

PokemonCommand == Cmd(Shown, Booster(Fetch) | Fetch & Answer("image_buffer"))

PokemonTCGCommand == Cmd(Shown,
      Booster(Fetch & Optional(Raise("service")))
    | Apologising(Fetch & MayAnswer("text") & Fetch & Answer("image_buffer")))

YugiohCommand == Cmd(Shown, Booster(Fetch) | Fetch & Answer("image"))

(***************************************************************************)
(* Pictures for adults.                                                    *)
(***************************************************************************)

EHentaiScraper == Fetch & Optional(Raise("service"))

HitomiScraper == Fetch & Optional(Raise("service")) & Fetch

NhentaiScraper == Fetch & Optional(Raise("service"))

\* The chosen source, or the first two with the third to fall back on.
HentaiGallery ==
      EHentaiScraper | HitomiScraper | NhentaiScraper
    | Catch(EHentaiScraper, {"http", "service", "other"},
            Catch(HitomiScraper, {"http", "service", "other"}, NhentaiScraper))

\* Three tries: a BotError ends them, anything else and a gallery that may
\* depict minors start the next, and the last error is raised at the end.
HentaiCommand == Cmd({"all", "nsfw", "show", "dm"},
    OrElse(HentaiGallery & (Fetch & Answer("image_buffer") | Nothing),
           Raise("service")))

\* A stale token is replaced once; what points to minors is not drawn.
RedGifs == Optional(Fetch) & Fetch & Optional(Fetch & Fetch)
             & Optional(Raise("service"))

ScrapedVideo == Fetch & Optional(Raise("service")) & Fetch & Optional(Raise("service"))

PornoCommand == Cmd({"all", "nsfw", "show", "dm"},
      MayAnswer("text") & RedGifs & (Answer("video") | Answer("image"))
    | Apologising(ScrapedVideo & Answer("video")))

\* Whatever mentions minors, or carries no tag at all, is no image.
Rule34Page == Catch(Fetch & (Skip | Nothing), {"http"}, Nothing)

Rule34Images == OrElse(Rule34Page, Fetch & Optional(Raise("service")))

Rule34Command == Cmd({"all", "nsfw", "show", "dm"}, Rule34Images & Answer("image"))

\* Only videos are drawn.
FuckCommand == Cmd({"group", "nsfw"}, RedGifs & Answer("raw"))

ImageCommandTable ==
    [ animal |-> AnimalCommand, beer |-> BeerCommand, puppy |-> PuppyCommand,
      car |-> CarCommand, country_flag |-> CountryFlagCommand,
      league_of_legends |-> LeagueOfLegendsCommand,
      meal_recipes |-> MealRecipesCommand, movie_series |-> MovieSeriesCommand,
      music |-> MusicCommand, my_anime_list |-> MyAnimeListCommand,
      game |-> GameCommand, clash_royale |-> ClashRoyaleCommand,
      hearthstone |-> HearthstoneCommand, magic |-> MagicTheGatheringCommand,
      playing_card |-> PlayingCardCommand, pokemon |-> PokemonCommand,
      pokemon_tcg |-> PokemonTCGCommand, yugioh |-> YugiohCommand,
      hentai |-> HentaiCommand, porno |-> PornoCommand,
      rule34 |-> Rule34Command, fuck |-> FuckCommand ]
==============================================================================

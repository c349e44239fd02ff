------------------------------- MODULE MCOffice -------------------------------
(***************************************************************************)
(* Small instances for TLC of the calls about one patent: the calls of     *)
(* Office, or computations of its expiration (Expiration).  The variables  *)
(* of the other stand still.                                               *)
(***************************************************************************)
EXTENDS Office, TLC

CONSTANT Topics        \* what the calls are about

VARIABLES topic,       \* one of them
          world, term, row, edges, computation, faults   \* those of the expiration

\* The file is a page of the second source, saved earlier.
Disagree == [p \in {"file", "uspto", "google"} |-> IF p = "uspto" THEN "Acme" ELSE "Acme Inc"]
Unnamed  == [Disagree EXCEPT !.uspto = NoName]

Transfer(ord, date, names) == [ord |-> ord, date |-> date, names |-> names]

\* None yet; two of one day, the later one to two parties, and a last one to nobody.
TwoChains ==
    {{}, {Transfer(1, 2, {"Bank"}), Transfer(2, 2, {"Bank", "Heir"}), Transfer(3, 1, {"Acme"}),
          Transfer(4, 3, {})}}

Crawls(source, force) == [op |-> "crawl", source |-> source, force |-> force]
Fetches(kind)  == [op |-> "xml", kind |-> kind]
Reads(kind)    == [op |-> "read", kind |-> kind]
Assigns        == [op |-> "assign"]
Clears         == [op |-> "clear"]
Settles(which) == [op |-> "resolve", choice |-> which]

Three(x, y, z) == [c \in Calls |-> IF c = "x" THEN x ELSE IF c = "y" THEN y ELSE z]

In(modes, links, says, calls) == [calls |-> calls, modes |-> modes, links |-> links, says |-> says]

OfficeScenarios ==
    {In({"compare"}, {{"grant"}}, Disagree, Three(Fetches("auto"), Clears, Reads("grant"))),
     In({"compare"}, {{"pgpub"}, {}}, Disagree, Three(Fetches("auto"), Crawls("any", FALSE), Reads("auto"))),
     In({"compare"}, {{"grant"}}, Unnamed, Three(Fetches("grant"), Fetches("grant"), Reads("grant"))),
     In({"compare"}, {{"grant"}}, Disagree, Three(Assigns, Assigns, Crawls("any", TRUE))),
     In(Modes, {{}}, Disagree, Three(Crawls("any", FALSE), Crawls("any", TRUE), Settles("google")))}

(***************************************************************************)
(* The patent's application is 1; 2 and 3 name each other as a parent.     *)
(***************************************************************************)
Row(ord, parent, child, prov) == [ord |-> ord, parent |-> parent, child |-> child, prov |-> prov]

Doc(disclaims, date) == [disclaims |-> disclaims, date |-> date]
Undated  == {Doc(FALSE, 9), Doc(TRUE, 0)}
Disclaimed == {Doc(FALSE, 9), Doc(TRUE, 0), Doc(TRUE, 17), Doc(TRUE, 15)}

World(has, kind, documents, misses, refresh) ==
    has @@ [kind |-> kind, documents |-> documents, faults |-> misses, calls |-> refresh]
           @@ [key |-> TRUE, file |-> FALSE, crawler |-> "none", known |-> {1, 2, 3}, cached |-> TRUE, pte |-> 0]

Extended    == [pte |-> 2]
Unlisted    == [known |-> {1, 3}]
Keyless     == [key |-> FALSE, file |-> TRUE, known |-> {2, 3}]
Unseen(who) == [crawler |-> who, known |-> {2, 3}, cached |-> FALSE]
Nothing     == [crawler |-> "google", known |-> {}, cached |-> FALSE]

Alone(refresh) == [c \in {"x"} |-> refresh]
Both(x, y)     == [c \in {"x", "y"} |-> IF c = "x" THEN x ELSE y]

OfficeWorlds ==
    {World(Extended, "utility", Undated, 2, Alone(TRUE)), World(Extended, "utility", Undated, 0, Both(TRUE, FALSE)),
     World(Unlisted, "design", Disclaimed, 1, Alone(TRUE)), World(Keyless, "utility", Undated, 1, Alone(FALSE)),
     World(Unseen("office") @@ [file |-> TRUE], "utility", Disclaimed, 1, Alone(FALSE)),
     World(Unseen("office"), "utility", Undated, 1, Both(FALSE, FALSE)),
     World(Nothing, "utility", Undated, 2, Alone(TRUE)), World(Nothing, "utility", Undated, 0, Both(FALSE, TRUE))}

Expiring == INSTANCE Expiration WITH
    given <- world, record <- term, call <- computation,
    Calls <- {"x", "y"}, Apps <- 1..4, Own <- 1, Worlds <- OfficeWorlds,
    Filed <- <<8, 6, 5, 3>>, Issued <- <<9, 0, 7, 0>>,
    Lists <- <<{Row(0, 2, 1, FALSE), Row(1, 4, 1, TRUE)}, {Row(0, 3, 2, FALSE)},
               {Row(0, 4, 3, TRUE), Row(1, 2, 3, FALSE)}, {}>>,
    Term <- 20, DesignTerm <- 15, Adjustment <- 1, Extension <- 2

termVars == <<world, term, row, edges, computation, faults>>

TopicInit ==
    /\ topic \in Topics
    /\ Init
    /\ \/ topic = "office" /\ world = 0 /\ term = 0 /\ row = 0 /\ edges = 0
          /\ computation = 0 /\ faults = 0
       \/ topic = "term" /\ Expiring!Init
          /\ given = (CHOOSE s \in Scenarios : TRUE) /\ mode = (CHOOSE m \in given.modes : TRUE)

TopicNext ==
    /\ UNCHANGED topic
    /\ \/ topic = "office" /\ Next /\ UNCHANGED termVars
       \/ topic = "term" /\ Expiring!Next /\ UNCHANGED vars

TopicSpec == TopicInit /\ [][TopicNext]_<<topic, vars, termVars>>

(* What the office said is found again, cleared or overwritten meanwhile or not: the
   text of a file that is there, and of a patent's expiration the date computed and
   the extension; the date is that of its earliest ancestor on file.                *)
AnswersAreKept ==
    /\ BodyIsFoundAgain
    /\ topic = "term" => /\ Expiring!WalkIsTheMinimum
                         /\ Expiring!RecordIsStamped
                         /\ Expiring!ExtensionIsKept
=============================================================================

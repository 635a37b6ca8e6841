---------------------------- MODULE ReplyContent ----------------------------
(***************************************************************************)
(* What ai-service answers: the question and what was said before it make  *)
(* a query, the knowledge base is searched with it while reload jobs run,  *)
(* and the results become the text of the answer, by quoting a chunk or by *)
(* asking the language model.                                              *)
(*                                                                         *)
(* A score is abstracted to whether it is positive: where the code ranks   *)
(* by score, or compares it with a threshold, any outcome is possible.     *)
(***************************************************************************)
EXTENDS Knowledge

CONSTANTS
    PrimaryDoc,     \* knowledge.md
    Asks,           \* the questions: site, text and the recent messages, newest first
    CandidateK,     \* retrievalCandidate
    TopK,           \* rerankTopK
    ContextLines    \* lines of chunks in a prompt (maxPromptContextChars)

VARIABLES
    search,         \* the question that is being answered
    reply           \* the answer on its way to chat-service

vars == <<knowledgeVars, search, reply>>

\* recalled: the recent messages could be read.
Searching == [pc : {"idle", "status", "vector", "merge"}, ask : Asks, recalled : BOOLEAN, query : Text,
              keyword : SUBSET Chunk, vector : SUBSET Chunk]

\* model: the text is the language model's; asked: the model was called; hits: the live files
\* had something about the query; quotes: the chunks the text is taken from.
Reply == [kind : {"none", "smalltalk", "unknown", "direct", "model"}, site : Sites,
          quotes : SUBSET Chunk, asked : BOOLEAN, hits : BOOLEAN]

ASSUME ReplyContentAssumption ==
    /\ Asks \subseteq [site : Sites, question : Text, recent : Seq(Message)]
    /\ \A a \in Asks : /\ a.recent # <<>> /\ a.recent[1].text = a.question
                      /\ \A i \in 2 .. Len(a.recent) : a.recent[i].id # a.recent[1].id
    /\ CandidateK \in Nat \ {0} /\ TopK \in Nat \ {0} /\ ContextLines \in Nat

NoSearch == [pc |-> "idle", ask |-> CHOOSE a \in Asks : TRUE, recalled |-> FALSE, query |-> {},
             keyword |-> {}, vector |-> {}]

NoReply == [kind |-> "none", site |-> CHOOSE s \in Sites : TRUE, quotes |-> {}, asked |-> FALSE, hits |-> FALSE]

Init == KnowledgeInit /\ search = NoSearch /\ reply = NoReply

\* Only the type of the state.
ReplyTypeOK == KnowledgeTypeOK /\ search \in Searching /\ reply \in Reply

----------------------------------------------------------------------------
(* Search *)

\* At most n of S, by whatever the scores say.
Best(S, n) == kSubset(IF Cardinality(S) < n THEN Cardinality(S) ELSE n, S)

CompactKeywordQuery(q) == q \ {"?"}

WordsOf(c) == ChunkWords(c.doc, c)

OfKind(kind, candidates) == {c \in candidates : c.kind = kind}

InferKnowledgeQuestionFieldConcepts(q) == InferQuestionFieldConcepts(q)

\* The query's words, and those that stand for the fields it asks for.
ExtractKeywordFallbackTokens(q) == CompactKeywordQuery(q) \cup InferKnowledgeQuestionFieldConcepts(q)

\* The score is positive: a token is in the chunk's section, text or keywords.
SharesWord(c, q) == ExtractKeywordFallbackTokens(q) \cap WordsOf(c) # {}

\* The fields a fact is about: the section it stands in does not count.
OwnWords(c) == TextWords(c.doc, c)
InferKnowledgeFactFieldConcepts(c) == IF c.kind = "fact" THEN OwnWords(c) \cap Concepts ELSE {}

\* A fact about a field that the query asks for.
ScoreKnowledgeFieldConceptOverlap(c, q) ==
    InferKnowledgeQuestionFieldConcepts(q) \cap InferKnowledgeFactFieldConcepts(c) # {}

Scores(c, q) == SharesWord(c, q) \/ ScoreKnowledgeFieldConceptOverlap(c, q)

\* The live files; none when they cannot be read.
LiveChunks(s) == IF files[s] = NoDir THEN {} ELSE LoadSiteChunks(s)

\* Twice retrievalCandidate of the chunks that score.
KeywordSearchCandidates(s, q) == Best({c \in LiveChunks(s) : Scores(c, q)}, 2 * CandidateK)

IsListSeekingKnowledgeQuestion(q) == q \cap {"list", "star"} # {}

LooksLikeSingleAnswerKnowledgeQuestion(q) ==
    /\ ~IsListSeekingKnowledgeQuestion(q)
    /\ InferKnowledgeQuestionFieldConcepts(q) # {} \/ q \cap Markers # {}

IsShortTopicKnowledgeLookup(q) ==
    /\ Cardinality(CompactKeywordQuery(q)) \in 1 .. ShortText
    /\ ~LooksLikeSingleAnswerKnowledgeQuestion(q)
    /\ "this" \notin q

IsOverviewSeekingKnowledgeQuestion(q) ==
    /\ ~IsListSeekingKnowledgeQuestion(q)
    /\ ~LooksLikeSingleAnswerKnowledgeQuestion(q)
    /\ "intro" \in q \/ IsShortTopicKnowledgeLookup(q)

HasProductNameFact(c) == "name" \in WordsOf(c)

\* A fact that scores may reach the threshold of a strong match.
HasStrongFactCandidateMatch(candidates, q) ==
    IF \E c \in OfKind("fact", candidates) : Scores(c, q) THEN BOOLEAN ELSE {FALSE}

ExtractFAQQuestion(c) == UNION {WordsAt(c.doc, i) : i \in {j \in c.lines : KindOf(c.doc, j) = "question"}}

\* Whether a candidate gets a boost.  An FAQ does whose question holds the query, or is held by
\* it; two words in common are enough too, and may be counted in one shared word.
AuthoritativeCandidateBoost(c, q, factSeeking) ==
    LET query == CompactKeywordQuery(q)
        question == CompactKeywordQuery(ExtractFAQQuestion(c))
        listSeeking == IsListSeekingKnowledgeQuestion(q)
    IN CASE query = {} -> {FALSE}
         [] query # {} /\ c.kind = "faq" ->
              IF question \subseteq query \/ query \subseteq question \/ listSeeking \/ factSeeking THEN {TRUE}
              ELSE IF question \cap query # {} THEN BOOLEAN ELSE {FALSE}
         [] query # {} /\ c.kind = "fact" -> {Scores(c, q) \/ (listSeeking /\ HasProductNameFact(c))}
         [] OTHER -> {~factSeeking /\ IsOverviewSeekingKnowledgeQuestion(q)}

\* The possible sets of candidates that answer without the index: those with a boost, when the
\* query asks for a list, a fact or an overview.
SelectAuthoritativeCandidates(q, candidates) ==
    UNION {IF factSeeking \/ IsListSeekingKnowledgeQuestion(q) \/ IsOverviewSeekingKnowledgeQuestion(q)
           THEN {chosen \in SUBSET candidates :
                   \A c \in candidates : (c \in chosen) \in AuthoritativeCandidateBoost(c, q, factSeeking)}
           ELSE {{}}
             : factSeeking \in IF IsListSeekingKnowledgeQuestion(q) THEN {FALSE}
                               ELSE HasStrongFactCandidateMatch(candidates, q)}

\* Mutant of QdrantSearch: the filter on site_id is forgotten.
QdrantSearchAll(s) == index

\* The points of the site; which are nearest the query is left open.
QdrantSearch(s) == SitePoints(s)

\* The query is embedded and looked up; {}: the embedding or Qdrant failed.
SemanticResults(s) == {{}} \cup Best(QdrantSearch(s), CandidateK)

\* By id: a chunk found twice is one candidate, in any order after the boosts.
MergeSearchCandidates(vector, keyword) == Best(vector \cup keyword, CandidateK)

\* The texts that fit in the reranker's limits, and always one.
BuildRerankInputs(candidates) == (SUBSET candidates) \ {{}}

\* The first TopK in the merged order.
FallbackSearchResults(candidates) == Best(candidates, TopK)

\* Mutant of Reranked: results below the minimum score leave nothing to answer with.
RerankedStrictly(candidates) == Best(candidates, TopK) \cup {{}}

\* The reranker's choice among them; when it fails, or likes nothing, the merged order stands.
Reranked(candidates) ==
    FallbackSearchResults(candidates) \cup UNION {Best(scored, TopK) : scored \in BuildRerankInputs(candidates)}

----------------------------------------------------------------------------
(* From results to a text *)

\* Without the words every question has.
ExtractCompactMatchTokens(t) == CompactQuery(t) \ Markers

ExtractProductName(c) == "name" \in WordsOf(c)

FormatListReply(results) == {c \in results : ExtractProductName(c)}

InferFactFieldConcepts(c) == OwnWords(c) \cap Concepts

ScoreFieldConceptOverlap(t, c) == InferQuestionFieldConcepts(t) \cap InferFactFieldConcepts(c) # {}

\* The facts of which a pair scores, by a word or by its field, if the question has a word to
\* compare; whether the best one passes a threshold is left open.
FormatBestFactReply(t, results) ==
    LET tokens == ExtractCompactMatchTokens(t) IN
    {c \in OfKind("fact", results) :
       tokens # {} /\ (tokens \cap WordsOf(c) # {} \/ ScoreFieldConceptOverlap(t, c))}

MaxOverviewParts == 3

FormatNarrativeOverviewReply(t, results) ==
    IF IsOverviewSeekingQuestion(t) THEN Best(OfKind("narrative", results), MaxOverviewParts) ELSE {{}}

\* The chunks a reply may be taken from without the model; {}: there is no such reply.
BuildDirectKnowledgeReply(t, results) ==
    LET faqs == OfKind("faq", results)
        names == FormatListReply(results)
    IN CASE faqs # {} -> {{c} : c \in faqs}
         [] faqs = {} /\ IsListSeekingQuestion(t) /\ names # {} -> {names}
         [] OTHER -> {{c} : c \in FormatBestFactReply(t, results)}
                        \cup FormatNarrativeOverviewReply(t, results)

LinesOf(chunks) == MapThenSumSet(LAMBDA c : Cardinality(c.lines), chunks)

\* The results that fit in the prompt, best first, up to one that does not.
BuildContext(results) ==
    {context \in SUBSET results :
       /\ LinesOf(context) <= ContextLines
       /\ \/ context = results
          \/ \E c \in results \ context : LinesOf(context \cup {c}) > ContextLines}

\* A file without chunks counts as blank.
LoadPrimaryDocument(s) == {c \in LiveChunks(s) : c.doc = PrimaryDoc}

\* What the model is given: knowledge.md as a whole, or else the results.
BuildKnowledgePromptBody(s, results) ==
    IF LoadPrimaryDocument(s) # {} THEN {LoadPrimaryDocument(s)} ELSE BuildContext(results)

\* An error, or a text that may be blank once its thinking is cut out.
ChatCompletion == {"error", "blank", "text"}

\* A blank text becomes the text that nothing is known; so does an error.
SanitizeModelReply(answer) == IF answer = "text" THEN "model" ELSE "unknown"

\* Without a prompt the model is not asked.
GenerateReply(s, results) ==
    UNION {IF prompt = {} THEN {[kind |-> "unknown", quotes |-> {}, asked |-> FALSE]}
           ELSE {[kind |-> SanitizeModelReply(answer), asked |-> TRUE,
                  quotes |-> IF answer = "text" THEN prompt ELSE {}] : answer \in ChatCompletion}
             : prompt \in BuildKnowledgePromptBody(s, results)}

\* The replies to question a, given the results of the search.
RepliesTo(a, results, hits) ==
    LET direct == BuildDirectKnowledgeReply(a.question, results)
        texts == IF results = {} THEN {[kind |-> "unknown", quotes |-> {}, asked |-> FALSE]}
                 ELSE {[kind |-> "direct", quotes |-> q, asked |-> FALSE] : q \in direct \ {{}}}
                        \cup (IF {} \in direct THEN GenerateReply(a.site, results) ELSE {})
    IN {[kind |-> t.kind, quotes |-> t.quotes, asked |-> t.asked, site |-> a.site, hits |-> hits] : t \in texts}

Answer(results) ==
    /\ search' = NoSearch
    /\ reply' \in RepliesTo(search.ask, results, search.keyword # {})

----------------------------------------------------------------------------
(* processVisitorMessage *)

\* The recent messages, or none when they cannot be read.
LoadRecentConversationMessages(a) == {a.recent, <<>>}

\* Small talk is answered at once.
AskSmallTalk(a) ==
    /\ MatchSmallTalkReply(a.question)
    /\ reply' = [NoReply EXCEPT !.kind = "smalltalk", !.site = a.site]
    /\ UNCHANGED search

\* Up to the keyword candidates: when they answer by themselves the index is not asked.
Ask(a) ==
    /\ ~MatchSmallTalkReply(a.question)
    /\ \E recent \in LoadRecentConversationMessages(a) :
       LET query == BuildSearchQuery(a.question, BuildConversationState(a.question, recent, a.recent[1].id)) IN
       \E keyword \in KeywordSearchCandidates(a.site, query) :
       \E direct \in SelectAuthoritativeCandidates(query, keyword) :
         IF direct = {}
         THEN /\ search' = [NoSearch EXCEPT !.pc = "status", !.ask = a, !.recalled = recent # <<>>,
                                       !.query = query, !.keyword = keyword]
              /\ UNCHANGED reply
         ELSE /\ \E r \in FallbackSearchResults(direct) : reply' \in RepliesTo(a, r, TRUE)
              /\ UNCHANGED search

\* The index is asked only when the site is ready and has chunks.
SearchReadsStatus ==
    /\ search.pc = "status"
    /\ search' = [search EXCEPT !.pc =
                    IF GetStatus(search.ask.site) = "ready" /\ status[search.ask.site].indexed_chunks > 0
                    THEN "vector" ELSE "merge"]
    /\ UNCHANGED reply

\* An embedding or Qdrant failure is logged; the keyword candidates remain.
SemanticSearch ==
    /\ search.pc = "vector"
    /\ \E found \in SemanticResults(search.ask.site) :
         search' = [search EXCEPT !.pc = "merge", !.vector = found]
    /\ UNCHANGED reply

\* The files and the model's answer are read in the same step.
MergeAndRerank ==
    /\ search.pc = "merge"
    /\ \E candidates \in MergeSearchCandidates(search.vector, search.keyword) :
         IF candidates = {} THEN Answer({}) ELSE \E r \in Reranked(candidates) : Answer(r)

\* The message is stored, or not; then the next question is taken (module AutoReply).
CreateReply == reply # NoReply /\ reply' = NoReply /\ UNCHANGED search

ProcessVisitorMessage ==
    \/ search.pc = "idle" /\ reply = NoReply /\ \E a \in Asks : AskSmallTalk(a) \/ Ask(a)
    \/ SearchReadsStatus \/ SemanticSearch \/ MergeAndRerank \/ CreateReply

Next ==
    \/ Reload /\ UNCHANGED <<search, reply>>
    \/ ProcessVisitorMessage /\ UNCHANGED knowledgeVars
    \/ (\E s \in Sites : EditFiles(s)) /\ UNCHANGED <<search, reply>>
    \/ Crash /\ search' = NoSearch /\ reply' = NoReply

Spec == Init /\ [][Next]_vars /\ JobsRun

----------------------------------------------------------------------------
\* When the live files had something about the question, ai-service never says that it does not
\* know without having asked the model, whatever happens to the index, the embedding service or
\* the reranker meanwhile; unless a chunk is longer than a prompt (Manager.Search,
\* processVisitorMessage).
AnswersFromFiles ==
    (\A c \in Chunk : Cardinality(c.lines) <= ContextLines)
      => (reply.kind = "unknown" /\ reply.hits => reply.asked)

\* All sites share one collection, and searches race its rebuilding, yet an answer is taken from
\* the asked site's own chunks, and is taken from some, or given to the model with some
\* (QdrantClient.Search, buildDirectKnowledgeReply, generateReply).
ReplyGrounded ==
    /\ \A c \in reply.quotes : c.site = reply.site
    /\ reply.kind \in {"direct", "model"} => reply.quotes # {}

\* A question of nothing but words that lean on what was said and fields: closed by nothing, or by
\* a particle and its question mark.
OnlyLeans(q) ==
    LET leaning == {"this", "how"} \cup FieldWords IN
    \/ q # {} /\ q \subseteq leaning
    \/ {"ask", "?"} \subseteq q /\ q \subseteq leaning \cup {"ask", "?"}

\* A follow-up of leaning words and fields only is searched with a topic the visitor named before,
\* small talk apart, unless the earlier messages could not be read (buildConversationState,
\* buildSearchQuery).  Not promised for a question mark without a particle, or a particle without
\* one: what stands before it may be taken for the topic.
FollowUpKeepsTopic ==
    LET a == search.ask
        before == {a.recent[i] : i \in 2 .. Len(a.recent)}
        named == {ExtractConversationTopic(m.text) :
                    m \in {n \in before : n.sender = "visitor" /\ ~MatchSmallTalkReply(n.text)}}
    IN search.pc # "idle" /\ OnlyLeans(a.question)
         => \/ ~search.recalled
            \/ named \subseteq {{}}
            \/ \E topic \in named \ {{}} : topic \subseteq search.query
=============================================================================

------------------------------- MODULE Texts -------------------------------
(***************************************************************************)
(* What ai-service reads out of a visitor's message and of the messages    *)
(* before it.  A text is the set of its words; a word of the model stands  *)
(* for the keyword lists of the code: all words for a list, all words that *)
(* introduce, all markers of a question, and so on.  Lengths are counted   *)
(* in words.                                                               *)
(***************************************************************************)
EXTENDS Naturals, Sequences, FiniteSets, SequencesExt

CONSTANTS
    Topics,         \* words for products and subjects
    ShortText,      \* words in a short question (8 runes in the code)
    MaxContext      \* maxStateContextMessages

ASSUME TextsAssumption == ShortText \in Nat /\ MaxContext \in Nat \ {0}

\* Two of the eight fields a question or a fact may be about, by the words that are also subjects
\* too general to be a topic.
Concepts == {"price", "size"}

\* howmuch: asks for a price without being such a word.
FieldWords == Concepts \cup {"howmuch"}

\* In a table: the headers of a column of keys and of a column of values.
GenericColumns == {"item", "content"}

\* list: which ones; intro: tell me about; ask: is it so, the closing particle of a question; how:
\* how about it; what: what, how many; this: it, this one; hello: small talk; generic: product,
\* brand; star: best seller; name: the label of a product's name in a fact.
Words == Topics \cup FieldWords \cup GenericColumns
            \cup {"list", "intro", "ask", "how", "what", "this", "hello", "generic", "star", "name", "?"}
Text == SUBSET Words

Senders == {"visitor", "agent", "ai", "system"}
Message == [id : Nat, sender : Senders, text : Text]

----------------------------------------------------------------------------
(* One question. *)

\* Punctuation goes; spaces and case are not in the model.
CompactQuery(t) == t \ {"?"}

MatchSmallTalkReply(t) == CompactQuery(t) = {"hello"}

IsListSeekingQuestion(t) == t \cap {"list", "star"} # {}

\* The fields that a question's words ask for.
InferQuestionFieldConcepts(t) == (t \cap Concepts) \cup (IF "howmuch" \in t THEN {"price"} ELSE {})

Markers == {"ask", "how", "what"}

LooksLikeDirectAnswerQuestion(t) ==
    /\ ~IsListSeekingQuestion(t)
    /\ "?" \in t \/ InferQuestionFieldConcepts(CompactQuery(t)) # {} \/ t \cap Markers # {}

\* contextualQuestionPattern: words that lean on what was said before.
IsContextual(t) == t \cap ({"this", "ask", "how"} \cup FieldWords) # {}

\* A single word that is too general, or nothing.
LooksGenericTopic(t) == t \in {{}} \cup {{w} : w \in {"generic"} \cup Concepts}

LooksLikeQuestion(t) == t \cap {"ask", "?"} # {}

\* What is left without the opening words and what closes the text.  A closing word goes only
\* when nothing stands behind it, and the punctuation goes last: before a question mark, and a
\* field before a particle, stay.
ExtractConversationTopic(t) ==
    LET opened == t \ {"intro", "this"}
        rest == IF "?" \in t THEN opened \ {"?"}
                ELSE IF "ask" \in t THEN opened \ {"ask"} ELSE opened \ ({"how"} \cup FieldWords)
    IN IF LooksGenericTopic(rest) \/ LooksLikeQuestion(rest) THEN {} ELSE rest

IsShortTopicLookupQuestion(t) ==
    /\ Cardinality(t) <= ShortText
    /\ ~IsListSeekingQuestion(t) /\ ~LooksLikeDirectAnswerQuestion(t) /\ ~IsContextual(t)
    /\ ExtractConversationTopic(t) # {}

HasIntroIntent(t) == "intro" \in t

IsOverviewSeekingQuestion(t) ==
    /\ ~IsListSeekingQuestion(t) /\ ~LooksLikeDirectAnswerQuestion(t)
    /\ HasIntroIntent(t) \/ IsShortTopicLookupQuestion(t)

IsBroadIntroIntent(t) ==
    CompactQuery(t) \ {"intro"} \in {{}, {"generic"}, {"generic", "list"}, {"generic", "what"}}

IsLowSignalContext(t) == CompactQuery(t) = {}

ExtractConversationFocuses(t) == InferQuestionFieldConcepts(CompactQuery(t))

----------------------------------------------------------------------------
(* What was said before: the recent messages, newest first, the current one among them. *)

\* System messages have no role in a prompt.
MapSenderType(sender) == sender # "system"

FormatStateContextLine(m, current) ==
    /\ m.id # current
    /\ MapSenderType(m.sender)
    /\ ~IsLowSignalContext(m.text) /\ ~MatchSmallTalkReply(m.text)

\* The newest lines that count.
CollectRelevantContextLines(recent, current) ==
    LET counting == {i \in DOMAIN recent : FormatStateContextLine(recent[i], current)}
    IN {recent[i] : i \in {j \in counting : Cardinality({k \in counting : k < j}) < MaxContext}}

\* The topic of the visitor's oldest message that has one, unless the question has its own.
BuildConversationState(question, recent, current) ==
    LET said == {i \in DOMAIN recent :
                   FormatStateContextLine(recent[i], current) /\ recent[i].sender = "visitor"}
        named == {i \in said : ExtractConversationTopic(recent[i].text) # {}}
        own == ExtractConversationTopic(question)
    IN [topic |-> IF own # {} THEN own
                  ELSE IF named = {} THEN {} ELSE ExtractConversationTopic(recent[Max(named)].text),
        focuses |-> ExtractConversationFocuses(question)
                      \cup UNION {ExtractConversationFocuses(recent[i].text) : i \in said},
        lines |-> CollectRelevantContextLines(recent, current)]

----------------------------------------------------------------------------
(* The query the knowledge base is searched with. *)

FeaturedSearchTemplate == {"list", "generic", "star"}
IntroSearchTemplate == {"intro", "generic"}

\* A broad question becomes the topic, or a template, with words that find introductions.
RewriteBroadSearchQuery(t, state) ==
    LET topic == ExtractConversationTopic(t) IN
    IF IsContextual(t) \/ LooksLikeDirectAnswerQuestion(t) \/ CompactQuery(t) = {} THEN t
    ELSE IF "star" \in t THEN FeaturedSearchTemplate
    ELSE IF topic # {} /\ (IsShortTopicLookupQuestion(t)
                           \/ (HasIntroIntent(t) /\ Cardinality(t) <= ShortText)) THEN topic \cup {"intro"}
    ELSE IF ~IsBroadIntroIntent(t) THEN t
    ELSE IF state.topic # {} THEN state.topic \cup {"intro", "generic", "size"}
    ELSE IntroSearchTemplate

\* Mutant of ShouldAugmentSearchQuery: only a broad question is put in context.
AugmentBroadOnly(t, state) == state.lines # {} /\ state.topic # {} /\ IsBroadIntroIntent(t)

ShouldAugmentSearchQuery(t, state) ==
    /\ state.lines # {}
    /\ state.topic # {}
    /\ IsBroadIntroIntent(t) \/ (IsContextual(t) /\ ExtractConversationTopic(t) = {})

BuildSearchQuery(t, state) ==
    LET rewritten == RewriteBroadSearchQuery(t, state) IN
    IF rewritten # t THEN rewritten
    ELSE IF ~ShouldAugmentSearchQuery(t, state) THEN t
    ELSE t \cup state.topic \cup state.focuses \cup UNION {m.text : m \in state.lines}
=============================================================================

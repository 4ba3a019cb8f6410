------------------------------- MODULE Letters -------------------------------
(***************************************************************************)
(* How a campaign's letters get their words: the variables of a template,   *)
(* the mapping that says which field fills which, the preview and the       *)
(* preparation that each read template, mapping and customers one after the *)
(* other, and the provider, which takes a letter that fits the template it  *)
(* has then. A template is the set of its variables, and a value is one of  *)
(* the four that tell the conversions apart.                                *)
(***************************************************************************)
EXTENDS Naturals, FiniteSets

CONSTANTS
  Rows,      \* the debts of a campaign
  Texts,     \* the forms that the template takes: sets of variables
  Rules,     \* what a variable may be mapped to
  Contents,  \* what a debt may hold: a value per field
  Budget     \* how often each event may happen

Values == {"blank", "zero", "word", "number"}

\* getMappingFields: a field of the customer, and one of the debt.
Fields == {"fullName", "debtAmount"}

Transformers == {"identity", "identity_last4", "currency", "plainNumber"}
LetterEvents == {"change"}

Variable == [part : {"header", "body", "button"}, button : Nat, number : Nat \ {0}]

\* What the constants have to be.
LettersConstants ==
  /\ Texts \subseteq SUBSET Variable
  /\ Rules \subseteq [field : Fields, transformer : Transformers, fallback : Values]
  /\ Contents \subseteq [Fields -> Values]
  /\ \A e \in LetterEvents : Budget[e] \in Nat

VARIABLES
  meta,      \* the template at the provider
  template,  \* the template as it is stored here
  mapping,   \* the rules that are saved for its variables
  data,      \* per debt: its fields
  glimpse,   \* the preview: its step, what it has read, whom it finds eligible
  job,       \* the preparation: its step, what it has read, the debts ahead of it
  letters,   \* the letters that wait or were sent: per debt its parameters
  fate,      \* per debt: what the provider did, and had, when its letter came
  changed,   \* history: something changed since the preview or the preparation began
  left       \* what remains of Budget

letterState == <<meta, template, mapping, data, glimpse, job, letters, fate, changed>>

NoRules == [v \in {} |-> 0]
Fresh == [at |-> "idle", text |-> {}, rules |-> NoRules, rows |-> {}]

-----------------------------------------------------------------------------
(* Words. *)

\* applyTransformer: keeping the digits of a text without any leaves nothing,
\* and the number of an empty text is zero.
Transformed ==
  [identity       |-> [blank |-> "blank", zero |-> "zero", word |-> "word",  number |-> "number"],
   identity_last4 |-> [blank |-> "blank", zero |-> "zero", word |-> "blank", number |-> "number"],
   currency       |-> [blank |-> "zero",  zero |-> "zero", word |-> "word",  number |-> "number"],
   plainNumber    |-> [blank |-> "zero",  zero |-> "zero", word |-> "blank", number |-> "number"]]

MissingIfBlank(x, rule) ==  \* faulty variant: an amount of zero is an amount
  x = "blank"

\* isMissingValue: a debt is a number above zero.
Missing(x, rule) == x = "blank" \/ (rule.field = "debtAmount" /\ x # "number")

\* resolveRawCustomerValue.
Raw(d, rule) == d[rule.field]

\* resolveMappingValue: the fallback stands for a missing value, and either goes
\* through the transformer.
Resolved(d, rule) ==
  LET raw == Raw(d, rule)
      missing == Missing(raw, rule)
      used == IF missing /\ rule.fallback # "blank" THEN rule.fallback ELSE raw
  IN [value |-> Transformed[rule.transformer][used],
      missing |-> missing /\ rule.fallback = "blank"]

\* buildMappingStatus.
IsComplete(text, rules) == text \subseteq DOMAIN rules

\* resolveTemplateForCustomer: the variables that stay without a value.
Unresolved(text, rules, d) == {v \in text : v \notin DOMAIN rules \/ Resolved(d, rules[v]).missing}

\* valueForVariable: by key, else by part and number, else the placeholder itself.
ValueFor(text, rules, d, v) ==
  LET known == text \intersect DOMAIN rules
      alike == {k \in known : k.part = v.part /\ k.number = v.number}
  IN IF v \in known THEN Resolved(d, rules[v]).value
     ELSE IF alike # {} THEN Resolved(d, rules[CHOOSE k \in alike : TRUE]).value ELSE "placeholder"

\* buildTemplateComponents: a parameter for every variable.
Parameters(text, rules, d) == [v \in text |-> ValueFor(text, rules, d, v)]

\* evaluateCampaignRecipient, what of it depends on template and mapping.
Eligible(text, rules, d) == Unresolved(text, rules, d) = {}

-----------------------------------------------------------------------------
(* The preview and the preparation: template, mapping, customers. *)

PreviewTemplate ==
  /\ glimpse.at = "idle" /\ glimpse' = [Fresh EXCEPT !.at = "mapping", !.text = template]
  /\ changed' = (changed /\ job.at # "idle")
  /\ UNCHANGED <<meta, template, mapping, data, job, letters, fate, left>>

PreviewMapping ==
  /\ glimpse.at = "mapping" /\ glimpse' = [glimpse EXCEPT !.at = "rows", !.rules = mapping]
  /\ UNCHANGED <<meta, template, mapping, data, job, letters, fate, changed, left>>

\* previewBulkTemplate goes through the selection and stores nothing.
PreviewRows ==
  /\ glimpse.at = "rows"
  /\ glimpse' = [glimpse EXCEPT !.at = "shown",
                   !.rows = {r \in Rows : /\ IsComplete(glimpse.text, glimpse.rules)
                                          /\ Unresolved(glimpse.text, glimpse.rules, data[r]) = {}}]
  /\ UNCHANGED <<meta, template, mapping, data, job, letters, fate, changed, left>>

PrepareTemplate ==
  /\ job.at = "idle" /\ job' = [Fresh EXCEPT !.at = "mapping", !.text = template]
  /\ UNCHANGED <<meta, template, mapping, data, glimpse, letters, fate, changed, left>>

\* A mapping that lacks a variable fails the campaign.
PrepareMapping ==
  /\ job.at = "mapping"
  /\ job' = IF IsComplete(job.text, mapping)
            THEN [job EXCEPT !.at = "rows", !.rules = mapping, !.rows = Rows]
            ELSE [job EXCEPT !.at = "failed"]
  /\ UNCHANGED <<meta, template, mapping, data, glimpse, letters, fate, changed, left>>

\* prepareCampaignCustomerBatch; other reasons, which CampaignPrepare models, may
\* leave out a debt that has its values. The parameters are stored with the row.
PrepareRow(r) ==
  /\ job.at = "rows" /\ r \in job.rows
  /\ job' = [job EXCEPT !.rows = @ \ {r}]
  /\ \/ /\ Eligible(job.text, job.rules, data[r])
        /\ letters' = [x \in DOMAIN letters \union {r} |->
                         IF x = r THEN Parameters(job.text, job.rules, data[r]) ELSE letters[x]]
     \/ UNCHANGED letters
  /\ UNCHANGED <<meta, template, mapping, data, glimpse, fate, changed, left>>

\* recipientComponents: what was stored is what is sent. The provider takes what
\* has a text for each variable of the template it has by now.
Fits(params) == DOMAIN params = meta /\ \A v \in meta : params[v] \notin {"blank", "placeholder"}

SendLetter(r) ==
  /\ job.at = "rows" /\ job.rows = {} /\ r \in DOMAIN letters /\ fate[r].at = "none"
  /\ fate' = [fate EXCEPT ![r] = [at |-> IF Fits(letters[r]) THEN "taken" ELSE "refused",
                                  text |-> meta]]
  /\ UNCHANGED <<meta, template, mapping, data, glimpse, job, letters, changed, left>>

-----------------------------------------------------------------------------
(* Others: the template is edited at Meta and fetched, the mapping is saved as a *)
(* whole for variables that the template has, a customer is edited.              *)

Changes ==
  /\ left["change"] > 0 /\ left' = [left EXCEPT !["change"] = @ - 1] /\ changed' = TRUE
  /\ UNCHANGED <<glimpse, job, letters, fate>>

EditTemplate == \E t \in Texts : meta' = t /\ Changes /\ UNCHANGED <<template, mapping, data>>
FetchTemplate == template # meta /\ template' = meta /\ Changes /\ UNCHANGED <<meta, mapping, data>>

SaveMapping ==
  /\ \E S \in SUBSET template : \E rules \in [S -> Rules] : mapping' = rules
  /\ Changes /\ UNCHANGED <<meta, template, data>>

EditRow(r) ==
  /\ \E d \in Contents : data' = [data EXCEPT ![r] = d]
  /\ Changes /\ UNCHANGED <<meta, template, mapping>>

LettersInit ==
  /\ meta \in Texts /\ template = meta
  /\ mapping \in [template -> Rules]
  /\ data \in [Rows -> Contents]
  /\ glimpse = Fresh /\ job = Fresh
  /\ letters = [r \in {} |-> 0] /\ fate = [r \in Rows |-> [at |-> "none", text |-> {}]]
  /\ changed = FALSE /\ left = Budget

LettersNext ==
  \/ PreviewTemplate \/ PreviewMapping \/ PreviewRows
  \/ PrepareTemplate \/ PrepareMapping
  \/ \E r \in Rows : PrepareRow(r) \/ SendLetter(r) \/ EditRow(r)
  \/ EditTemplate \/ FetchTemplate \/ SaveMapping

-----------------------------------------------------------------------------
Erasing == {"identity_last4", "plainNumber"}

\* A letter that was prepared fits: unless the template changed at Meta after the
\* preparation had read it, the provider refuses it only for a text from which a
\* transformer took everything, never for a variable without a text; and no
\* letter claims a debt that is not there. The preview names every debt that the
\* campaign then writes to, unless the template, the mapping or a customer
\* changed after the first of the two began.
LettersFit ==
  \A r \in DOMAIN letters :
    /\ glimpse.at = "shown" /\ ~changed => r \in glimpse.rows
    /\ fate[r].at = "refused" =>
         \/ fate[r].text # job.text
         \/ \E v \in job.text : letters[r][v] = "blank" /\ job.rules[v].transformer \in Erasing
    /\ \A v \in job.text :
         job.rules[v].field = "debtAmount" /\ job.rules[v].fallback = "blank" =>
           letters[r][v] = "number"
=============================================================================

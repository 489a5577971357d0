------------------------------ MODULE Settings ------------------------------
(***************************************************************************)
(* What the application tells the library between two runs, and the XPath  *)
(* functions that read it: rights of groups (group_rights.c), message      *)
(* catalogues (localization.c).  The tables are the maps of DictionaryMap. *)
(***************************************************************************)
EXTENDS Null, Integers, Sequences, FiniteSets, SequencesExt

CONSTANTS Libraries, Groups, Actions, \* of XSLTDefineGroupRights
          Files,                      \* names of PO files
          Words, PlaceholderNames,    \* what texts are made of
          Catalogs,                   \* what a PO file may hold: records with the
                                      \* fields language and messages, a sequence of
                                      \* [id, text, plural], plural a sequence of texts
          Calls,                      \* arguments of ltr:__l and ltr:__ln: [id, n, pairs]
          MaxEdits                    \* bound on the changes to files

\* a text is a sequence of words and of placeholders {name}
Placeholder(name) == [name |-> name]
Pieces == Words \cup {Placeholder(name) : name \in PlaceholderNames}
Texts == Seq(Pieces)

ASSUME SettingsConstants ==
    /\ \A c \in Catalogs :
          c.messages \in Seq([id : Texts, text : Texts, plural : Seq(Texts)])
    /\ \A call \in Calls :
          /\ call.id \in Texts
          /\ call.pairs \in Seq([name : PlaceholderNames, value : Texts])

VARIABLES group_rights,       \* gctx->group_rights
          user_rights,        \* ctx->user_rights, NULL before the first call
          user,               \* model only: library and groups user_rights was made from
          content,            \* the files: a catalogue, or NULL where none can be read
          edits,              \* model only: changes to the files
          cache,              \* localization->cache: the catalogue of each loaded file
          loaded,             \* the list from root_entry
          localization_entry, \* of the context: a file, or NULL
          shown               \* the last text of ltr:__l or ltr:__ln with its call

rightsVars == <<group_rights, user_rights, user>>
poVars == <<content, edits, cache, loaded, localization_entry, shown>>
settingsVars == <<rightsVars, poVars>>

SettingsInit == /\ group_rights = [l \in Libraries |-> [g \in Groups |-> NULL]]
                /\ user_rights = NULL
                /\ user = NULL
                /\ content \in [Files -> Catalogs \cup {NULL}]
                /\ edits = 0
                /\ cache = [f \in Files |-> NULL]
                /\ loaded = <<>>
                /\ localization_entry = NULL
                /\ shown = NULL

\* dict_add: the first value of a key stays
Added(table, key, value) ==
    IF table[key] = NULL THEN [table EXCEPT ![key] = value] ELSE table

-----------------------------------------------------------------------------
\* a library that has no group yet is one that was never defined
XSLTDefineGroupRights(l, g, actions) ==
    /\ group_rights' = [group_rights EXCEPT ![l] = Added(@, g, actions)]
    /\ UNCHANGED <<user_rights, user, poVars>>

\* an unknown library and an unknown group are reported and give nothing
Known(l, groups) == {g \in groups : group_rights[l][g] # NULL}

ActionsOf(l, groups) == UNION {group_rights[l][g] : g \in Known(l, groups)}

XSLTSetUserContext(l, groups) ==
    /\ user_rights' = ActionsOf(l, groups)
    /\ user' = [library |-> l, groups |-> Known(l, groups)]
    /\ UNCHANGED <<group_rights, poVars>>

\* chk:check_rights
xf_check(action) == user_rights # NULL /\ action \in user_rights

-----------------------------------------------------------------------------
one_or_many(n) == IF n # 1 THEN 1 ELSE 0

slavic(n) ==
    IF n % 10 = 1 /\ n % 100 # 11 THEN 0
    ELSE IF n % 10 \in 2..4 /\ (n % 100 < 10 \/ n % 100 >= 20) THEN 1 ELSE 2

polish(n) == IF n = 1 THEN 0
             ELSE IF n % 10 \in 2..4 /\ (n % 100 < 10 \/ n % 100 >= 20) THEN 1 ELSE 2

Languages == {"ru_RU", "uk_UA", "pl_PL", "en_US", "et_EE", "de_DE", "es_ES", "az_AZ",
              "uz_UZ", "tr_TR"}

get_plural(language, n) == CASE language \in {"ru_RU", "uk_UA"} -> slavic(n)
                             [] language = "pl_PL" -> polish(n)
                             [] OTHER -> one_or_many(n)

\* a file that cannot be read, or whose language is unknown, makes no entry
Loadable(f) == content[f] # NULL /\ content[f].language \in Languages

XSLTSetLocalization_reread(f) ==
    /\ IF Loadable(f)
       THEN /\ cache' = [cache EXCEPT ![f] = content[f]]
            /\ loaded' = Append(loaded, f)
            /\ localization_entry' = f
       ELSE /\ localization_entry' = NULL
            /\ UNCHANGED <<cache, loaded>>
    /\ UNCHANGED <<rightsVars, content, edits, shown>>

\* localization_entry_create and, around it, XSLTSetLocalization: an entry that
\* exists is taken as it is, a failure leaves the context without a catalogue
XSLTSetLocalization(f) ==
    /\ IF cache[f] # NULL
       THEN /\ localization_entry' = f
            /\ UNCHANGED <<cache, loaded>>
       ELSE IF Loadable(f)
       THEN /\ cache' = [cache EXCEPT ![f] = content[f]]
            /\ loaded' = Append(loaded, f)
            /\ localization_entry' = f
       ELSE /\ localization_entry' = NULL
            /\ UNCHANGED <<cache, loaded>>
    /\ UNCHANGED <<rightsVars, content, edits, shown>>

\* somebody edits a file
EditFile(f, c) == /\ edits < MaxEdits
                  /\ content' = [content EXCEPT ![f] = c]
                  /\ edits' = edits + 1
                  /\ UNCHANGED <<rightsVars, cache, loaded, localization_entry, shown>>

\* the table of an entry keeps the first message of each id
Message(c, id) ==
    LET i == SelectInSeq(c.messages, LAMBDA m : m.id = id)
    IN  IF i = 0 THEN NULL ELSE c.messages[i]

\* localization_entry_get and localization_entry_get_plural (n is NULL for the first);
\* po_message_msgstr_plural knows no form beyond those of the message
Localized(id, n) ==
    LET m == Message(cache[localization_entry], id)
    IN  IF m = NULL THEN NULL
        ELSE IF n = NULL THEN m.text
        ELSE LET index == get_plural(cache[localization_entry].language, n)
             IN  IF index < Len(m.plural) THEN m.plural[index + 1] ELSE NULL

Substituted(text, name, value) ==
    FlattenSeq([i \in DOMAIN text |->
        IF text[i] = Placeholder(name) THEN value ELSE <<text[i]>>])

\* the pairs of name and value are substituted one after the other
Filled(text, pairs) ==
    LET after[i \in 0..Len(pairs)] ==
            IF i = 0 THEN text ELSE Substituted(after[i - 1], pairs[i].name, pairs[i].value)
    IN  after[Len(pairs)]

xf_localization_base(call) ==
    /\ LET found == IF localization_entry = NULL THEN NULL ELSE Localized(call.id, call.n)
           start == IF found = NULL THEN call.id ELSE found
       IN  shown' = [call |-> call, text |-> Filled(start, call.pairs)]
    /\ UNCHANGED <<rightsVars, content, edits, cache, loaded, localization_entry>>

SettingsNext ==
    \/ \E l \in Libraries, g \in Groups, a \in SUBSET Actions : XSLTDefineGroupRights(l, g, a)
    \/ \E l \in Libraries, gs \in SUBSET Groups : XSLTSetUserContext(l, gs)
    \/ \E f \in Files : XSLTSetLocalization(f)
    \/ \E f \in Files, c \in Catalogs \cup {NULL} : EditFile(f, c)
    \/ \E call \in Calls : xf_localization_base(call)

SettingsSpec == SettingsInit /\ [][SettingsNext]_settingsVars

-----------------------------------------------------------------------------
(* A user holds exactly what the user's groups hold today: a later         *)
(* definition of a group neither widens nor narrows rights that were       *)
(* handed out under the earlier one, and nothing stays of the user before  *)
(* (group_rights.c:12-67).                                                 *)
RightsFollowGroups ==
    user_rights # NULL =>
        \A a \in Actions : xf_check(a) <=> \E g \in user.groups :
                                               a \in group_rights[user.library][g]

(* Each catalogue that is loaded stands in the list exactly once, so that  *)
(* localization_release frees every file once and none that a context      *)
(* still reads is missing (localization.c:98-111, 209-220).                *)
CataloguesOwnedOnce ==
    /\ \A f \in Files : cache[f] # NULL <=> \E i \in DOMAIN loaded : loaded[i] = f
    /\ \A i, j \in DOMAIN loaded : loaded[i] = loaded[j] => i = j
    /\ localization_entry # NULL => cache[localization_entry] # NULL

(* A placeholder that the call has a value for is shown only if this value *)
(* or that of a later pair brought it in (functions.c:1229-1273).          *)
PlaceholdersReplaced ==
    shown # NULL =>
        \A i \in DOMAIN shown.call.pairs :
            LET pairs == shown.call.pairs
                p == Placeholder(pairs[i].name)
            IN  Contains(shown.text, p) =>
                    \E j \in i..Len(pairs) : Contains(pairs[j].value, p)

(* What was set up between two runs is what the runs see: the rights of    *)
(* the groups as they were defined, one catalogue for each file, and       *)
(* texts with the values of their call.                                    *)
SettingsHold == RightsFollowGroups /\ CataloguesOwnedOnce /\ PlaceholdersReplaced
=============================================================================

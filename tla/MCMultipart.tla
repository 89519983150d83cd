----------------------------- MODULE MCMultipart ----------------------------
\* Multipart with small messages.
EXTENDS Multipart

Part(kind, blocks) == [kind |-> kind, headers |-> 1, blocks |-> blocks]
Of(types, parts) == [content_type : types, parts : parts]

\* Empty parts and blocks, blocks of which all but the first are short, and data that
\* looks like the start of a boundary, but not at its own start
MCParts ==
  {Part("block", <<<<>>>>), Part("user", <<<<"d">>>>), Part("blocks", <<>>),
   Part("blocks", <<<<"d", "nl">>, <<"d">>>>),
   Part("blocks", <<<<>>, <<"d", "nl", "nl">>, <<"dd">>>>)}
MCMessages ==
  Of({"none"}, {<<p>> : p \in MCParts} \cup {<<p, q>> : p, q \in MCParts})
  \cup Of({"other"}, {<<p>> : p \in MCParts})
  \cup Of({"multipart", "no_boundary"},
     {<<Part("user", <<<<"d", "nl">>>>), Part("blocks", <<<<"d", "d">>, <<"nl">>>>),
        [Part("block", <<<<"d">>>>) EXCEPT !.headers = 2]>>})

\* Two parts without a boundary
MCPlain == Of({"other"}, {<<Part("block", <<<<"d">>>>), Part("block", <<<<"d">>>>)>>})

\* A second block that is longer than what the first leaves of the buffer
MCLongBlocks == Of({"none"}, {<<Part("blocks", <<<<"d">>, <<"d", "d">>>>)>>})
=============================================================================

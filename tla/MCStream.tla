------------------------------ MODULE MCStream ------------------------------
EXTENDS Stream

\* All formats but grok, whose final message repeats the text.
MCProviders == Formats \ {"grok"}

\* The formats that name a call by an index or an id.
MCIndexed == {"openai", "responses", "kiro"}
=============================================================================

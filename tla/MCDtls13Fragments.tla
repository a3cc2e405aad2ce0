------------------------- MODULE MCDtls13Fragments -------------------------
EXTENDS Dtls13Fragments

\* A short message, one of four fragments, one that is exactly a fragment, one of three.
MCFlight == <<1, 7, 2, 5>>

\* One message of five fragments.
MCLongMessage == <<5>>
=============================================================================

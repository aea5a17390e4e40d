-------------------------- MODULE MCAppendOnlyFile --------------------------
EXTENDS AppendOnlyFile

\* Synced before every reply, during a rewrite too; synced every second, but
\* for the time a child is writing.
MCSettings == {<<"always", FALSE>>, <<"everysec", TRUE>>}

=============================================================================

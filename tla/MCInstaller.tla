----------------------------- MODULE MCInstaller -----------------------------
EXTENDS Installer
MCBodies == {<<"auth", "account">>, <<"account">>}
MCCommented == {<<"comment", "auth">>}
=============================================================================

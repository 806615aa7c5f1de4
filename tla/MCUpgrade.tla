----------------------------- MODULE MCUpgrade -----------------------------
EXTENDS Upgrade

\* LABEL_FILTER: a platform, every upgrade spec, or the post-upgrade checks alone.
MCSelections ==
  {{"cp", "np", "post"}, {"classic", "post"}, {"gcp", "post"}, Specs, {"post"}}
=============================================================================

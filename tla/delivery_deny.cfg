\* One request for a video under a link, which the policy may deny.
SPECIFICATION MCSpec
CHECK_DEADLOCK FALSE
CONSTANTS
  pic = pic
  pic2 = pic2
  vid = vid
  list = list
  seg = seg
  post = post
  blurred = blurred
  vid2 = vid2
  list2 = list2
  seg2 = seg2
  linkPic = linkPic
  linkAvatar = linkAvatar
  linkAvatar2 = linkAvatar2
  linkVid = linkVid
  linkVid2 = linkVid2
  None = None
  CIDs = {pic, pic2, vid, list, seg, post, blurred, vid2, list2, seg2}
  Links = {linkPic, linkAvatar, linkAvatar2, linkVid, linkVid2}
  Requests = {r1}
  Inputs <- StreamLinkInputs
  Images = {pic, pic2}
  Videos = {vid, vid2}
  VariantsOf <- MCVariantsOf
  PlaylistsOf <- MCPlaylistsOf
  ChildrenOf <- MCChildrenOf
  PostersOf <- MCPostersOf
  Shows <- MCShows
  SourceOf <- MCSourceOf
  PosterUri <- MCPosterUri
  Mentions <- MCMentions
  Crop <- MCCrop
  MaxPlaylists = 2
  Deletable = {vid}
  MaxChanges = 1
INVARIANT DeniedRefused
